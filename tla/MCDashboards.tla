---------------------------- MODULE MCDashboards ----------------------------
(* Three scans of one project and one of another; a scan found three files *)
(* or none.                                                                *)
EXTENDS Dashboards

File(path, directory, score, band) ==
    [path |-> path, directory |-> directory, score |-> score, band |-> band]

\* One of the three files could not be scored.
Found == {
    [files |-> {File(1, 1, 80, "critical"), File(2, 1, None, None), File(3, 2, 15, "low")},
     edges |-> {<<1, 2>>, <<3, 1>>}]}

ScanIds == {1, 2, 3, 4}
OfProject == <<"app", "app", "app", "lib">>
=============================================================================
