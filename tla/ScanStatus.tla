----------------------------- MODULE ScanStatus -----------------------------
(* The values of the status column of a scan.                              *)
Active   == {"pending", "running"}
Terminal == {"succeeded", "failed", "cancelled"}
Statuses == Active \cup Terminal
=============================================================================
