---------------------------- MODULE RefactorQueue ----------------------------
(***************************************************************************)
(* The refactor queue of one project.  Requests of the same user run at    *)
(* the same time, each in a transaction of its own (READ COMMITTED) that   *)
(* takes no lock before it writes: a request computes the positions of the *)
(* whole board from rows it read earlier.                                  *)
(*                                                                         *)
(* The unit of work writes the columns that differ from what it loaded,    *)
(* and fails as a whole when a row it updates is gone.  The writes of a    *)
(* request and its commit are one step; only the DELETE that precedes the  *)
(* renumbering of a lane holds a row lock from an earlier step on.         *)
(***************************************************************************)
EXTENDS Naturals, FiniteSets

CONSTANTS Items,        \* ids of queue items, each used once
          FileOf,       \* the file each item stands for
          Clients,      \* requests served at the same time
          MaxPosition,  \* bound on the position a request asks for
          Targets,      \* the statuses a request asks for
          NoItem        \* a client without an item

VARIABLES project,      \* whether the project row exists
          rows,         \* the queue rows, by item
          born,         \* the order in which items were created; 0 = not yet
          client        \* what each request is doing
vars == <<project, rows, born, client>>

Status == {"pending", "in_progress", "completed"}

ASSUME QueueAssumption ==
    /\ MaxPosition \in Nat
    /\ Targets \subseteq Status
    /\ NoItem \notin Items

Row    == [status : Status \cup {"absent"}, position : Nat]
NoRow  == [status |-> "absent", position |-> 0]
NoRows == [i \in Items |-> NoRow]

Stages == {"idle", "adding", "opened", "moving", "doomed", "removing"}
Client == [at : Stages, item : Items \cup {NoItem}, status : Status, position : Nat,
           view : [Items -> Row]]
Idle   == [at |-> "idle", item |-> NoItem, status |-> "pending", position |-> 0, view |-> NoRows]

TypeOK ==
    /\ project \in BOOLEAN
    /\ rows \in [Items -> Row]
    /\ born \in [Items -> Nat]
    /\ client \in [Clients -> Client]

Init ==
    /\ project = TRUE
    /\ rows = NoRows
    /\ born = [i \in Items |-> 0]
    /\ client = [c \in Clients |-> Idle]

-----------------------------------------------------------------------------
(* Rows in order.                                                          *)

Present(i) == rows[i].status # "absent"

\* The items that table shows with a status, "but" left out.
Lane(table, status, but) == {i \in Items \ {but} : table[i].status = status}

\* ORDER BY position, created_at
Before(table, i, j) ==
    \/ table[i].position < table[j].position
    \/ table[i].position = table[j].position /\ born[i] < born[j]

Rank(table, lane, i) == Cardinality({j \in lane : Before(table, j, i)})

\* An uncommitted DELETE holds the row.
Held(i, c) == \E d \in Clients \ {c} : client[d].at = "removing" /\ client[d].item = i

\* Variant: every column of a dirty row is written, as it was loaded.
WholeRow(row, loaded, new) == new

\* What is written of a row: the columns that are not as they were loaded.
Merged(row, loaded, new) ==
    [status   |-> IF new.status # loaded.status THEN new.status ELSE row.status,
     position |-> IF new.position # loaded.position THEN new.position ELSE row.position]

\* Flush and commit of the new rows of the items in "lane", as loaded in view.
\* The update of a row that is gone fails, and the transaction with it.
Write(c, lane, new, base) ==
    LET view  == client[c].view
        dirty == {i \in lane : new[i] # view[i]} IN
    /\ \A i \in dirty : ~Held(i, c)
    /\ rows' = IF \A i \in dirty : Present(i)
               THEN [i \in Items |-> IF i \in dirty THEN Merged(rows[i], view[i], new[i]) ELSE base[i]]
               ELSE rows

Leave(c) == client' = [client EXCEPT ![c] = Idle]

-----------------------------------------------------------------------------
(* POST /refactor-queue                                                    *)

\* Variant: the last position is handed out again.
LastPosition ==
    LET taken == {rows[i].position : i \in Lane(rows, "pending", NoItem)} IN
    IF taken = {} THEN 0 ELSE CHOOSE p \in taken : \A q \in taken : q <= p

NextPosition ==
    LET taken == {rows[i].position : i \in Lane(rows, "pending", NoItem)} IN
    IF taken = {} THEN 0 ELSE (CHOOSE p \in taken : \A q \in taken : q <= p) + 1

BeginAdd(c, i) ==
    /\ client[c].at = "idle"
    /\ project
    /\ born[i] = 0
    /\ born' = [born EXCEPT ![i] = Cardinality({j \in Items : born[j] > 0}) + 1]
    /\ client' = [client EXCEPT ![c] = [Idle EXCEPT !.at = "adding", !.item = i, !.position = NextPosition]]
    /\ UNCHANGED <<project, rows>>

\* Variant: a table without the constraint on the file.
InsertUnconstrained(c) == LET i == client[c].item IN
    /\ client[c].at = "adding"
    /\ rows' = IF project
               THEN [rows EXCEPT ![i] = [status |-> "pending", position |-> client[c].position]]
               ELSE rows
    /\ Leave(c)
    /\ UNCHANGED <<project, born>>

\* One row per file, and none without a project: else the insert fails.
CommitAdd(c) == LET i == client[c].item
                    same == {j \in Items : Present(j) /\ FileOf[j] = FileOf[i]} IN
    /\ client[c].at = "adding"
    /\ \A j \in same : ~Held(j, c)
    /\ rows' = IF project /\ same = {}
               THEN [rows EXCEPT ![i] = [status |-> "pending", position |-> client[c].position]]
               ELSE rows
    /\ Leave(c)
    /\ UNCHANGED <<project, born>>

-----------------------------------------------------------------------------
(* PATCH /refactor-queue/{item_id}                                         *)

\* The item is read first, and the board later; the session keeps the item
\* as it was first read.
OpenItem(c, i, status, position) ==
    /\ client[c].at = "idle"
    /\ Present(i)
    /\ client' = [client EXCEPT ![c] =
            [at |-> "opened", item |-> i, status |-> status, position |-> position,
             view |-> [NoRows EXCEPT ![i] = rows[i]]]]
    /\ UNCHANGED <<project, rows, born>>

LoadBoard(c) == LET i == client[c].item IN
    /\ client[c].at = "opened"
    /\ client' = [client EXCEPT ![c].at = "moving",
                                ![c].view = [rows EXCEPT ![i] = client[c].view[i]]]
    /\ UNCHANGED <<project, rows, born>>

\* Variant: only the lane the item moves to is put in order.
TargetLaneOnly(request) ==
    LET view   == request.view
        others == Lane(view, request.status, request.item)
        room   == Cardinality(others)
        index  == IF request.position > room THEN room ELSE request.position IN
    [i \in Items |->
        IF i = request.item THEN [status |-> request.status, position |-> index]
        ELSE IF i \in others
        THEN LET rank == Rank(view, others, i) IN
             [status |-> request.status, position |-> IF rank >= index THEN rank + 1 ELSE rank]
        ELSE view[i]]

\* Variant: the item is counted in its own lane when it is put back into it.
PositionUnshifted(request) ==
    LET view  == request.view
        lanes == [s \in Status |-> Lane(view, s, NoItem)]
        room  == Cardinality(lanes[request.status])
        index == IF request.position > room THEN room ELSE request.position IN
    [i \in Items |->
        IF i = request.item THEN [status |-> request.status, position |-> index]
        ELSE IF view[i].status = "absent" THEN NoRow
        ELSE LET rank == Rank(view, lanes[view[i].status], i) IN
             [status   |-> view[i].status,
              position |-> IF view[i].status = request.status /\ rank >= index
                           THEN rank + 1 ELSE rank]]

\* Where everything goes when the item is put into its new lane.
Rearranged(request) ==
    LET view   == request.view
        others == [s \in Status |-> Lane(view, s, request.item)]
        room   == Cardinality(others[request.status])
        index  == IF request.position > room THEN room ELSE request.position IN
    [i \in Items |->
        IF i = request.item THEN [status |-> request.status, position |-> index]
        ELSE IF view[i].status = "absent" THEN NoRow
        ELSE LET rank == Rank(view, others[view[i].status], i) IN
             [status   |-> view[i].status,
              position |-> IF view[i].status = request.status /\ rank >= index
                           THEN rank + 1 ELSE rank]]

CommitMove(c) == LET view == client[c].view IN
    /\ client[c].at = "moving"
    /\ Write(c, {i \in Items : view[i].status # "absent"}, Rearranged(client[c]), rows)
    /\ Leave(c)
    /\ UNCHANGED <<project, born>>

-----------------------------------------------------------------------------
(* DELETE /refactor-queue/{item_id}                                        *)

OpenDoomed(c, i) ==
    /\ client[c].at = "idle"
    /\ Present(i)
    /\ client' = [client EXCEPT ![c] =
            [Idle EXCEPT !.at = "doomed", !.item = i, !.status = rows[i].status]]
    /\ UNCHANGED <<project, rows, born>>

\* The DELETE is flushed, then the rest of the lane is read: the lane the
\* item was in when it was opened.
FlushRemoval(c) ==
    LET rest == Lane(rows, client[c].status, client[c].item) IN
    /\ client[c].at = "doomed"
    /\ ~Held(client[c].item, c)
    /\ client' = [client EXCEPT ![c].at = "removing",
                                ![c].view = [j \in Items |-> IF j \in rest THEN rows[j] ELSE NoRow]]
    /\ UNCHANGED <<project, rows, born>>

\* Variant: the rest of the lane is read, and left as it is.
RemovalWithoutRenumbering(c) ==
    /\ client[c].at = "removing"
    /\ Write(c, Lane(client[c].view, client[c].status, NoItem), client[c].view,
             [rows EXCEPT ![client[c].item] = NoRow])
    /\ Leave(c)
    /\ UNCHANGED <<project, born>>

CommitRemoval(c) ==
    LET view == client[c].view
        rest == Lane(view, client[c].status, NoItem)
        new  == [i \in Items |-> [status |-> view[i].status, position |-> Rank(view, rest, i)]] IN
    /\ client[c].at = "removing"
    /\ Write(c, rest, new, [rows EXCEPT ![client[c].item] = NoRow])
    /\ Leave(c)
    /\ UNCHANGED <<project, born>>

-----------------------------------------------------------------------------
\* A database error, a deadlock Postgres resolves, or the end of the
\* handler's process: the transaction is rolled back.
RollBack(c) ==
    /\ client[c].at # "idle"
    /\ Leave(c)
    /\ UNCHANGED <<project, rows, born>>

\* The project is deleted, by a request of another kind, with its queue.
DeleteProject ==
    /\ project
    /\ \A c \in Clients : client[c].at # "removing"
    /\ project' = FALSE
    /\ rows' = NoRows
    /\ UNCHANGED <<born, client>>

ClientStep(c) ==
    \/ \E i \in Items : BeginAdd(c, i) \/ OpenDoomed(c, i)
    \/ \E i \in Items, status \in Targets, position \in 0..MaxPosition :
            OpenItem(c, i, status, position)
    \/ CommitAdd(c) \/ LoadBoard(c) \/ CommitMove(c)
    \/ FlushRemoval(c) \/ CommitRemoval(c) \/ RollBack(c)

Next == (\E c \in Clients : ClientStep(c)) \/ DeleteProject

Spec == Init /\ [][Next]_vars

-----------------------------------------------------------------------------
\* A move rewrites the positions of the whole board from rows that may be out
\* of date; yet the only status it ever changes is that of its own item, so a
\* file another request has put into a lane stays there.
OnlyOwnMove ==
    \A i \in Items : Present(i) /\ rows'[i].status \notin {rows[i].status, "absent"} =>
        \E c \in Clients : /\ client[c].at = "moving"
                           /\ client[c].item = i
                           /\ client[c].status = rows'[i].status
MovesKeepOtherLanes == [][OnlyOwnMove]_vars

\* The positions of each lane are 0, 1, 2, ...
Dense ==
    \A status \in Status :
        LET lane == Lane(rows, status, NoItem) IN
        {rows[i].position : i \in lane} = 0..(Cardinality(lane) - 1)

\* Whatever interleaved requests left behind, gaps and equal positions, a move
\* that is not disturbed puts the whole board in order.
MoveRestoresOrder ==
    [][\A c \in Clients : CommitMove(c) /\ client[c].view = rows => Dense']_vars

\* A deletion, served while its lane does not change, closes the gap it makes,
\* and any other gap of the lane.
RemovalClosesGap ==
    [][\A c \in Clients :
         LET rest == Lane(rows, client[c].status, client[c].item)
             read == Lane(client[c].view, client[c].status, NoItem) IN
         CommitRemoval(c) /\ rest = read /\ (\A i \in rest : client[c].view[i] = rows[i])
         => {rows'[i].position : i \in rest} = 0..(Cardinality(rest) - 1)]_vars

-----------------------------------------------------------------------------
(* The board these rows are.                                               *)

\* The lanes as list_for_project returns them.
Listed(status) ==
    LET lane == Lane(rows, status, NoItem) IN
    [n \in 1..Cardinality(lane) |-> CHOOSE i \in lane : Rank(rows, lane, i) = n - 1]

ListedLanes == [status \in Status |-> Listed(status)]

Board == INSTANCE RefactorBoard WITH lanes <- ListedLanes

\* Served one at a time, the requests of the queue (POST, PATCH and DELETE of
\* /refactor-queue) are the operations of the board.
ImplementsBoard == Board!BoardSpec

\* A move puts the item where its user asked for it, or at the end of the lane
\* when that is nearer, and leaves the order of all other items alone: moves
\* down and up within a lane, and out of lanes with and without gaps.
MovesAsAsked ==
    [][\A c \in Clients :
         LET request == client[c] IN
         CommitMove(c) /\ Present(request.item)
         => Board!MoveTo(request.item, request.status, request.position)]_vars
=============================================================================
