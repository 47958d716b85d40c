-------------------------- MODULE MaintenanceProofs --------------------------
(***************************************************************************)
(* Theorems about Maintenance, for any tickets, requests, number of        *)
(* members served at the same time and bound on the versions.              *)
(***************************************************************************)
EXTENDS Maintenance, FiniteSetTheorems, TLAPS

(* What each kind of request carries. *)
LEMMA TicketRequestShape ==
  ASSUME NEW q \in TicketRequests
  PROVE  /\ q.op \in Actions \cup {"createTicket"}
         /\ q.op \in Actions => q.target \in Tickets /\ q.version \in 1..MaxVersion
BY MaintenanceAssumption DEF TicketRequest, Actions

(* The rank of each status. *)
LEMMA Ranks ==
  /\ Rank("NONE") = 0 /\ Rank("SUBMITTED") = 1 /\ Rank("TRIAGED") = 2 /\ Rank("ASSIGNED") = 3
  /\ Rank("COMPLETED") = 4 /\ Rank("VERIFIED") = 5 /\ Rank("CLOSED") = 6
<1>1. ASSUME NEW s, NEW i \in 0..6, IF i = 0 THEN s = "NONE" ELSE TicketStatus[i] = s
      PROVE  Rank(s) = i
  <2>1. \A j \in 0..6 : (IF j = 0 THEN s = "NONE" ELSE TicketStatus[j] = s) => j = i
    BY <1>1 DEF TicketStatus
  <2> QED
    BY <1>1, <2>1 DEF Rank
<1>2. /\ TicketStatus[1] = "SUBMITTED" /\ TicketStatus[2] = "TRIAGED"
      /\ TicketStatus[3] = "ASSIGNED" /\ TicketStatus[4] = "COMPLETED"
      /\ TicketStatus[5] = "VERIFIED" /\ TicketStatus[6] = "CLOSED"
  BY DEF TicketStatus
<1> QED
  BY <1>1, <1>2

(* The transition that leads to each stage, the creation for the first. *)
StageOp == <<"createTicket", "triage", "assign", "complete", "verify", "close">>

(* A transition leads to the stage it is named for, from that stage or from   *)
(* the one before it.                                                         *)
LEMMA TransitionsClimb ==
  ASSUME NEW op \in Actions, NEW s, NextStatus(op, s) # "NONE"
  PROVE  \E i \in 2..6 : /\ NextStatus(op, s) = TicketStatus[i] /\ Rank(NextStatus(op, s)) = i
                         /\ StageOp[i] = op /\ Rank(s) \in {i - 1, i}
<1>1. \/ op = "triage" /\ s = "SUBMITTED" /\ NextStatus(op, s) = "TRIAGED"
      \/ op = "assign" /\ s \in {"TRIAGED", "ASSIGNED"} /\ NextStatus(op, s) = "ASSIGNED"
      \/ op = "complete" /\ s = "ASSIGNED" /\ NextStatus(op, s) = "COMPLETED"
      \/ op = "verify" /\ s = "COMPLETED" /\ NextStatus(op, s) = "VERIFIED"
      \/ op = "close" /\ s = "VERIFIED" /\ NextStatus(op, s) = "CLOSED"
  BY DEF NextStatus
<1> QED
  BY <1>1, Ranks DEF TicketStatus, StageOp

-----------------------------------------------------------------------------
(* What the invariants rest on. *)

FilesOf(t) == {e \in ticketRecord : e.made = t}
DoneFor(t) == {e.req.op : e \in FilesOf(t)}
EarnedUpTo(t, n) == \A i \in 2..6 : n >= i => StageOp[i] \in DoneFor(t)

(* The records of a maintenance request are as many as its version says, and  *)
(* its stage was earned.                                                      *)
FiledOK ==
  \A t \in Tickets : /\ IsFiniteSet(FilesOf(t)) /\ Cardinality(FilesOf(t)) = ticket[t].version
                     /\ EarnedUpTo(t, Rank(ticket[t].status))

(* What a transition has read: a version that is not ahead of the row, the    *)
(* row itself if the versions are the same, and a status it may start from,   *)
(* whose stage was earned.                                                    *)
DeskOK(d) ==
  LET q == desk[d].req
      t == desk[d].req.target
      seen == desk[d].seen
  IN desk[d].stage = "commit" =>
       /\ q \in TicketRequests
       /\ q.op \in Actions => /\ seen.version <= ticket[t].version
                              /\ seen.version = ticket[t].version => seen = ticket[t]
                              /\ NextStatus(q.op, seen.status) # "NONE"
                              /\ EarnedUpTo(t, Rank(seen.status))

MaintenanceInv == MaintenanceTypeOK /\ FiledOK /\ \A d \in Desks : DeskOK(d)

(* The version of a row is a natural number. *)
LEMMA RowVersion ==
  ASSUME NEW row \in TicketRow
  PROVE  row.version \in 0..MaxVersion /\ (row.version = 0 <=> row = NoTicket)
BY MaintenanceAssumption DEF TicketRow, NoTicket

LEMMA MaintenanceInvInit ==
  ASSUME MaintenanceInit
  PROVE  MaintenanceInv
<1>1. MaintenanceTypeOK
  BY DEF MaintenanceInit, MaintenanceTypeOK, FreeDesk, NoTicket, TicketRow
<1>2. FiledOK
  <2> SUFFICES ASSUME NEW t \in Tickets
               PROVE  /\ IsFiniteSet(FilesOf(t)) /\ Cardinality(FilesOf(t)) = ticket[t].version
                      /\ EarnedUpTo(t, Rank(ticket[t].status))
    BY DEF FiledOK
  <2>1. FilesOf(t) = {} /\ ticket[t].version = 0 /\ ticket[t].status = "NONE"
    BY DEF MaintenanceInit, FilesOf, NoTicket
  <2> QED
    BY <2>1, FS_EmptySet, Ranks DEF EarnedUpTo
<1>3. \A d \in Desks : DeskOK(d)
  BY DEF MaintenanceInit, DeskOK, FreeDesk
<1> QED
  BY <1>1, <1>2, <1>3 DEF MaintenanceInv

(* A step that writes no row preserves the invariant if its desk knows what   *)
(* it has read.                                                               *)
LEMMA RowsAlone ==
  ASSUME MaintenanceInv, UNCHANGED <<ticket, ticketRecord>>, NEW d \in Desks,
         NEW c \in [stage : {"idle", "commit"}, req : TicketRequests \cup {NoValue}, seen : TicketRow],
         desk' = [desk EXCEPT ![d] = c], DeskOK(d)'
  PROVE  MaintenanceInv'
<1>1. MaintenanceTypeOK'
  BY DEF MaintenanceInv, MaintenanceTypeOK
<1>2. FiledOK'
  BY DEF MaintenanceInv, FiledOK, FilesOf, EarnedUpTo, DoneFor
<1>3. ASSUME NEW g \in Desks, g # d PROVE DeskOK(g)'
  <2>1. desk'[g] = desk[g]
    BY <1>3 DEF MaintenanceInv, MaintenanceTypeOK
  <2>2. DeskOK(g)
    BY DEF MaintenanceInv
  <2> QED
    BY <2>1, <2>2 DEF DeskOK, EarnedUpTo, DoneFor, FilesOf
<1> QED
  BY <1>1, <1>2, <1>3 DEF MaintenanceInv

(* The commit of a request writes the next version of a row together with its *)
(* record, which is new.                                                      *)
LEMMA Stored ==
  ASSUME MaintenanceInv, NEW d \in Desks, desk[d].stage = "commit",
         NEW t \in Tickets, NEW row \in TicketRow, Store(d, t, row),
         row.version = ticket[t].version + 1,
         \A i \in 2..6 : Rank(row.status) >= i =>
           StageOp[i] \in DoneFor(t) \cup {desk[d].req.op}
  PROVE  MaintenanceInv'
<1> DEFINE q == desk[d].req
           e == [req |-> q, made |-> t]
<1>1. q \in TicketRequests
  BY DEF MaintenanceInv, DeskOK
<1>2. /\ ticket' = [ticket EXCEPT ![t] = row] /\ desk' = [desk EXCEPT ![d] = FreeDesk]
      /\ ticketRecord' = ticketRecord \cup {e}
  BY DEF Store
<1>3. ticket'[t] = row /\ \A u \in Tickets : u # t => ticket'[u] = ticket[u]
  BY <1>2 DEF MaintenanceInv, MaintenanceTypeOK
<1>4. e \notin ticketRecord
  <2>1. ASSUME e \in ticketRecord PROVE e \in TicketRecorded(q)
    BY <2>1 DEF TicketRecorded
  <2> QED
    BY <2>1 DEF Store
<1>5. MaintenanceTypeOK'
  <2>1. FreeDesk \in [stage : {"idle", "commit"}, req : TicketRequests \cup {NoValue}, seen : TicketRow]
    BY DEF FreeDesk, TicketRow
  <2> QED
    BY <1>1, <1>2, <2>1 DEF MaintenanceInv, MaintenanceTypeOK
<1>6. \A u \in Tickets : DoneFor(u) \subseteq DoneFor(u)'
  BY <1>2 DEF DoneFor, FilesOf
<1>7. q.op \in DoneFor(t)'
  <2>1. e \in FilesOf(t)' /\ e.req.op = q.op
    BY <1>2 DEF FilesOf
  <2> HIDE DEF e, q
  <2> QED
    BY <2>1 DEF DoneFor
<1>8. FiledOK'
  <2>1. ASSUME NEW u \in Tickets, u # t
        PROVE  FilesOf(u)' = FilesOf(u)
    BY <1>2, <2>1 DEF FilesOf
  <2>2. ASSUME NEW u \in Tickets, u # t
        PROVE  /\ IsFiniteSet(FilesOf(u)') /\ Cardinality(FilesOf(u)') = ticket'[u].version
               /\ EarnedUpTo(u, Rank(ticket[u].status))'
    <3>1. /\ IsFiniteSet(FilesOf(u)) /\ Cardinality(FilesOf(u)) = ticket[u].version
          /\ EarnedUpTo(u, Rank(ticket[u].status))
      BY DEF MaintenanceInv, FiledOK
    <3>2. ticket'[u] = ticket[u] /\ FilesOf(u)' = FilesOf(u)
      BY <1>3, <2>1, <2>2
    <3> QED
      BY <3>1, <3>2 DEF EarnedUpTo, DoneFor
  <2>3. FilesOf(t)' = FilesOf(t) \cup {e} /\ e \notin FilesOf(t)
    BY <1>2, <1>4 DEF FilesOf
  <2>4. IsFiniteSet(FilesOf(t)) /\ Cardinality(FilesOf(t)) = ticket[t].version
    BY DEF MaintenanceInv, FiledOK
  <2>5. /\ IsFiniteSet(FilesOf(t) \cup {e})
        /\ Cardinality(FilesOf(t) \cup {e}) = Cardinality(FilesOf(t)) + 1
    BY <2>3, <2>4, FS_AddElement
  <2>6. IsFiniteSet(FilesOf(t)') /\ Cardinality(FilesOf(t)') = ticket'[t].version
    BY <1>3, <2>3, <2>4, <2>5
  <2>7. EarnedUpTo(t, Rank(ticket[t].status))'
    <3>1. PICK n : n = Rank(row.status)
      OBVIOUS
    <3>2. \A i \in 2..6 : n >= i => StageOp[i] \in DoneFor(t)'
      BY <1>6, <1>7, <3>1
    <3> QED
      BY <1>3, <3>1, <3>2 DEF EarnedUpTo
  <2> QED
    BY <2>2, <2>6, <2>7 DEF FiledOK
<1>9. ASSUME NEW g \in Desks PROVE DeskOK(g)'
  <2>1. CASE g = d
    <3>1. desk'[d].stage = "idle"
      BY <1>2 DEF MaintenanceInv, MaintenanceTypeOK, FreeDesk
    <3> QED
      BY <2>1, <3>1 DEF DeskOK
  <2>2. CASE g # d
    <3>1. desk'[g] = desk[g]
      BY <1>2, <2>2 DEF MaintenanceInv, MaintenanceTypeOK
    <3>2. CASE desk[g].stage = "commit" /\ desk[g].req.op \in Actions
      <4>1. PICK u \in Tickets : u = desk[g].req.target
        BY <3>2, TicketRequestShape DEF MaintenanceInv, DeskOK
      <4>2. /\ desk[g].req \in TicketRequests /\ desk[g].seen.version <= ticket[u].version
            /\ desk[g].seen.version = ticket[u].version => desk[g].seen = ticket[u]
            /\ NextStatus(desk[g].req.op, desk[g].seen.status) # "NONE"
            /\ EarnedUpTo(u, Rank(desk[g].seen.status))
        BY <3>2, <4>1 DEF MaintenanceInv, DeskOK
      <4>3. ticket[u].version \in Nat /\ desk[g].seen.version \in Nat
        BY RowVersion, MaintenanceAssumption DEF MaintenanceInv, MaintenanceTypeOK
      <4>4. /\ desk[g].seen.version <= ticket'[u].version
            /\ desk[g].seen.version = ticket'[u].version => desk[g].seen = ticket'[u]
        BY <1>3, <4>2, <4>3
      <4>5. PICK n : n = Rank(desk[g].seen.status)
        OBVIOUS
      <4>6. EarnedUpTo(u, n)'
        BY <1>6, <4>2, <4>5 DEF EarnedUpTo
      <4> QED
        BY <3>1, <3>2, <4>1, <4>2, <4>4, <4>5, <4>6 DEF DeskOK, EarnedUpTo
    <3>3. CASE ~(desk[g].stage = "commit" /\ desk[g].req.op \in Actions)
      BY <3>1, <3>3 DEF MaintenanceInv, DeskOK
    <3> QED
      BY <3>2, <3>3
  <2> QED
    BY <2>1, <2>2
<1> QED
  BY <1>5, <1>8, <1>9 DEF MaintenanceInv

-----------------------------------------------------------------------------
LEMMA BeginKeeps ==
  ASSUME MaintenanceInv, NEW d \in Desks, NEW q \in TicketRequests,
         BeginTicket(d, q) \/ BeginTransition(d, q)
  PROVE  MaintenanceInv'
<1>1. ASSUME NEW seen \in TicketRow, Attend(d, q, seen),
             q.op \in Actions => /\ seen = ticket[q.target]
                                 /\ NextStatus(q.op, seen.status) # "NONE"
      PROVE  MaintenanceInv'
  <2> DEFINE c == [stage |-> "commit", req |-> q, seen |-> seen]
  <2>1. /\ c \in [stage : {"idle", "commit"}, req : TicketRequests \cup {NoValue}, seen : TicketRow]
        /\ desk' = [desk EXCEPT ![d] = c] /\ UNCHANGED <<ticket, ticketRecord>>
    BY <1>1 DEF Attend
  <2>2. desk'[d] = c
    BY <2>1 DEF MaintenanceInv, MaintenanceTypeOK
  <2>3. ASSUME q.op \in Actions
        PROVE  /\ seen.version <= ticket[q.target].version
               /\ EarnedUpTo(q.target, Rank(seen.status))
    <3>1. q.target \in Tickets
      BY <2>3, TicketRequestShape
    <3>2. ticket[q.target].version \in Nat
      BY <3>1, RowVersion, MaintenanceAssumption DEF MaintenanceInv, MaintenanceTypeOK
    <3> QED
      BY <1>1, <2>3, <3>1, <3>2 DEF MaintenanceInv, FiledOK
  <2>4. DeskOK(d)'
    BY <1>1, <2>1, <2>2, <2>3 DEF DeskOK, EarnedUpTo, DoneFor, FilesOf
  <2> QED
    BY <2>1, <2>4, RowsAlone
<1>2. CASE BeginTicket(d, q)
  <2>1. NoTicket \in TicketRow /\ q.op \notin Actions
    BY <1>2 DEF BeginTicket, TicketRow, Actions
  <2> QED
    BY <1>1, <1>2, <2>1 DEF BeginTicket
<1>3. CASE BeginTransition(d, q)
  <2>1. ticket[q.target] \in TicketRow
    BY <1>3, TicketRequestShape DEF BeginTransition, MaintenanceInv, MaintenanceTypeOK
  <2> QED
    BY <1>1, <1>3, <2>1 DEF BeginTransition
<1> QED
  BY <1>2, <1>3

LEMMA AbandonKeeps ==
  ASSUME MaintenanceInv, NEW d \in Desks, Abandon(d)
  PROVE  MaintenanceInv'
<1>1. FreeDesk \in [stage : {"idle", "commit"}, req : TicketRequests \cup {NoValue}, seen : TicketRow]
  BY DEF FreeDesk, TicketRow
<1>2. desk' = [desk EXCEPT ![d] = FreeDesk] /\ UNCHANGED <<ticket, ticketRecord>>
  BY DEF Abandon
<1>3. desk'[d].stage = "idle"
  BY <1>2 DEF MaintenanceInv, MaintenanceTypeOK, FreeDesk
<1> QED
  BY <1>1, <1>2, <1>3, RowsAlone DEF DeskOK

LEMMA TicketCreated ==
  ASSUME MaintenanceInv, NEW d \in Desks, CommitTicket(d)
  PROVE  MaintenanceInv'
<1> DEFINE row == [status |-> "SUBMITTED", version |-> 1]
<1>1. PICK t \in Tickets : ticket[t] = NoTicket /\ Store(d, t, row)
  BY DEF CommitTicket
<1>2. row \in TicketRow /\ row.version = ticket[t].version + 1
  BY <1>1, MaintenanceAssumption DEF TicketRow, TicketStatus, NoTicket
<1>3. \A i \in 2..6 : ~(Rank(row.status) >= i)
  BY Ranks
<1>4. desk[d].stage = "commit"
  BY DEF CommitTicket
<1> HIDE DEF row
<1> QED
  BY <1>1, <1>2, <1>3, <1>4, Stored

(* What the commit of a transition writes: the status after the one it has    *)
(* read, with the version after the one it meets.                             *)
LEMMA TransitionWrites ==
  ASSUME MaintenanceInv, NEW d \in Desks, CommitTransition(d)
  PROVE  \E t \in Tickets, row \in TicketRow, i \in 2..6 :
           /\ t = desk[d].req.target /\ desk[d].stage = "commit" /\ desk[d].req.op \in Actions
           /\ desk[d].seen.version <= ticket[t].version
           /\ desk[d].seen.version = ticket[t].version => desk[d].seen = ticket[t]
           /\ EarnedUpTo(t, Rank(desk[d].seen.status))
           /\ Rank(desk[d].seen.status) \in {i - 1, i} /\ StageOp[i] = desk[d].req.op
           /\ Store(d, t, row) /\ row.version = ticket[t].version + 1 /\ Rank(row.status) = i
<1>1. /\ desk[d].stage = "commit" /\ desk[d].req \in TicketRequests /\ desk[d].req.op \in Actions
      /\ desk[d].req.target \in Tickets /\ DeskOK(d)
  BY TicketRequestShape DEF CommitTransition, MaintenanceInv, DeskOK
<1>2. PICK t \in Tickets : t = desk[d].req.target
  BY <1>1
<1>3. PICK i \in 2..6 :
        /\ NextStatus(desk[d].req.op, desk[d].seen.status) = TicketStatus[i]
        /\ Rank(NextStatus(desk[d].req.op, desk[d].seen.status)) = i
        /\ StageOp[i] = desk[d].req.op /\ Rank(desk[d].seen.status) \in {i - 1, i}
  BY <1>1, TransitionsClimb DEF DeskOK
<1> DEFINE row == [status |-> TicketStatus[i], version |-> ticket[t].version + 1]
<1>4. Store(d, t, row) /\ ticket[t].version < MaxVersion
  BY <1>2, <1>3 DEF CommitTransition
<1>5. ticket[t].version \in Nat
  BY RowVersion, MaintenanceAssumption DEF MaintenanceInv, MaintenanceTypeOK
<1>6. row \in TicketRow
  BY <1>4, <1>5, MaintenanceAssumption DEF TicketRow
<1>7. row.version = ticket[t].version + 1 /\ Rank(row.status) = i
  BY <1>3
<1> HIDE DEF row
<1> QED
  BY <1>1, <1>2, <1>3, <1>4, <1>6, <1>7 DEF DeskOK

LEMMA TransitionCommitted ==
  ASSUME MaintenanceInv, NEW d \in Desks, CommitTransition(d)
  PROVE  MaintenanceInv'
<1>1. PICK t \in Tickets, row \in TicketRow, i \in 2..6 :
        /\ desk[d].stage = "commit" /\ EarnedUpTo(t, Rank(desk[d].seen.status))
        /\ Rank(desk[d].seen.status) \in {i - 1, i} /\ StageOp[i] = desk[d].req.op
        /\ Store(d, t, row) /\ row.version = ticket[t].version + 1 /\ Rank(row.status) = i
  BY TransitionWrites
<1>2. \A j \in 2..6 : Rank(row.status) >= j => StageOp[j] \in DoneFor(t) \cup {desk[d].req.op}
  BY <1>1 DEF EarnedUpTo
<1> QED
  BY <1>1, <1>2, Stored

LEMMA MaintenanceInvStep ==
  ASSUME MaintenanceInv, [MaintenanceNext]_<<leasingVars, deskVars>>
  PROVE  MaintenanceInv'
<1>1. CASE MaintenanceStep
  BY <1>1, BeginKeeps, TicketCreated, TransitionCommitted, AbandonKeeps DEF MaintenanceStep
<1>2. CASE UNCHANGED deskVars
  <2>1. MaintenanceTypeOK' /\ FiledOK'
    BY <1>2 DEF deskVars, MaintenanceInv, MaintenanceTypeOK, FiledOK, FilesOf, EarnedUpTo, DoneFor
  <2>2. \A d \in Desks : DeskOK(d)'
    BY <1>2 DEF deskVars, MaintenanceInv, DeskOK, EarnedUpTo, DoneFor, FilesOf
  <2> QED
    BY <2>1, <2>2 DEF MaintenanceInv
<1> QED
  BY <1>1, <1>2 DEF MaintenanceNext

(* The inductive invariant holds in every reachable state.                    *)
THEOREM MaintenanceIsSound == MaintenanceSpec => []MaintenanceInv
BY MaintenanceInvInit, MaintenanceInvStep, PTL DEF MaintenanceSpec

(* Every maintenance request, record and request in service keeps the values  *)
(* the schema and the handlers give it.                                       *)
THEOREM MaintenanceTypeCorrect == MaintenanceSpec => []MaintenanceTypeOK
<1>1. MaintenanceInv => MaintenanceTypeOK
  BY DEF MaintenanceInv
<1> QED
  BY <1>1, MaintenanceIsSound, PTL

(* Even when transitions overtake one another, a request is at a stage only   *)
(* after each earlier stage was reached by a recorded transition.             *)
THEOREM NoStageIsSkipped == MaintenanceSpec => []StagesWereEarned
<1>1. MaintenanceInv => StagesWereEarned
  BY DEF MaintenanceInv, FiledOK, EarnedUpTo, DoneFor, FilesOf, StageOp, StagesWereEarned
<1> QED
  BY <1>1, MaintenanceIsSound, PTL

(* What a race of transitions loses is a stage, never the count: the version  *)
(* is the number of records, and a client whose version matches has read the  *)
(* row it builds on.                                                          *)
THEOREM VersionsCount == MaintenanceSpec => []VersionCountsTransitions
<1>1. MaintenanceInv => VersionCountsTransitions
  BY DEF MaintenanceInv, FiledOK, FilesOf, DeskOK, VersionCountsTransitions
<1> QED
  BY <1>1, MaintenanceIsSound, PTL

(* A request goes back to an earlier stage only by the hand of a member whose *)
(* transaction read it before another one committed.                          *)
THEOREM RegressionIsStale == MaintenanceSpec => OnlyStaleReadersRegress
<1> DEFINE Stale(t) ==
      Rank(ticket'[t].status) < Rank(ticket[t].status) =>
        \E d \in Desks : /\ desk[d].stage = "commit" /\ desk'[d].stage = "idle"
                         /\ desk[d].req.op \in Actions /\ desk[d].req.target = t
                         /\ desk[d].seen.version < ticket[t].version
<1>1. ASSUME MaintenanceInv, MaintenanceNext, NEW t \in Tickets PROVE Stale(t)
  <2>1. \A u \in Tickets : \E n \in 0..6 : Rank(ticket[u].status) = n
    <3>1. ASSUME NEW u \in Tickets
          PROVE  ticket[u].status \in
                   {"NONE", "SUBMITTED", "TRIAGED", "ASSIGNED", "COMPLETED", "VERIFIED", "CLOSED"}
      BY <1>1 DEF MaintenanceInv, MaintenanceTypeOK, TicketRow, TicketStatus, NoTicket
    <3> QED
      BY <3>1, Ranks
  <2>2. ASSUME ticket' = ticket PROVE Stale(t)
    BY <2>1, <2>2
  <2>3. ASSUME NEW d \in Desks, CommitTicket(d) PROVE Stale(t)
    <3>1. PICK u \in Tickets : ticket[u] = NoTicket /\
             ticket' = [ticket EXCEPT ![u] = [status |-> "SUBMITTED", version |-> 1]]
      BY <2>3 DEF CommitTicket, Store
    <3>2. CASE u = t
      <4>1. ticket[t].status = "NONE" /\ ticket'[t].status = "SUBMITTED"
        BY <1>1, <3>1, <3>2 DEF NoTicket, MaintenanceInv, MaintenanceTypeOK
      <4> QED
        BY <4>1, Ranks
    <3>3. CASE u # t
      <4>1. ticket'[t] = ticket[t]
        BY <1>1, <3>1, <3>3 DEF MaintenanceInv, MaintenanceTypeOK
      <4> QED
        BY <2>1, <4>1
    <3> QED
      BY <3>2, <3>3
  <2>4. ASSUME NEW d \in Desks, CommitTransition(d) PROVE Stale(t)
    <3>1. PICK u \in Tickets, row \in TicketRow, i \in 2..6 :
            /\ u = desk[d].req.target /\ desk[d].stage = "commit" /\ desk[d].req.op \in Actions
            /\ desk[d].seen.version <= ticket[u].version
            /\ desk[d].seen.version = ticket[u].version => desk[d].seen = ticket[u]
            /\ Rank(desk[d].seen.status) \in {i - 1, i}
            /\ Store(d, u, row) /\ Rank(row.status) = i
      BY <1>1, <2>4, TransitionWrites
    <3>2. ticket' = [ticket EXCEPT ![u] = row] /\ desk'[d].stage = "idle"
      BY <1>1, <3>1 DEF Store, FreeDesk, MaintenanceInv, MaintenanceTypeOK
    <3>3. CASE u = t
      <4>1. ticket'[t] = row
        BY <1>1, <3>2, <3>3 DEF MaintenanceInv, MaintenanceTypeOK
      <4>2. CASE desk[d].seen.version = ticket[t].version
        <5>1. Rank(ticket[t].status) <= i
          BY <3>1, <3>3, <4>2
        <5> QED
          BY <2>1, <3>1, <4>1, <5>1
      <4>3. CASE desk[d].seen.version # ticket[t].version
        <5>1. ticket[t].version \in Nat /\ desk[d].seen.version \in Nat
          BY <1>1, RowVersion, MaintenanceAssumption DEF MaintenanceInv, MaintenanceTypeOK
        <5>2. desk[d].seen.version < ticket[t].version
          BY <3>1, <3>3, <4>3, <5>1
        <5> QED
          BY <3>1, <3>2, <3>3, <5>2
      <4> QED
        BY <4>2, <4>3
    <3>4. CASE u # t
      <4>1. ticket'[t] = ticket[t]
        BY <1>1, <3>2, <3>4 DEF MaintenanceInv, MaintenanceTypeOK
      <4> QED
        BY <2>1, <4>1
    <3> QED
      BY <3>3, <3>4
  <2>5. \/ ticket' = ticket
        \/ \E d \in Desks : CommitTicket(d) \/ CommitTransition(d)
    BY <1>1 DEF MaintenanceNext, MaintenanceStep, BeginTicket, BeginTransition, Attend, Abandon, deskVars
  <2> QED
    BY <2>2, <2>3, <2>4, <2>5
<1>2. MaintenanceInv /\ [MaintenanceNext]_<<leasingVars, deskVars>> =>
        [\A t \in Tickets : Stale(t)]_<<leasingVars, deskVars>>
  BY <1>1
<1> QED
  BY <1>2, MaintenanceIsSound, PTL DEF MaintenanceSpec, OnlyStaleReadersRegress

=============================================================================
