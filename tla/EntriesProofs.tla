---------------------------- MODULE EntriesProofs ----------------------------
(***************************************************************************)
(* Proofs about Entries, for every set of web apps and every bound on what *)
(* the person does, on the transactions and on what fails.                 *)
(***************************************************************************)
EXTENDS Entries, SequenceTheorems, TLAPS

LogEntries == [op : Moves, p : Paths]
Syncing    == {"drop", "back", "write", "shelve", "put"}

\* What the journal says was done to a path.
Did(op, p)   == \E i \in DOMAIN journal : journal[i] = [op |-> op, p |-> p]
Fresh(p)     == \A op \in Moves : ~Did(op, p)
Only(ops, p) == \A op \in Moves \ ops : ~Did(op, p)

\* A transaction keeps to its program: drops what is recorded and not planned, then
\* writes what is planned, or takes back what is recorded; the current path is off
\* the list.
TxInv ==
  /\ tx.at \in {"none", "ask", "plan"} => journal = <<>>
  /\ tx.at = "ask" => tx.who \in {"setup", "remove"} /\ tx.todo = IF tx.who = "remove" THEN Owned ELSE {}
  /\ tx.at = "plan" => tx.who \in {"setup", "refresh"} /\ (tx.who = "refresh" => ~tx.set)
  /\ tx.at \in {"unlink", "bring"} => tx.todo \subseteq Owned
  /\ tx.at \in {"ask", "plan", "drop", "back"} => tx.files = AllAbsent
  /\ tx.at \in {"drop", "back"} => tx.todo \subseteq Owned \ tx.plan
  /\ tx.at \in {"write", "shelve", "put"} =>
       /\ tx.todo \subseteq tx.plan
       /\ \A p \in Paths : tx.files[p] # "absent" => p \in tx.plan \ tx.todo
  /\ tx.at = "back" => tx.cur \in Owned \ (tx.plan \union tx.todo)
  /\ tx.at \in {"shelve", "put"} => tx.cur \in tx.plan \ tx.todo
  /\ tx.at = "bring" => tx.cur \in Owned \ tx.todo

\* No move is done twice to a path, and what follows which is fixed.
Later == {<<"staged", "home">>, <<"aside", "shelved">>, <<"staged", "wrote">>,
          <<"aside", "wrote">>, <<"shelved", "wrote">>}
Ordered ==
  \A i, j \in DOMAIN journal :
    i < j /\ journal[i].p = journal[j].p => <<journal[i].op, journal[j].op>> \in Later

\* The journal has nothing of a path that is still to be done.
JournalInv ==
  /\ Ordered
  /\ \A p \in Paths : Did("home", p) => Did("staged", p)
  /\ tx.at \in Syncing => \A p \in tx.todo : Fresh(p)
  /\ tx.at \in {"drop", "back"} => \A p \in tx.plan : Fresh(p)
  /\ \A p \in Paths :
       /\ tx.at = "back" /\ p = tx.cur => Only({"staged"}, p) /\ Did("staged", p)
       /\ tx.at = "shelve" /\ p = tx.cur => Only({"aside"}, p)
       /\ tx.at = "put" /\ p = tx.cur => Only({"staged", "aside", "shelved"}, p)

\* A transaction at rest is one.
LEMMA RestType == Rest \in Txs /\ AllAbsent \in [Paths -> Says]
  BY DEF Rest, Txs, AllAbsent, Says, Steps

\* What is used up of a bound is counted.
LEMMA SpendType ==
  ASSUME EntriesTypeOK, NEW b \in Bounds, NEW max \in Nat, Spend(b, max)
  PROVE  spent' \in [Bounds -> Nat] /\ spent'[b] = spent[b] + 1 /\ spent'[b] <= max
  BY DEF EntriesTypeOK, Spend

\* The journal grows at its end.
LEMMA Logged ==
  ASSUME EntriesTypeOK, NEW op \in Moves, NEW p \in Paths, Log(op, p)
  PROVE  /\ journal' \in Seq(LogEntries)
         /\ DOMAIN journal' = 1..(Len(journal) + 1) /\ DOMAIN journal = 1..Len(journal)
         /\ Len(journal) \in Nat
         /\ \A i \in DOMAIN journal : journal'[i] = journal[i]
         /\ journal'[Len(journal) + 1] = [op |-> op, p |-> p]
  <1>1. journal \in Seq(LogEntries) /\ [op |-> op, p |-> p] \in LogEntries
    BY DEF EntriesTypeOK, LogEntries
  <1> QED
    BY <1>1 DEF Log

\* A rollback takes it back from the end.
LEMMA Popped ==
  ASSUME EntriesTypeOK, journal # <<>>, journal' = SubSeq(journal, 1, Len(journal) - 1)
  PROVE  /\ journal' \in Seq(LogEntries)
         /\ DOMAIN journal' = 1..(Len(journal) - 1) /\ DOMAIN journal = 1..Len(journal)
         /\ Len(journal) \in Nat \ {0}
         /\ \A i \in DOMAIN journal' : journal'[i] = journal[i]
         /\ NextUndone \in LogEntries /\ NextUndone = journal[Len(journal)]
  <1>1. journal \in Seq(LogEntries)
    BY DEF EntriesTypeOK, LogEntries
  <1>2. Len(journal) \in Nat \ {0} /\ DOMAIN journal = 1..Len(journal)
    BY <1>1, EmptySeq
  <1>3. /\ journal' \in Seq(LogEntries) /\ Len(journal') = Len(journal) - 1
        /\ \A i \in 1..(Len(journal) - 1) : journal'[i] = journal[i]
    BY <1>1, <1>2, SubSeqProperties
  <1> QED
    BY <1>1, <1>2, <1>3 DEF NextUndone

\* The handler file is the plugin's alone: nothing of it is shelved or backed up.
HandlerInv ==
  /\ file[Handler] \in {Nothing, Own} /\ stage[Handler] \in {Nothing, Own}
  /\ backup[Handler] = Nothing
  /\ Handler \notin raced
  /\ Only({"staged", "wrote"}, Handler)
  /\ tx.at \in {"back", "shelve", "bring"} => tx.cur # Handler

\* The journal is enough to undo a sync: where what was at a path, and in its backup,
\* when it began is by now.
Shape(p) ==
  LET f == before.file[p]
      b == before.backup[p]
  IN /\ file[p] = IF Did("wrote", p) THEN Own
                  ELSE IF Did("home", p) THEN b
                  ELSE IF Did("staged", p) \/ Did("shelved", p) THEN Nothing ELSE f
     /\ backup[p] = IF Did("shelved", p) THEN f
                    ELSE IF Did("aside", p) \/ Did("home", p) THEN Nothing ELSE b
     /\ Did("staged", p) => stage[p] = f /\ (Foreign(f) => f \in discarded[p] /\ ~WebApp(f))
     /\ Did("aside", p) => stage[p] = b
     /\ Did("shelved", p) => Foreign(f) /\ (Did("aside", p) \/ b = Nothing)
     /\ Did("wrote", p) /\ ~Did("staged", p) /\ ~Did("shelved", p) => f = Nothing

\* It is for a path that nobody else writes, as long as nothing was cut off; for the
\* handler also once that is mended.
Tracked(p) == p \notin raced /\ (cut = "no" \/ (cut = "mended" /\ p = Handler))

ShapeAt(p) ==
  /\ tx.at \in {"ask", "plan"} => before.file[p] = file[p] /\ before.backup[p] = backup[p]
  /\ tx.at \in Syncing \union {"undo"} => Shape(p)
  /\ tx.at \in {"drop", "back"} /\ p \in tx.todo => ~WebApp(file[p])
  /\ tx.at = "shelve" /\ p = tx.cur => Foreign(file[p]) /\ backup[p] = Nothing
  /\ tx.at = "put" /\ p = tx.cur => file[p] = Nothing

ShapeInv == \A p \in Paths : Tracked(p) => ShapeAt(p)

\* An entry of the person's that a remove deleted or a sync discarded.
Lost(p) == p \in deleted \/ Dropped(p)

\* What a record says of a path is true of what is there, f, and in the backup, b: a
\* backup is there if it is recorded, and never the plugin's launcher, a launcher of the
\* plugin is recorded, and the person's entry is there or in the recorded backup of one,
\* unless it was lost.
Settled(p, says, f, b) ==
  /\ says = "backed" <=> b # Nothing
  /\ b # Own
  /\ f = Own => says # "absent"
  /\ p \in Apps /\ newest[p] # 0 /\ ~Lost(p) =>
       f = newest[p] \/ (f = Own /\ says = "backed" /\ b = newest[p])

Is(p, says)  == Settled(p, says, file[p], backup[p])
Was(p, says) == Settled(p, says, before.file[p], before.backup[p])

\* The record is true of every sound path: of what is there between two transactions
\* and of what was there during a sync; the record to be is true of the paths that a
\* sync or a remove has done.
SettledAt(p) ==
  /\ tx.at \in {"none", "ask", "plan", "clean", "default"} => Is(p, manifest[p])
  /\ tx.at \in Syncing \union {"undo"} => Was(p, manifest[p])
  /\ tx.at = "drop" /\ p \notin tx.todo \union tx.plan => Is(p, "absent")
  /\ tx.at = "back" /\ p \notin tx.todo \union tx.plan /\ p # tx.cur => Is(p, "absent")
  /\ tx.at = "back" /\ p = tx.cur => Held(p)
  /\ tx.at = "write" /\ p \notin tx.todo => Is(p, tx.files[p])
  /\ tx.at \in {"shelve", "put"} /\ p \notin tx.todo /\ p # tx.cur => Is(p, tx.files[p])
  /\ tx.at = "put" /\ p = tx.cur => tx.files[p] # "absent" /\ Settled(p, tx.files[p], Own, backup[p])
  /\ tx.at = "unlink" => Is(p, IF p \in tx.todo THEN manifest[p] ELSE "absent")
  /\ tx.at = "bring" /\ p # tx.cur => Is(p, IF p \in tx.todo THEN manifest[p] ELSE "absent")
  /\ tx.at = "bring" /\ p = tx.cur =>
       /\ file[p] = Nothing
       /\ Settled(p, "absent", IF tx.set THEN backup[p] ELSE Nothing, Nothing)

SettledInv == \A p \in Paths : Sound(p) => SettledAt(p)
-----------------------------------------------------------------------------
(***************************************************************************)
(* What each step makes of the transaction, field by field.                *)
(***************************************************************************)
\* A transaction begins with the paths a remove is to take back.
LEMMA BeginTx ==
  ASSUME NEW who \in {"setup", "refresh", "remove"}, NEW at \in Steps, Begin(who, at)
  PROVE  /\ tx'.who = who /\ tx'.at = at /\ tx'.todo = IF who = "remove" THEN Owned ELSE {}
         /\ tx'.plan = {} /\ tx'.cur = NoPath /\ tx'.files = AllAbsent /\ tx'.set = FALSE
         /\ tx' \in Txs /\ journal' = <<>>
  <1>1. Owned \in SUBSET Paths
    BY DEF Owned
  <1>2. tx' = [who |-> who, at |-> at, todo |-> IF who = "remove" THEN Owned ELSE {}, plan |-> {},
               cur |-> NoPath, files |-> AllAbsent, set |-> FALSE]
    BY DEF Begin, Rest
  <1>3. AllAbsent \in [Paths -> Says]
    BY RestType
  <1>4. tx' \in Txs
    BY <1>1, <1>2, <1>3 DEF Txs
  <1>5. journal' = <<>>
    BY DEF Begin
  <1> QED
    BY <1>2, <1>4, <1>5

\* It ends at rest.
LEMMA EndsTx ==
  ASSUME Ends
  PROVE  tx' = Rest /\ tx' \in Txs /\ tx'.at = "none" /\ tx'.who = "none" /\ tx'.todo = {} /\ journal' = <<>>
  BY RestType DEF Ends, Rest

\* After the question a setup plans, and keeps the handler or asks for the default; a
\* remove goes on or ends.
LEMMA AskedTx ==
  ASSUME EntriesTypeOK, NEW answered \in BOOLEAN, NEW restored \in BOOLEAN, Asked(answered, restored)
  PROVE  /\ tx' \in Txs
         /\ journal' \in {journal, <<>>}
         /\ tx.who = "setup" =>
              /\ tx'.at = "plan" /\ tx'.who = "setup" /\ tx'.todo = tx.todo /\ tx'.files = tx.files
              /\ journal' = journal
              /\ tx'.set = (links /\ answered /\ ~default)
              /\ tx'.plan = IF links \/ KeepsHandler(answered, restored) THEN {Handler} ELSE {}
         /\ tx.who # "setup" =>
              \/ /\ answered /\ restored
                 /\ tx'.at = "unlink" /\ tx'.who = tx.who /\ tx'.todo = tx.todo /\ journal' = journal
              \/ ~(answered /\ restored) /\ Ends
  <1>0. tx \in Txs
    BY DEF EntriesTypeOK
  <1>1. CASE tx.who = "setup"
    <2>1. tx' = [tx EXCEPT !.at = "plan", !.set = links /\ answered /\ ~default,
                           !.plan = IF links \/ KeepsHandler(answered, restored) THEN {Handler} ELSE {}]
          /\ UNCHANGED journal
      BY <1>1 DEF Asked
    <2>2. (IF links \/ KeepsHandler(answered, restored) THEN {Handler} ELSE {}) \in SUBSET Paths
      BY DEF Paths
    <2>3. (links /\ answered /\ ~default) \in BOOLEAN
      OBVIOUS
    <2>4. tx' \in Txs
      BY <1>0, <2>1, <2>2, <2>3 DEF Txs, Steps
    <2> QED
      BY <1>0, <1>1, <2>1, <2>4 DEF Txs
  <1>2. CASE tx.who # "setup" /\ answered /\ restored
    <2>1. tx' = [tx EXCEPT !.at = "unlink"] /\ UNCHANGED journal
      BY <1>2 DEF Asked
    <2> QED
      BY <1>0, <1>2, <2>1 DEF Txs, Steps
  <1>3. CASE tx.who # "setup" /\ ~(answered /\ restored)
    <2>1. Ends
      BY <1>3 DEF Asked
    <2> QED
      BY <1>3, <2>1, EndsTx
  <1> QED
    BY <1>1, <1>2, <1>3

\* The plan is what is listed, forwarded and kept; what else is recorded is to go.
LEMMA PlanTx ==
  ASSUME EntriesTypeOK, Plan
  PROVE  /\ tx' \in Txs /\ tx'.who = tx.who /\ tx'.files = tx.files /\ tx'.set = tx.set
         /\ \/ Unchanged /\ tx'.at = "clean" /\ tx'.plan = tx.plan
            \/ tx'.at = "drop" /\ tx'.todo = Owned \ Planned /\ tx'.plan = Planned
  <1>0. tx \in Txs
    BY DEF EntriesTypeOK
  <1>1. Planned \in SUBSET Paths /\ Owned \in SUBSET Paths
    BY <1>0 DEF EntriesTypeOK, Planned, Owned, Paths, Txs
  <1>2. CASE Unchanged /\ tx' = [tx EXCEPT !.at = "clean"]
    BY <1>0, <1>2 DEF Txs, Steps
  <1>3. CASE tx' = [tx EXCEPT !.at = "drop", !.todo = Owned \ Planned, !.plan = Planned]
    <2>1. (Owned \ Planned) \in SUBSET Paths
      BY <1>1
    <2>2. tx' \in Txs
      BY <1>0, <1>1, <1>3, <2>1 DEF Txs, Steps
    <2> QED
      BY <1>0, <1>3, <2>2 DEF Txs
  <1> QED
    BY <1>2, <1>3 DEF Plan

\* A dropped entry is staged, its backup set aside, or there is nothing to drop.
LEMMA DropTx ==
  ASSUME EntriesTypeOK, NEW p \in Paths, DropEntry(p)
  PROVE  /\ tx' \in Txs /\ tx'.who = tx.who /\ tx'.todo = tx.todo \ {p} /\ tx'.plan = tx.plan
         /\ tx'.files = tx.files /\ tx'.set = tx.set
         /\ \/ file[p] # Nothing /\ tx'.at = (IF Held(p) THEN "back" ELSE "drop") /\ tx'.cur = p
            \/ file[p] = Nothing /\ tx'.at = "drop"
  <1>0. tx \in Txs /\ tx.at = "drop"
    BY DEF EntriesTypeOK, DropEntry, Step
  <1>1. CASE file[p] # Nothing
    <2>1. tx' = [tx EXCEPT !.todo = @ \ {p}, !.at = IF Held(p) THEN "back" ELSE "drop", !.cur = p]
      BY <1>1 DEF DropEntry
    <2>2. tx' \in Txs
      BY <1>0, <2>1 DEF Txs, Steps
    <2> QED
      BY <1>0, <1>1, <2>1, <2>2 DEF Txs
  <1>2. CASE file[p] = Nothing
    <2>1. tx' = [tx EXCEPT !.todo = @ \ {p}]
      BY <1>2 DEF DropEntry
    <2> QED
      BY <1>0, <1>2, <2>1 DEF Txs, Steps
  <1> QED
    BY <1>1, <1>2

\* The backup is home: the next drop.
LEMMA HandBackTx ==
  ASSUME EntriesTypeOK, HandBack
  PROVE  /\ tx' \in Txs /\ tx'.who = tx.who /\ tx'.todo = tx.todo /\ tx'.plan = tx.plan
         /\ tx'.files = tx.files /\ tx'.set = tx.set /\ tx'.at = "drop"
  <1>0. tx \in Txs /\ tx' = [tx EXCEPT !.at = "drop", !.cur = NoPath]
    BY DEF EntriesTypeOK, HandBack
  <1> QED
    BY <1>0 DEF Txs, Steps

\* The drops are done: the plan is to be written.
LEMMA BeginWriteTx ==
  ASSUME EntriesTypeOK, BeginWrite
  PROVE  /\ tx' \in Txs /\ tx'.who = tx.who /\ tx'.todo = tx.plan /\ tx'.plan = tx.plan
         /\ tx'.files = tx.files /\ tx'.set = tx.set /\ tx'.at = "write"
  <1>0. tx \in Txs /\ tx' = [tx EXCEPT !.at = "write", !.todo = tx.plan]
    BY DEF EntriesTypeOK, BeginWrite
  <1> QED
    BY <1>0 DEF Txs, Steps

\* A planned path is set aside, staged or free, and becomes the current one.
LEMMA WriteTx ==
  ASSUME EntriesTypeOK, NEW p \in Paths, WriteEntry(p)
  PROVE  /\ tx' \in Txs /\ tx'.who = tx.who /\ tx'.todo = tx.todo \ {p} /\ tx'.plan = tx.plan
         /\ tx'.set = tx.set /\ tx'.cur = p
         /\ tx'.at = IF IsForeign(p) THEN "shelve" ELSE "put"
         /\ \A q \in Paths \ {p} : tx'.files[q] = tx.files[q]
         /\ ~IsForeign(p) => tx'.files[p] = IF manifest[p] = "backed" THEN "backed" ELSE "bare"
  <1>0. tx \in Txs /\ tx.files \in [Paths -> Says]
    BY DEF EntriesTypeOK, Txs
  <1>1. CASE IsForeign(p) /\ Held(p)
    <2>1. tx' = [tx EXCEPT !.todo = @ \ {p}, !.at = "shelve", !.cur = p]
      BY <1>1 DEF WriteEntry
    <2>2. tx' \in Txs
      BY <1>0, <2>1 DEF Txs, Steps
    <2> QED
      BY <1>0, <1>1, <2>1, <2>2 DEF Txs
  <1>2. CASE ~(IsForeign(p) /\ Held(p))
    <2> DEFINE says == IF manifest[p] = "backed" THEN "backed" ELSE "bare"
               at == IF IsForeign(p) THEN "shelve" ELSE "put"
    <2>1. tx' = [tx EXCEPT !.todo = @ \ {p}, !.cur = p, !.at = at, !.files[p] = says]
      BY <1>2 DEF WriteEntry
    <2>2. says \in Says /\ at \in Steps
      BY DEF Says, Steps
    <2> HIDE DEF says, at
    <2>3. [tx.files EXCEPT ![p] = says] \in [Paths -> Says]
      BY <1>0, <2>2
    <2>4. /\ tx'.files = [tx.files EXCEPT ![p] = says] /\ tx'.at = at /\ tx'.cur = p
          /\ tx'.todo = tx.todo \ {p} /\ tx'.who = tx.who /\ tx'.plan = tx.plan /\ tx'.set = tx.set
          /\ tx'.files[p] = says /\ \A q \in Paths \ {p} : tx'.files[q] = tx.files[q]
      BY <1>0, <2>1 DEF Txs
    <2>5. tx' \in Txs
      BY <1>0, <2>1, <2>2, <2>3 DEF Txs
    <2> QED
      BY <2>4, <2>5 DEF says, at
  <1> QED
    BY <1>1, <1>2

\* What was shelved is in the backup.
LEMMA ShelveTx ==
  ASSUME EntriesTypeOK, Shelve, tx.cur \in Paths
  PROVE  /\ tx' \in Txs /\ tx'.who = tx.who /\ tx'.todo = tx.todo /\ tx'.plan = tx.plan
         /\ tx'.set = tx.set /\ tx'.cur = tx.cur /\ tx'.at = "put"
         /\ \A q \in Paths \ {tx.cur} : tx'.files[q] = tx.files[q]
         /\ tx'.files[tx.cur] = "backed"
  <1>0. tx \in Txs /\ tx.files \in [Paths -> Says]
    BY DEF EntriesTypeOK, Txs
  <1>1. tx' = [tx EXCEPT !.at = "put", !.files[tx.cur] = "backed"]
    BY DEF Shelve
  <1>2. [tx.files EXCEPT ![tx.cur] = "backed"] \in [Paths -> Says]
    BY <1>0 DEF Says
  <1>3. tx' \in Txs
    BY <1>0, <1>1, <1>2 DEF Txs, Steps
  <1> QED
    BY <1>0, <1>1, <1>3 DEF Txs

\* The launcher is written: the next path.
LEMMA PutTx ==
  ASSUME EntriesTypeOK, Put
  PROVE  /\ tx' \in Txs /\ tx'.who = tx.who /\ tx'.todo = tx.todo /\ tx'.plan = tx.plan
         /\ tx'.files = tx.files /\ tx'.set = tx.set /\ tx'.at = "write"
  <1>0. tx \in Txs /\ tx' = [tx EXCEPT !.at = "write", !.cur = NoPath]
    BY DEF EntriesTypeOK, Put
  <1> QED
    BY <1>0 DEF Txs, Steps

\* The transaction moves on and keeps the rest.
LEMMA MovesOnTx ==
  ASSUME EntriesTypeOK, NEW at \in Steps, tx' = [tx EXCEPT !.at = at]
  PROVE  /\ tx' \in Txs /\ tx'.who = tx.who /\ tx'.todo = tx.todo /\ tx'.plan = tx.plan
         /\ tx'.cur = tx.cur /\ tx'.files = tx.files /\ tx'.set = tx.set /\ tx'.at = at
  <1>0. tx \in Txs
    BY DEF EntriesTypeOK
  <1> QED
    BY <1>0 DEF Txs

\* A recorded path is unlinked, with or without a backup to bring home.
LEMMA UnlinkTx ==
  ASSUME EntriesTypeOK, NEW p \in Paths, Unlink(p)
  PROVE  /\ tx' \in Txs /\ tx'.who = tx.who /\ tx'.todo = tx.todo \ {p} /\ tx'.cur = p
         /\ tx'.at = (IF Held(p) THEN "bring" ELSE "unlink") /\ tx'.set = (file[p] # Nothing)
  <1>0. tx \in Txs
    BY DEF EntriesTypeOK
  <1>1. tx' = [tx EXCEPT !.todo = @ \ {p}, !.cur = p, !.at = IF Held(p) THEN "bring" ELSE "unlink",
                         !.set = file[p] # Nothing]
    BY DEF Unlink
  <1>2. (file[p] # Nothing) \in BOOLEAN
    OBVIOUS
  <1>3. tx' \in Txs
    BY <1>0, <1>1, <1>2 DEF Txs, Steps
  <1> QED
    BY <1>0, <1>1, <1>3 DEF Txs
-----------------------------------------------------------------------------
\* A file is nobody's, the plugin's or of an installation so far.
LEMMA ContentType ==
  /\ Nothing \in Contents /\ Own \in Contents
  /\ \A f \in Files, p \in Paths, c \in Contents : [f EXCEPT ![p] = c] \in Files /\ f[p] \in Contents
  BY EntriesAssumption DEF Nothing, Own, Contents, Files

\* What a rollback does for the newest entry of the journal.
LEMMA Undoes ==
  ASSUME UndoStep, NextUndone.op \in Moves
  PROVE  LET p == NextUndone.p
         IN \/ /\ NextUndone.op = "wrote" /\ file' = [file EXCEPT ![p] = Nothing]
               /\ UNCHANGED <<backup, stage>>
            \/ /\ NextUndone.op = "staged" /\ file' = [file EXCEPT ![p] = stage[p]]
               /\ stage' = [stage EXCEPT ![p] = Nothing] /\ UNCHANGED backup
            \/ /\ NextUndone.op = "aside" /\ backup' = [backup EXCEPT ![p] = stage[p]]
               /\ stage' = [stage EXCEPT ![p] = Nothing] /\ UNCHANGED file
            \/ /\ NextUndone.op = "shelved" /\ file' = [file EXCEPT ![p] = backup[p]]
               /\ backup' = [backup EXCEPT ![p] = Nothing] /\ UNCHANGED stage
            \/ /\ NextUndone.op = "home" /\ backup' = [backup EXCEPT ![p] = file[p]]
               /\ file' = [file EXCEPT ![p] = Nothing] /\ UNCHANGED stage
  <1>1. CASE NextUndone.op = "wrote"
    BY <1>1 DEF UndoStep
  <1>2. CASE NextUndone.op = "staged"
    BY <1>2 DEF UndoStep
  <1>3. CASE NextUndone.op = "aside"
    BY <1>3 DEF UndoStep
  <1>4. CASE NextUndone.op = "shelved"
    BY <1>4 DEF UndoStep
  <1>5. CASE NextUndone.op = "home"
    BY <1>5 DEF UndoStep
  <1> QED
    BY <1>1, <1>2, <1>3, <1>4, <1>5 DEF Moves

\* Every variable keeps its type.
LEMMA EntriesTypeNext ==
  ASSUME EntriesTypeOK, [EntriesNext]_evars, tx.at \in {"back", "shelve", "put", "bring"} => tx.cur \in Paths
  PROVE  EntriesTypeOK'
  <1> USE EntriesAssumption DEF EntriesTypeOK
  <1>b. {"installs", "edits", "runs", "faults", "kills"} = Bounds
    BY DEF Bounds
  <1>c. /\ journal \in Seq(LogEntries) /\ <<>> \in Seq(LogEntries)
        /\ Moves = {"wrote", "staged", "aside", "shelved", "home"} /\ LogEntries = [op : Moves, p : Paths]
    BY DEF LogEntries, Moves
  <1>1. ASSUME NEW p \in Paths, Install(p) PROVE EntriesTypeOK'
    <2>1. spent' \in [Bounds -> Nat] /\ spent'["installs"] <= MaxInstalls
      BY <1>1, <1>b, SpendType DEF Install
    <2>2. spent'["installs"] \in 1..MaxInstalls
      BY <1>1, <1>b, <2>1 DEF Install, Spend
    <2>3. PICK content \in {spent'["installs"], MaxInstalls + spent'["installs"]} :
            file' = [file EXCEPT ![p] = content] /\ newest' = [newest EXCEPT ![p] = content]
      BY <1>1 DEF Install
    <2>4. content \in Installations /\ content \in Contents
      BY <2>2, <2>3 DEF Installations, Contents
    <2>5. file' \in Files
      BY <2>3, <2>4, ContentType
    <2>6. newest' \in [Paths -> {0} \union Installations]
      BY <2>3, <2>4
    <2> QED
      BY <1>1, <2>1, <2>5, <2>6 DEF Install, record, config
  <1>2. ASSUME NEW p \in Paths, Uninstall(p) PROVE EntriesTypeOK'
    <2>1. spent' \in [Bounds -> Nat]
      BY <1>2, <1>b, SpendType DEF Uninstall
    <2>2. file' \in Files
      BY <1>2, ContentType DEF Uninstall
    <2>3. newest' = [newest EXCEPT ![p] = 0]
      BY <1>2 DEF Uninstall
    <2>4. newest' \in [Paths -> {0} \union Installations]
      BY <2>3
    <2> QED
      BY <1>2, <2>1, <2>2, <2>4 DEF Uninstall, record, config
  <1>3. CASE Edit
    <2>1. spent' \in [Bounds -> Nat]
      BY <1>3, <1>b, SpendType DEF Edit
    <2>2. default' \in BOOLEAN /\ links' \in BOOLEAN
      BY <1>3, Zenon DEF Edit
    <2>3. listed' \in SUBSET Apps
      BY <1>3 DEF Edit
    <2> QED
      BY <1>3, <2>1, <2>2, <2>3 DEF Edit, dirs, record, history
  <1>4. ASSUME NEW who \in {"setup", "refresh", "remove"}, NEW at \in Steps, Begin(who, at) PROVE EntriesTypeOK'
    <2>1. spent' \in [Bounds -> Nat]
      BY <1>4, <1>b, SpendType DEF Begin
    <2>2. tx' \in Txs /\ journal' = <<>>
      BY <1>4, BeginTx
    <2>3. before' \in [file : Files, backup : Files]
      BY <1>4 DEF Begin
    <2> QED
      BY <1>4, <1>c, <2>1, <2>2, <2>3 DEF Begin, dirs, record, config
  <1>5. CASE Ask
    <2>1. tx' \in Txs /\ journal' \in {journal, <<>>}
      BY <1>5, AskedTx DEF Ask
    <2>2. default' \in BOOLEAN
      BY <1>5 DEF Ask
    <2> QED
      BY <1>5, <1>c, <2>1, <2>2 DEF Ask, dirs, record, history
  <1>6. CASE AskFails
    <2>1. tx' \in Txs /\ journal' \in {journal, <<>>}
      BY <1>6, AskedTx DEF AskFails
    <2>2. default' \in BOOLEAN
      BY <1>6 DEF AskFails
    <2>3. spent' \in [Bounds -> Nat]
      BY <1>6, <1>b, SpendType DEF AskFails
    <2> QED
      BY <1>6, <1>c, <2>1, <2>2, <2>3 DEF AskFails, dirs, record, history
  <1>7. CASE Plan
    BY <1>7, PlanTx DEF Plan, dirs, record, config, history
  <1>8. ASSUME NEW p \in Paths, DropEntry(p) PROVE EntriesTypeOK'
    <2>1. tx' \in Txs
      BY <1>8, DropTx
    <2>2. journal' \in Seq(LogEntries)
      BY <1>8, <1>c, Logged DEF DropEntry
    <2>3. file' \in Files /\ backup' \in Files /\ stage' \in Files
      BY <1>8, ContentType DEF DropEntry
    <2>4. discarded' \in [Paths -> SUBSET Installations]
      BY <1>8 DEF DropEntry
    <2> QED
      BY <1>8, <1>c, <2>1, <2>2, <2>3, <2>4 DEF DropEntry, record, config
  <1>9. CASE HandBack
    <2>1. tx' \in Txs /\ tx.cur \in Paths
      BY <1>9, HandBackTx DEF HandBack
    <2>2. journal' \in Seq(LogEntries)
      BY <1>9, <1>c, <2>1, Logged DEF HandBack
    <2>3. file' \in Files /\ backup' \in Files
      BY <1>9, <2>1, ContentType DEF HandBack
    <2> QED
      BY <1>9, <1>c, <2>1, <2>2, <2>3 DEF HandBack, unwritten, record, config, history
  <1>10. CASE BeginWrite
    BY <1>10, BeginWriteTx DEF BeginWrite, unwritten, dirs, record, config, history
  <1>11. ASSUME NEW p \in Paths, WriteEntry(p) PROVE EntriesTypeOK'
    <2>1. tx' \in Txs
      BY <1>11, WriteTx
    <2>2. journal' \in Seq(LogEntries)
      BY <1>11, <1>c, Logged DEF WriteEntry
    <2>3. file' \in Files /\ backup' \in Files /\ stage' \in Files
      BY <1>11, ContentType DEF WriteEntry
    <2> QED
      BY <1>11, <1>c, <2>1, <2>2, <2>3 DEF WriteEntry, unwritten, record, config, history
  <1>12. CASE Shelve
    <2>1. tx' \in Txs /\ tx.cur \in Paths
      BY <1>12, ShelveTx DEF Shelve
    <2>2. journal' \in Seq(LogEntries)
      BY <1>12, <1>c, <2>1, Logged DEF Shelve
    <2>3. file' \in Files /\ backup' \in Files
      BY <1>12, <2>1, ContentType DEF Shelve
    <2> QED
      BY <1>12, <1>c, <2>1, <2>2, <2>3 DEF Shelve, unwritten, record, config, history
  <1>13. CASE Put
    <2>1. tx' \in Txs /\ tx.cur \in Paths
      BY <1>13, PutTx DEF Put
    <2>2. journal' \in Seq(LogEntries)
      BY <1>13, <1>c, <2>1, Logged DEF Put
    <2>3. file' \in Files
      BY <1>13, <2>1, ContentType DEF Put
    <2> QED
      BY <1>13, <1>c, <2>1, <2>2, <2>3 DEF Put, unwritten, record, config, history
  <1>14. CASE Record
    <2>1. tx' \in Txs /\ tx.files \in [Paths -> Says]
      BY <1>14, MovesOnTx DEF Record, Steps, Txs
    <2> QED
      BY <1>14, <2>1 DEF Record, dirs, config, history
  <1>15. CASE Clean
    <2>1. tx' \in Txs /\ journal' \in {journal, <<>>}
      BY <1>15, MovesOnTx, EndsTx DEF Clean, Steps
    <2>2. stage' \in Files
      BY <1>15, ContentType DEF Clean, Files
    <2> QED
      BY <1>15, <1>c, <2>1, <2>2 DEF Clean, Mended, record, config, history
  <1>16. CASE SetDefault
    BY <1>16, <1>c, EndsTx DEF SetDefault, dirs, record, history
  <1>17. CASE SetDefaultFails
    <2>1. spent' \in [Bounds -> Nat]
      BY <1>17, <1>b, SpendType DEF SetDefaultFails
    <2> QED
      BY <1>17, <1>c, <2>1, EndsTx DEF SetDefaultFails, dirs, record, history
  <1>18. CASE SyncFails
    <2>1. spent' \in [Bounds -> Nat]
      BY <1>18, <1>b, SpendType DEF SyncFails
    <2> QED
      BY <1>18, <2>1, MovesOnTx DEF SyncFails, Steps, dirs, record, config, history
  <1>19. CASE UndoStep
    <2>1. journal' \in Seq(LogEntries) /\ NextUndone \in LogEntries
      BY <1>19, Popped DEF UndoStep
    <2>2. NextUndone.p \in Paths /\ NextUndone.op \in Moves
      BY <1>c, <2>1
    <2>3. file' \in Files /\ backup' \in Files /\ stage' \in Files
      BY <1>19, <2>2, Undoes, ContentType
    <2>4. discarded' \in [Paths -> SUBSET Installations]
      BY <1>19, <2>2 DEF UndoStep
    <2> QED
      BY <1>19, <1>c, <2>1, <2>3, <2>4 DEF UndoStep, record, config
  <1>20. CASE UndoFails
    <2>1. spent' \in [Bounds -> Nat]
      BY <1>20, <1>b, SpendType DEF UndoFails
    <2>2. journal' \in Seq(LogEntries)
      BY <1>20, Popped DEF UndoFails
    <2> QED
      BY <1>20, <1>c, <2>1, <2>2 DEF UndoFails, dirs, record, config, history
  <1>21. CASE Undone
    BY <1>21, <1>c, EndsTx DEF Undone, unwritten, dirs, record, config, history
  <1>22. ASSUME NEW p \in Paths, Unlink(p) PROVE EntriesTypeOK'
    <2>1. file' \in Files
      BY <1>22, ContentType DEF Unlink
    <2> QED
      BY <1>22, <2>1, UnlinkTx DEF Unlink, record, config
  <1>23. CASE Bring
    <2>1. tx' \in Txs /\ tx.cur \in Paths
      BY <1>23, MovesOnTx DEF Bring, Steps
    <2>2. file' \in Files /\ backup' \in Files
      BY <1>23, <2>1, ContentType DEF Bring
    <2>3. deleted' \in SUBSET Paths
      BY <1>23, <2>1 DEF Bring
    <2> QED
      BY <1>23, <2>1, <2>2, <2>3 DEF Bring, record, config
  <1>24. CASE Forget
    BY <1>24, <1>c, EndsTx, RestType DEF Forget, dirs, config, history
  <1>25. CASE RemoveFails \/ Killed
    <2>1. spent' \in [Bounds -> Nat]
      BY <1>25, <1>b, SpendType DEF RemoveFails, Killed
    <2> QED
      BY <1>25, <1>c, <2>1, EndsTx DEF RemoveFails, Killed, dirs, record, config, history
  <1>26. CASE UNCHANGED evars
    BY <1>26 DEF evars, dirs, record, config, history
  <1>27. CASE BeginSetup \/ BeginRefresh \/ BeginRemove
    BY <1>4, <1>27 DEF BeginSetup, BeginRefresh, BeginRemove, Steps
  <1> QED
    BY <1>1, <1>2, <1>3, <1>5, <1>6, <1>7, <1>8, <1>9, <1>10, <1>11, <1>12, <1>13, <1>14, <1>15,
       <1>16, <1>17, <1>18, <1>19, <1>20, <1>21, <1>22, <1>23, <1>24, <1>25, <1>26, <1>27
       DEF EntriesNext, Transaction, Person
-----------------------------------------------------------------------------
(***************************************************************************)
(* The program of a transaction.                                           *)
(***************************************************************************)
\* The steps that are not of the transaction.
Outside == UNCHANGED <<tx, journal, manifest>>

\* Neither what others do nor standing still is a step of it.
LEMMA OutsideSteps ==
  ASSUME Person \/ UNCHANGED evars PROVE Outside
  BY DEF Person, Edit, Install, Uninstall, evars, record, Outside

\* A transaction keeps to its program.
LEMMA TxNext == ASSUME EntriesTypeOK, TxInv, [EntriesNext]_evars PROVE TxInv'
  <1> USE DEF TxInv
  <1>0. tx \in Txs
    BY DEF EntriesTypeOK
  <1>1. CASE Outside
    BY <1>1 DEF Outside, Owned
  <1>2. ASSUME NEW who \in {"setup", "refresh", "remove"}, NEW at \in Steps, Begin(who, at),
               <<who, at>> \in {<<"setup", "ask">>, <<"refresh", "plan">>, <<"remove", "ask">>, <<"remove", "unlink">>}
        PROVE  TxInv'
    <2>1. Owned' = Owned
      BY <1>2 DEF Begin, record, Owned
    <2> QED
      BY <1>2, <2>1, BeginTx
  <1>3. BeginSetup \/ BeginRefresh \/ BeginRemove => TxInv'
    BY <1>2 DEF BeginSetup, BeginRefresh, BeginRemove, Steps
  <1>4. ASSUME NEW answered \in BOOLEAN, NEW restored \in BOOLEAN, tx.at = "ask", UNCHANGED record,
               Asked(answered, restored)
        PROVE  TxInv'
    <2>1. Owned' = Owned
      BY <1>4 DEF record, Owned
    <2>2. CASE tx.who = "setup"
      BY <1>4, <2>1, <2>2, AskedTx
    <2>3. CASE tx.who # "setup"
      <3>1. CASE Ends
        BY <3>1, EndsTx
      <3>2. CASE ~Ends
        BY <1>4, <2>1, <2>3, <3>2, AskedTx
      <3> QED
        BY <3>1, <3>2
    <2> QED
      BY <2>2, <2>3
  <1>5. CASE Ask \/ AskFails
    BY <1>4, <1>5 DEF Ask, AskFails, record
  <1>6. CASE Plan
    <2>1. Owned' = Owned /\ journal' = journal
      BY <1>6 DEF Plan, record, Owned
    <2> QED
      BY <1>6, <2>1, PlanTx DEF Plan
  <1>7. ASSUME NEW p \in Paths, DropEntry(p) PROVE TxInv'
    <2>1. Owned' = Owned
      BY <1>7 DEF DropEntry, record, Owned
    <2>2. p \in tx.todo /\ tx.at = "drop"
      BY <1>7 DEF DropEntry, Step
    <2> QED
      BY <1>7, <2>1, <2>2, DropTx
  <1>8. CASE HandBack
    BY <1>8, HandBackTx DEF HandBack, unwritten, record, Owned
  <1>9. CASE BeginWrite
    <2>1. Owned' = Owned /\ tx.at = "drop"
      BY <1>9 DEF BeginWrite, Over, unwritten, record, Owned
    <2>2. \A p \in Paths : AllAbsent[p] = "absent"
      BY DEF AllAbsent
    <2> QED
      BY <1>9, <2>1, <2>2, BeginWriteTx
  <1>10. ASSUME NEW p \in Paths, WriteEntry(p) PROVE TxInv'
    <2>1. p \in tx.todo /\ tx.at = "write"
      BY <1>10 DEF WriteEntry, Step
    <2> QED
      BY <1>10, <2>1, WriteTx
  <1>11. CASE Shelve
    <2>1. tx.cur \in Paths /\ tx.at = "shelve"
      BY <1>0, <1>11 DEF Shelve, Txs
    <2> QED
      BY <1>11, <2>1, ShelveTx
  <1>12. CASE Put
    BY <1>12, PutTx DEF Put
  <1>13. CASE Record
    BY <1>13, MovesOnTx DEF Record, Steps
  <1>14. CASE Clean
    <2>1. CASE Ends
      BY <2>1, EndsTx
    <2>2. CASE tx' = [tx EXCEPT !.at = "default"]
      BY <2>2, MovesOnTx DEF Steps
    <2> QED
      BY <1>14, <2>1, <2>2 DEF Clean
  <1>15. CASE SyncFails
    BY <1>15, MovesOnTx DEF SyncFails, Steps
  <1>16. CASE UndoStep \/ UndoFails
    BY <1>16 DEF UndoStep, UndoFails
  <1>17. ASSUME NEW p \in Paths, Unlink(p) PROVE TxInv'
    <2>1. Owned' = Owned /\ p \in tx.todo /\ tx.at = "unlink"
      BY <1>17 DEF Unlink, Step, record, Owned
    <2> QED
      BY <1>17, <2>1, UnlinkTx
  <1>18. CASE Bring
    <2>1. Owned' = Owned
      BY <1>18 DEF Bring, record, Owned
    <2> QED
      BY <1>18, <2>1, MovesOnTx DEF Bring, Steps
  <1>19. CASE Ends
    BY <1>19, EndsTx
  <1>20. CASE SetDefault \/ SetDefaultFails \/ Undone \/ Forget \/ RemoveFails \/ Killed
    BY <1>19, <1>20 DEF SetDefault, SetDefaultFails, Undone, Forget, RemoveFails, Killed
  <1> QED
    BY OutsideSteps, <1>1, <1>3, <1>5, <1>6, <1>7, <1>8, <1>9, <1>10, <1>11, <1>12, <1>13, <1>14,
       <1>15, <1>16, <1>17, <1>18, <1>20 DEF EntriesNext, Transaction
-----------------------------------------------------------------------------
(***************************************************************************)
(* The journal.                                                            *)
(***************************************************************************)
\* An entry at the end of the journal is one more thing done.
LEMMA LogDid ==
  ASSUME EntriesTypeOK, NEW op \in Moves, NEW p \in Paths, Log(op, p), Ordered,
         \A o \in Moves : Did(o, p) => <<o, op>> \in Later
  PROVE  /\ \A o, q : Did(o, q)' <=> Did(o, q) \/ (o = op /\ q = p)
         /\ Ordered'
  <1>1. /\ DOMAIN journal' = 1..(Len(journal) + 1) /\ DOMAIN journal = 1..Len(journal)
        /\ Len(journal) \in Nat
        /\ \A i \in DOMAIN journal : journal'[i] = journal[i]
        /\ journal'[Len(journal) + 1] = [op |-> op, p |-> p]
    BY Logged
  <1>2. \A o, q : Did(o, q)' <=> Did(o, q) \/ (o = op /\ q = p)
    BY <1>1 DEF Did
  <1>3. \A i \in DOMAIN journal : journal[i] \in LogEntries
    <2>1. journal \in Seq(LogEntries)
      BY DEF EntriesTypeOK, LogEntries
    <2> QED
      BY <1>1, <2>1
  <1>4. \A i \in DOMAIN journal : journal[i].p = p => Did(journal[i].op, p)
    BY <1>3 DEF Did, LogEntries
  <1>5. \A i \in DOMAIN journal : journal[i].p = p => <<journal[i].op, op>> \in Later
    BY <1>3, <1>4 DEF LogEntries
  <1>6. ASSUME NEW i \in DOMAIN journal', NEW j \in DOMAIN journal', i < j, journal'[i].p = journal'[j].p
        PROVE  <<journal'[i].op, journal'[j].op>> \in Later
    <2>1. i \in DOMAIN journal /\ journal'[i] = journal[i]
      BY <1>1, <1>6
    <2>2. CASE j \in DOMAIN journal
      BY <1>1, <1>6, <2>1, <2>2 DEF Ordered
    <2>3. CASE j = Len(journal) + 1
      BY <1>1, <1>5, <1>6, <2>1, <2>3
    <2> QED
      BY <1>1, <2>2, <2>3
  <1> QED
    BY <1>2, <1>6 DEF Ordered

\* What a rollback takes back is what was done last to its path.
LEMMA PopDid ==
  ASSUME EntriesTypeOK, Ordered, journal # <<>>, journal' = SubSeq(journal, 1, Len(journal) - 1)
  PROVE  /\ NextUndone.op \in Moves /\ NextUndone.p \in Paths
         /\ \A o, q : Did(o, q)' <=> Did(o, q) /\ ~(o = NextUndone.op /\ q = NextUndone.p)
         /\ Did(NextUndone.op, NextUndone.p)
         /\ \A o : Did(o, NextUndone.p) /\ o # NextUndone.op => <<o, NextUndone.op>> \in Later
         /\ Ordered'
  <1>1. /\ DOMAIN journal' = 1..(Len(journal) - 1) /\ DOMAIN journal = 1..Len(journal)
        /\ Len(journal) \in Nat \ {0}
        /\ \A i \in DOMAIN journal' : journal'[i] = journal[i]
        /\ NextUndone \in LogEntries /\ NextUndone = journal[Len(journal)]
    BY Popped
  <1>2. NextUndone.op \in Moves /\ NextUndone.p \in Paths
        /\ NextUndone = [op |-> NextUndone.op, p |-> NextUndone.p]
    BY <1>1 DEF LogEntries
  <1>3. Did(NextUndone.op, NextUndone.p)
    BY <1>1, <1>2 DEF Did
  <1>4. ASSUME NEW i \in DOMAIN journal', journal[i].p = NextUndone.p
        PROVE  <<journal[i].op, NextUndone.op>> \in Later
    <2>1. i \in DOMAIN journal /\ Len(journal) \in DOMAIN journal /\ i < Len(journal)
      BY <1>1
    <2> QED
      BY <1>1, <1>4, <2>1 DEF Ordered
  <1>5. \A i \in DOMAIN journal' : journal[i] # NextUndone
    BY <1>4 DEF Later
  <1>6. ASSUME NEW o, NEW q PROVE Did(o, q)' <=> Did(o, q) /\ ~(o = NextUndone.op /\ q = NextUndone.p)
    <2>1. ASSUME Did(o, q)' PROVE Did(o, q) /\ ~(o = NextUndone.op /\ q = NextUndone.p)
      <3>1. PICK i \in DOMAIN journal' : journal'[i] = [op |-> o, p |-> q]
        BY <2>1 DEF Did
      <3>2. i \in DOMAIN journal /\ journal[i] = [op |-> o, p |-> q] /\ journal[i] # NextUndone
        BY <1>1, <1>5, <3>1
      <3> QED
        BY <1>2, <3>2 DEF Did
    <2>2. ASSUME Did(o, q), ~(o = NextUndone.op /\ q = NextUndone.p) PROVE Did(o, q)'
      <3>1. PICK i \in DOMAIN journal : journal[i] = [op |-> o, p |-> q]
        BY <2>2 DEF Did
      <3>2. i # Len(journal)
        BY <1>1, <2>2, <3>1
      <3>3. i \in DOMAIN journal'
        BY <1>1, <3>1, <3>2
      <3> QED
        BY <1>1, <3>1, <3>3 DEF Did
    <2> QED
      BY <2>1, <2>2
  <1>7. ASSUME NEW o, Did(o, NextUndone.p), o # NextUndone.op PROVE <<o, NextUndone.op>> \in Later
    <2>1. PICK p : p = NextUndone.p
      OBVIOUS
    <2>2. Did(o, p)'
      BY <1>6, <1>7, <2>1
    <2>3. PICK i \in DOMAIN journal' : journal'[i] = [op |-> o, p |-> p]
      BY <2>2 DEF Did
    <2> QED
      BY <1>1, <1>4, <2>1, <2>3
  <1>8. Ordered'
    <2>1. ASSUME NEW i \in DOMAIN journal', NEW j \in DOMAIN journal', i < j, journal'[i].p = journal'[j].p
          PROVE  <<journal'[i].op, journal'[j].op>> \in Later
      <3>1. i \in DOMAIN journal /\ j \in DOMAIN journal /\ journal'[i] = journal[i] /\ journal'[j] = journal[j]
        BY <1>1, <2>1
      <3> QED
        BY <2>1, <3>1 DEF Ordered
    <2> QED
      BY <2>1 DEF Ordered
  <1> QED
    BY <1>2, <1>3, <1>6, <1>7, <1>8

\* Of two things done to a path one is later.
LEMMA OneLater ==
  ASSUME EntriesTypeOK, Ordered, NEW p, NEW a, NEW b, Did(a, p), Did(b, p), a # b
  PROVE  <<a, b>> \in Later \/ <<b, a>> \in Later
  <1>1. PICK i \in DOMAIN journal : journal[i] = [op |-> a, p |-> p]
    BY DEF Did
  <1>2. PICK j \in DOMAIN journal : journal[j] = [op |-> b, p |-> p]
    BY DEF Did
  <1>3. i \in Nat /\ j \in Nat /\ i # j
    BY <1>1, <1>2 DEF EntriesTypeOK
  <1>4. CASE i < j
    BY <1>1, <1>2, <1>4 DEF Ordered
  <1>5. CASE j < i
    BY <1>1, <1>2, <1>5 DEF Ordered
  <1> QED
    BY <1>3, <1>4, <1>5

\* An empty journal has done nothing.
LEMMA EmptyDid == ASSUME journal = <<>> PROVE Ordered /\ \A o, q : ~Did(o, q)
  BY DEF Did, Ordered

\* Neither has one that has just been emptied.
LEMMA EmptiedDid == ASSUME journal' = <<>> PROVE Ordered' /\ \A o, q : ~Did(o, q)'
  BY DEF Did, Ordered

\* A journal that stays as it is says the same.
LEMMA SameDid ==
  ASSUME UNCHANGED journal PROVE (Ordered => Ordered') /\ \A o, q : Did(o, q)' <=> Did(o, q)
  BY DEF Did, Ordered

\* The journal records what was done to the paths that are off the list.
LEMMA JournalNext ==
  ASSUME EntriesTypeOK, TxInv, JournalInv, [EntriesNext]_evars
  PROVE  JournalInv'
  <1> USE DEF JournalInv, Fresh, Only, Syncing
  <1>0. /\ tx \in Txs /\ tx.todo \in SUBSET Paths /\ tx.plan \in SUBSET Paths
        /\ {"staged", "aside", "shelved", "home", "wrote"} = Moves
    BY DEF EntriesTypeOK, Txs, Moves
  <1>1. CASE UNCHANGED <<tx, journal>>
    BY <1>1, SameDid
  <1>2. CASE journal' = <<>> /\ tx'.at \notin {"back", "shelve", "put"}
    BY <1>2, EmptiedDid
  <1>3. CASE UNCHANGED journal /\ tx'.at \notin Syncing
    BY <1>3, SameDid
  <1>4. CASE BeginSetup \/ BeginRefresh \/ BeginRemove
    BY <1>2, <1>4, BeginTx DEF BeginSetup, BeginRefresh, BeginRemove, Steps
  <1>5. ASSUME NEW answered \in BOOLEAN, NEW restored \in BOOLEAN, Asked(answered, restored)
        PROVE  JournalInv'
    <2>1. CASE Ends
      BY <1>2, <2>1, EndsTx
    <2>2. CASE ~Ends
      BY <1>3, <1>5, <2>2, AskedTx
    <2> QED
      BY <2>1, <2>2
  <1>6. CASE Ask \/ AskFails
    BY <1>5, <1>6 DEF Ask, AskFails
  <1>7. CASE Plan
    <2>1. journal = <<>> /\ journal' = <<>>
      BY <1>7 DEF Plan, TxInv
    <2>2. tx'.at \notin {"back", "shelve", "put"}
      BY <1>7, PlanTx
    <2> QED
      BY <1>2, <2>1, <2>2
  <1>8. ASSUME NEW p \in Paths, DropEntry(p) PROVE JournalInv'
    <2>1. /\ p \in tx.todo /\ tx.at = "drop" /\ Fresh(p) /\ p \notin tx.plan
          /\ tx'.todo = tx.todo \ {p} /\ tx'.plan = tx.plan
      BY <1>8, DropTx DEF DropEntry, Step, TxInv
    <2>2. CASE file[p] # Nothing
      <3>1. Log("staged", p) /\ tx'.at \in {"drop", "back"} /\ tx'.cur = p
        BY <1>8, <2>2, DropTx DEF DropEntry
      <3>2. Ordered' /\ \A o, q : Did(o, q)' <=> Did(o, q) \/ (o = "staged" /\ q = p)
        BY <1>0, <2>1, <3>1, LogDid
      <3> QED
        BY <1>0, <2>1, <3>1, <3>2
    <2>3. CASE file[p] = Nothing
      <3>1. tx'.at = "drop"
        BY <1>8, <2>3, DropTx
      <3>2. CASE Log("aside", p)
        <4>1. Ordered' /\ \A o, q : Did(o, q)' <=> Did(o, q) \/ (o = "aside" /\ q = p)
          BY <1>0, <2>1, <3>2, LogDid
        <4> QED
          BY <1>0, <2>1, <3>1, <4>1
      <3>3. CASE UNCHANGED journal
        BY <1>0, <2>1, <3>1, <3>3, SameDid
      <3> QED
        BY <1>8, <2>3, <3>2, <3>3 DEF DropEntry
    <2> QED
      BY <2>2, <2>3
  <1>9. CASE HandBack
    <2>1. PICK p \in Paths : p = tx.cur
      BY <1>9 DEF HandBack, TxInv, Owned
    <2>2. /\ tx.at = "back" /\ Log("home", p) /\ Only({"staged"}, p) /\ Did("staged", p)
          /\ p \notin tx.plan \union tx.todo
      BY <1>9, <2>1 DEF HandBack, TxInv
    <2>3. tx'.at = "drop" /\ tx'.todo = tx.todo /\ tx'.plan = tx.plan
      BY <1>9, HandBackTx
    <2>4. \A o \in Moves : Did(o, p) => <<o, "home">> \in Later
      BY <1>0, <2>2 DEF Later
    <2>5. Ordered' /\ \A o, q : Did(o, q)' <=> Did(o, q) \/ (o = "home" /\ q = p)
      BY <1>0, <2>2, <2>4, LogDid
    <2> QED
      BY <1>0, <2>2, <2>3, <2>5
  <1>10. CASE BeginWrite
    <2>1. tx.at = "drop" /\ UNCHANGED journal
      BY <1>10 DEF BeginWrite, Over
    <2> QED
      BY <1>10, <2>1, BeginWriteTx, SameDid
  <1>11. ASSUME NEW p \in Paths, WriteEntry(p) PROVE JournalInv'
    <2>1. /\ p \in tx.todo /\ tx.at = "write" /\ Fresh(p) /\ tx'.cur = p
          /\ tx'.todo = tx.todo \ {p} /\ tx'.plan = tx.plan
          /\ tx'.at = IF IsForeign(p) THEN "shelve" ELSE "put"
      BY <1>11, WriteTx DEF WriteEntry, Step
    <2>2. CASE Log("aside", p) /\ IsForeign(p)
      <3>1. Ordered' /\ \A o, q : Did(o, q)' <=> Did(o, q) \/ (o = "aside" /\ q = p)
        BY <1>0, <2>1, <2>2, LogDid
      <3> QED
        BY <1>0, <2>1, <2>2, <3>1
    <2>3. CASE Log("staged", p) /\ ~IsForeign(p)
      <3>1. Ordered' /\ \A o, q : Did(o, q)' <=> Did(o, q) \/ (o = "staged" /\ q = p)
        BY <1>0, <2>1, <2>3, LogDid
      <3> QED
        BY <1>0, <2>1, <2>3, <3>1
    <2>4. CASE UNCHANGED journal
      BY <1>0, <2>1, <2>4, SameDid
    <2> QED
      BY <1>11, <2>2, <2>3, <2>4 DEF WriteEntry
  <1>12. CASE Shelve
    <2>1. PICK p \in Paths : p = tx.cur
      BY <1>0, <1>12 DEF Shelve, TxInv
    <2>2. tx.at = "shelve" /\ Log("shelved", p) /\ Only({"aside"}, p) /\ p \notin tx.todo
      BY <1>12, <2>1 DEF Shelve, TxInv
    <2>3. tx'.at = "put" /\ tx'.todo = tx.todo /\ tx'.cur = p
      BY <1>12, <2>1, ShelveTx
    <2>4. \A o \in Moves : Did(o, p) => <<o, "shelved">> \in Later
      BY <1>0, <2>2 DEF Later
    <2>5. Ordered' /\ \A o, q : Did(o, q)' <=> Did(o, q) \/ (o = "shelved" /\ q = p)
      BY <1>0, <2>2, <2>4, LogDid
    <2> QED
      BY <1>0, <2>2, <2>3, <2>5
  <1>13. CASE Put
    <2>1. PICK p \in Paths : p = tx.cur
      BY <1>0, <1>13 DEF Put, TxInv
    <2>2. /\ tx.at = "put" /\ Log("wrote", p) /\ Only({"staged", "aside", "shelved"}, p)
          /\ p \notin tx.todo
      BY <1>13, <2>1 DEF Put, TxInv
    <2>3. tx'.at = "write" /\ tx'.todo = tx.todo
      BY <1>13, PutTx
    <2>4. \A o \in Moves : Did(o, p) => <<o, "wrote">> \in Later
      BY <1>0, <2>2 DEF Later
    <2>5. Ordered' /\ \A o, q : Did(o, q)' <=> Did(o, q) \/ (o = "wrote" /\ q = p)
      BY <1>0, <2>2, <2>4, LogDid
    <2> QED
      BY <1>0, <2>2, <2>3, <2>5
  <1>14. CASE Record
    BY <1>3, <1>14, MovesOnTx DEF Record, Steps
  <1>15. CASE Clean
    <2>1. CASE Ends
      BY <1>2, <2>1, EndsTx
    <2>2. CASE tx' = [tx EXCEPT !.at = "default"] /\ UNCHANGED journal
      BY <1>3, <2>2, MovesOnTx DEF Steps
    <2> QED
      BY <1>15, <2>1, <2>2 DEF Clean
  <1>16. CASE SyncFails
    BY <1>3, <1>16, MovesOnTx DEF SyncFails, Steps
  <1>17. CASE UndoStep \/ UndoFails
    <2>1. /\ tx' = tx /\ tx.at = "undo" /\ journal # <<>>
          /\ journal' = SubSeq(journal, 1, Len(journal) - 1)
      BY <1>17 DEF UndoStep, UndoFails
    <2>2. PICK u \in Moves, r \in Paths : u = NextUndone.op /\ r = NextUndone.p
      BY <2>1, PopDid
    <2>3. /\ Ordered' /\ \A o, q : Did(o, q)' <=> Did(o, q) /\ ~(o = u /\ q = r)
          /\ \A o : Did(o, r) /\ o # u => <<o, u>> \in Later
      BY <2>1, <2>2, PopDid
    <2>4. <<"home", "staged">> \notin Later
      BY DEF Later
    <2> QED
      BY <2>1, <2>3, <2>4
  <1>18. ASSUME NEW p \in Paths, Unlink(p) PROVE JournalInv'
    <2>1. tx'.at \in {"unlink", "bring"} /\ UNCHANGED journal
      BY <1>18, UnlinkTx DEF Unlink
    <2> QED
      BY <1>3, <2>1
  <1>19. CASE Bring
    BY <1>3, <1>19, MovesOnTx DEF Bring, Steps
  <1>20. CASE SetDefault \/ SetDefaultFails \/ Undone \/ Forget \/ RemoveFails \/ Killed
    BY <1>2, <1>20, EndsTx DEF SetDefault, SetDefaultFails, Undone, Forget, RemoveFails, Killed
  <1> QED
    BY OutsideSteps, <1>1, <1>4, <1>6, <1>7, <1>8, <1>9, <1>10, <1>11, <1>12, <1>13, <1>14,
       <1>15, <1>16, <1>17, <1>18, <1>19, <1>20 DEF EntriesNext, Transaction, Outside
-----------------------------------------------------------------------------
(***************************************************************************)
(* The handler file.                                                       *)
(***************************************************************************)
\* Nobody else writes the handler file, and no backup of it comes to be.
LEMMA HandlerNext ==
  ASSUME EntriesTypeOK, TxInv, JournalInv, HandlerInv, [EntriesNext]_evars
  PROVE  HandlerInv'
  <1> USE DEF HandlerInv, Only
  <1>0. /\ file \in Files /\ backup \in Files /\ stage \in Files /\ tx \in Txs
        /\ Handler \in Paths /\ Handler \notin Apps
        /\ Moves = {"staged", "aside", "shelved", "home", "wrote"}
    BY EntriesAssumption DEF EntriesTypeOK, Paths, Moves
  <1>f. ~IsForeign(Handler) /\ ~Held(Handler) /\ Own # Nothing
    BY DEF IsForeign, Foreign, Nothing, Own, Held
  <1>1. CASE UNCHANGED <<file, backup, stage, raced, journal>> /\ tx'.at \notin {"back", "shelve", "bring"}
    BY <1>1, SameDid
  <1>2. CASE UNCHANGED <<file, backup, stage, raced>> /\ journal' = <<>>
             /\ tx'.at \notin {"back", "shelve", "bring"}
    BY <1>2, EmptiedDid
  <1>3. CASE Person \/ UNCHANGED evars
    <2>1. UNCHANGED <<tx, journal, backup, stage>>
      BY <1>3 DEF Person, Edit, Install, Uninstall, evars, dirs
    <2>2. file'[Handler] = file[Handler] /\ Handler \notin raced'
      <3>1. ASSUME NEW p \in Paths, Install(p) PROVE file'[Handler] = file[Handler] /\ Handler \notin raced'
        BY <1>0, <3>1 DEF Install, Files
      <3>2. ASSUME NEW p \in Paths, Uninstall(p) PROVE file'[Handler] = file[Handler] /\ Handler \notin raced'
        BY <1>0, <3>2 DEF Uninstall, Files
      <3>3. CASE Edit \/ UNCHANGED evars
        BY <3>3 DEF Edit, evars, dirs, history
      <3> QED
        BY <1>3, <3>1, <3>2, <3>3 DEF Person
    <2> QED
      BY <2>1, <2>2, SameDid
  <1>4. CASE BeginSetup \/ BeginRefresh \/ BeginRemove
    BY <1>2, <1>4, BeginTx DEF BeginSetup, BeginRefresh, BeginRemove, Begin, Steps, dirs
  <1>5. ASSUME NEW answered \in BOOLEAN, NEW restored \in BOOLEAN, Asked(answered, restored),
               UNCHANGED <<file, backup, stage, raced>>
        PROVE  HandlerInv'
    <2>1. CASE Ends
      BY <1>2, <1>5, <2>1, EndsTx
    <2>2. CASE ~Ends
      BY <1>1, <1>5, <2>2, AskedTx
    <2> QED
      BY <2>1, <2>2
  <1>6. CASE Ask \/ AskFails
    BY <1>5, <1>6 DEF Ask, AskFails, dirs, history
  <1>7. CASE Plan
    BY <1>1, <1>7, PlanTx DEF Plan, dirs, history
  <1>8. ASSUME NEW p \in Paths, DropEntry(p) PROVE HandlerInv'
    <2>1. p \in tx.todo /\ tx.at = "drop" /\ Fresh(p) /\ raced' = raced
      BY <1>8 DEF DropEntry, Step, JournalInv, Syncing
    <2>2. CASE file[p] # Nothing
      <3>1. Log("staged", p) /\ (tx'.at = IF Held(p) THEN "back" ELSE "drop") /\ tx'.cur = p
        BY <1>8, <2>2, DropTx DEF DropEntry
      <3>2. \A o, q : Did(o, q)' <=> Did(o, q) \/ (o = "staged" /\ q = p)
        BY <1>0, <2>1, <3>1, LogDid DEF JournalInv, Fresh
      <3>3. file'[Handler] \in {file[Handler], Nothing} /\ stage'[Handler] \in {file[Handler], stage[Handler]}
            /\ backup' = backup
        BY <1>0, <1>8, <2>2 DEF DropEntry, Files
      <3> QED
        BY <1>f, <2>1, <3>1, <3>2, <3>3
    <2>3. CASE file[p] = Nothing /\ Held(p)
      <3>1. tx'.at = "drop" /\ Log("aside", p) /\ p # Handler
        BY <1>8, <1>f, <2>3, DropTx DEF DropEntry
      <3>2. \A o, q : Did(o, q)' <=> Did(o, q) \/ (o = "aside" /\ q = p)
        BY <1>0, <2>1, <3>1, LogDid DEF JournalInv, Fresh
      <3>3. file' = file /\ stage'[Handler] = stage[Handler] /\ backup'[Handler] = backup[Handler]
        BY <1>0, <1>8, <2>3, <3>1 DEF DropEntry, Files
      <3> QED
        BY <2>1, <3>1, <3>2, <3>3
    <2>4. CASE file[p] = Nothing /\ ~Held(p)
      <3>1. tx'.at = "drop" /\ UNCHANGED <<file, backup, stage, journal>>
        BY <1>8, <2>4, DropTx DEF DropEntry
      <3> QED
        BY <1>1, <2>1, <3>1
    <2> QED
      BY <2>2, <2>3, <2>4
  <1>9. CASE HandBack
    <2>1. PICK p \in Paths : p = tx.cur
      BY <1>9 DEF HandBack, TxInv, Owned
    <2>2. /\ p # Handler /\ Log("home", p) /\ Only({"staged"}, p) /\ Did("staged", p)
          /\ stage' = stage /\ raced' = raced /\ tx'.at = "drop"
      BY <1>9, <2>1, HandBackTx DEF HandBack, JournalInv, unwritten, history
    <2>3. file'[Handler] = file[Handler] /\ backup'[Handler] = backup[Handler]
      BY <1>0, <1>9, <2>1, <2>2 DEF HandBack, Files
    <2>4. \A o \in Moves : Did(o, p) => <<o, "home">> \in Later
      BY <1>0, <2>2 DEF Later
    <2>5. \A o, q : Did(o, q)' <=> Did(o, q) \/ (o = "home" /\ q = p)
      BY <1>0, <2>2, <2>4, LogDid DEF JournalInv
    <2> QED
      BY <2>2, <2>3, <2>5
  <1>10. CASE BeginWrite
    BY <1>1, <1>10, BeginWriteTx DEF BeginWrite, dirs, unwritten, history
  <1>11. ASSUME NEW p \in Paths, WriteEntry(p) PROVE HandlerInv'
    <2>1. /\ p \in tx.todo /\ Fresh(p) /\ tx'.cur = p /\ raced' = raced
          /\ tx'.at = IF IsForeign(p) THEN "shelve" ELSE "put"
      BY <1>11, WriteTx DEF WriteEntry, Step, JournalInv, Syncing, unwritten, history
    <2>2. CASE IsForeign(p) /\ Held(p)
      <3>1. p # Handler /\ Log("aside", p) /\ file' = file
        BY <1>11, <1>f, <2>2 DEF WriteEntry
      <3>2. \A o, q : Did(o, q)' <=> Did(o, q) \/ (o = "aside" /\ q = p)
        BY <1>0, <2>1, <3>1, LogDid DEF JournalInv, Fresh
      <3>3. stage'[Handler] = stage[Handler] /\ backup'[Handler] = backup[Handler]
        BY <1>0, <1>11, <2>2, <3>1 DEF WriteEntry, Files
      <3> QED
        BY <2>1, <3>1, <3>2, <3>3
    <2>3. CASE file[p] # Nothing /\ ~IsForeign(p)
      <3>1. Log("staged", p) /\ backup' = backup
        BY <1>11, <2>3 DEF WriteEntry
      <3>2. \A o, q : Did(o, q)' <=> Did(o, q) \/ (o = "staged" /\ q = p)
        BY <1>0, <2>1, <3>1, LogDid DEF JournalInv, Fresh
      <3>3. file'[Handler] \in {file[Handler], Nothing} /\ stage'[Handler] \in {file[Handler], stage[Handler]}
        BY <1>0, <1>11, <2>3 DEF WriteEntry, Files
      <3> QED
        BY <2>1, <2>3, <3>1, <3>2, <3>3
    <2>4. CASE ~(IsForeign(p) /\ Held(p)) /\ ~(file[p] # Nothing /\ ~IsForeign(p))
      <3>1. UNCHANGED <<file, backup, stage, journal>>
        BY <1>11, <2>4 DEF WriteEntry
      <3> QED
        BY <1>f, <2>1, <3>1, SameDid
    <2> QED
      BY <2>2, <2>3, <2>4
  <1>12. CASE Shelve
    <2>1. PICK p \in Paths : p = tx.cur
      BY <1>0, <1>12 DEF Shelve, TxInv, Txs
    <2>2. /\ p # Handler /\ Log("shelved", p) /\ Only({"aside"}, p)
          /\ stage' = stage /\ raced' = raced /\ tx'.at = "put"
      BY <1>12, <2>1, ShelveTx DEF Shelve, JournalInv, unwritten, history
    <2>3. file'[Handler] = file[Handler] /\ backup'[Handler] = backup[Handler]
      BY <1>0, <1>12, <2>1, <2>2 DEF Shelve, Files
    <2>4. \A o \in Moves : Did(o, p) => <<o, "shelved">> \in Later
      BY <1>0, <2>2 DEF Later
    <2>5. \A o, q : Did(o, q)' <=> Did(o, q) \/ (o = "shelved" /\ q = p)
      BY <1>0, <2>2, <2>4, LogDid DEF JournalInv
    <2> QED
      BY <2>2, <2>3, <2>5
  <1>13. CASE Put
    <2>1. PICK p \in Paths : p = tx.cur
      BY <1>0, <1>13 DEF Put, TxInv, Txs
    <2>2. /\ Log("wrote", p) /\ Only({"staged", "aside", "shelved"}, p)
          /\ UNCHANGED <<backup, stage, raced>> /\ tx'.at = "write"
      BY <1>13, <2>1, PutTx DEF Put, JournalInv, unwritten, history
    <2>3. file'[Handler] \in {file[Handler], Own}
      BY <1>0, <1>13, <2>1 DEF Put, Files
    <2>4. \A o \in Moves : Did(o, p) => <<o, "wrote">> \in Later
      BY <1>0, <2>2 DEF Later
    <2>5. \A o, q : Did(o, q)' <=> Did(o, q) \/ (o = "wrote" /\ q = p)
      BY <1>0, <2>2, <2>4, LogDid DEF JournalInv
    <2> QED
      BY <2>2, <2>3, <2>5
  <1>14. CASE Record
    BY <1>1, <1>14, MovesOnTx DEF Record, Steps, dirs, history
  <1>15. CASE Clean
    <2>1. UNCHANGED <<file, backup, raced>> /\ stage'[Handler] \in {stage[Handler], Nothing}
      BY <1>0, <1>15 DEF Clean, history
    <2>2. CASE Ends
      BY <2>1, <2>2, EndsTx, EmptiedDid
    <2>3. CASE tx' = [tx EXCEPT !.at = "default"] /\ UNCHANGED journal
      BY <2>1, <2>3, MovesOnTx, SameDid DEF Steps
    <2> QED
      BY <1>15, <2>2, <2>3 DEF Clean
  <1>16. CASE SyncFails
    BY <1>1, <1>16, MovesOnTx DEF SyncFails, Steps, dirs, history
  <1>17. CASE UndoStep
    <2>1. /\ tx' = tx /\ tx.at = "undo" /\ journal # <<>> /\ raced' = raced
          /\ journal' = SubSeq(journal, 1, Len(journal) - 1)
      BY <1>17 DEF UndoStep, history
    <2>2. PICK u \in Moves, r \in Paths : u = NextUndone.op /\ r = NextUndone.p
      BY <2>1, PopDid DEF JournalInv
    <2>3. Did(u, r) /\ \A o, q : Did(o, q)' <=> Did(o, q) /\ ~(o = u /\ q = r)
      BY <2>1, <2>2, PopDid DEF JournalInv
    <2>4. r = Handler => u \in {"staged", "wrote"}
      BY <2>2, <2>3
    <2>5. /\ file'[Handler] \in {file[Handler], stage[Handler], Nothing}
          /\ stage'[Handler] \in {stage[Handler], Nothing}
          /\ backup'[Handler] = backup[Handler]
      BY <1>0, <1>17, <2>2, <2>4, Undoes DEF Files
    <2> QED
      BY <2>1, <2>3, <2>5
  <1>18. CASE UndoFails
    <2>1. /\ tx' = tx /\ tx.at = "undo" /\ journal # <<>> /\ UNCHANGED <<file, backup, stage, raced>>
          /\ journal' = SubSeq(journal, 1, Len(journal) - 1)
      BY <1>18 DEF UndoFails, dirs, history
    <2>2. \A o, q : Did(o, q)' => Did(o, q)
      BY <2>1, PopDid DEF JournalInv
    <2> QED
      BY <2>1, <2>2
  <1>19. ASSUME NEW p \in Paths, Unlink(p) PROVE HandlerInv'
    <2>1. UNCHANGED <<backup, stage, raced, journal>> /\ file'[Handler] \in {file[Handler], Nothing}
      BY <1>0, <1>19 DEF Unlink, Files
    <2>2. (tx'.at = IF Held(p) THEN "bring" ELSE "unlink") /\ tx'.cur = p
      BY <1>19, UnlinkTx
    <2> QED
      BY <1>f, <2>1, <2>2, SameDid
  <1>20. CASE Bring
    <2>1. tx.cur # Handler /\ UNCHANGED <<stage, raced, journal>> /\ tx'.at = "unlink"
      BY <1>20, MovesOnTx DEF Bring, Steps
    <2>2. file'[Handler] = file[Handler] /\ backup'[Handler] = backup[Handler]
      BY <1>0, <1>20, <2>1 DEF Bring, Files
    <2> QED
      BY <2>1, <2>2, SameDid
  <1>21. CASE SetDefault \/ SetDefaultFails \/ Undone \/ Forget \/ RemoveFails \/ Killed
    BY <1>2, <1>21, EndsTx
       DEF SetDefault, SetDefaultFails, Undone, Forget, RemoveFails, Killed, dirs, unwritten, history
  <1> QED
    BY <1>3, <1>4, <1>6, <1>7, <1>8, <1>9, <1>10, <1>11, <1>12, <1>13, <1>14,
       <1>15, <1>16, <1>17, <1>18, <1>19, <1>20, <1>21 DEF EntriesNext, Transaction
-----------------------------------------------------------------------------
(***************************************************************************)
(* The way back.                                                           *)
(***************************************************************************)
\* No step but the end of a sync makes a path tracked.
LEMMA TrackedNext ==
  ASSUME [EntriesNext]_evars, NEW p \in Paths, Tracked(p)', ~Clean
  PROVE  Tracked(p) /\ cut' = cut
  <1> USE DEF Tracked, Mended, history, unwritten
  <1>1. CASE Person
    BY <1>1 DEF Person, Edit, Install, Uninstall
  <1>2. CASE BeginSetup \/ BeginRefresh \/ BeginRemove
    BY <1>2 DEF BeginSetup, BeginRefresh, BeginRemove, Begin
  <1>3. CASE Ask \/ AskFails \/ Plan \/ HandBack \/ BeginWrite \/ Shelve \/ Put \/ Record
    BY <1>3 DEF Ask, AskFails, Plan, HandBack, BeginWrite, Shelve, Put, Record
  <1>4. CASE SetDefault \/ SetDefaultFails \/ SyncFails \/ UndoStep \/ UndoFails \/ Undone
    BY <1>4 DEF SetDefault, SetDefaultFails, SyncFails, UndoStep, UndoFails, Undone
  <1>5. CASE Bring \/ Forget \/ RemoveFails \/ Killed
    BY <1>5 DEF Bring, Forget, RemoveFails, Killed
  <1>6. ASSUME NEW r \in Paths, DropEntry(r) \/ WriteEntry(r) \/ Unlink(r) PROVE Tracked(p) /\ cut' = cut
    BY <1>6 DEF DropEntry, WriteEntry, Unlink
  <1>7. CASE UNCHANGED evars
    BY <1>7 DEF evars
  <1> QED
    BY <1>1, <1>2, <1>3, <1>4, <1>5, <1>6, <1>7 DEF EntriesNext, Transaction

\* Nothing done to a path leaves its way back as it was.
LEMMA ShapeSame ==
  ASSUME NEW p \in Paths, Shape(p), before' = before, discarded'[p] = discarded[p],
         file'[p] = file[p], backup'[p] = backup[p], stage'[p] = stage[p],
         \A o : Did(o, p)' <=> Did(o, p)
  PROVE  Shape(p)'
  BY DEF Shape

\* One move more of a path it was the turn of.
LEMMA ShapeMove ==
  ASSUME NEW p \in Paths, NEW op \in Moves, Shape(p), before' = before,
         \A o, q : Did(o, q)' <=> Did(o, q) \/ (o = op /\ q = p),
         discarded[p] \subseteq discarded'[p],
         \/ /\ op = "staged" /\ Fresh(p) /\ (Foreign(file[p]) => file[p] \in discarded'[p] /\ ~WebApp(file[p]))
            /\ file'[p] = Nothing /\ stage'[p] = file[p] /\ backup'[p] = backup[p]
         \/ /\ op = "aside" /\ Fresh(p)
            /\ file'[p] = file[p] /\ stage'[p] = backup[p] /\ backup'[p] = Nothing
         \/ /\ op = "home" /\ Only({"staged"}, p) /\ Did("staged", p)
            /\ file'[p] = backup[p] /\ stage'[p] = stage[p] /\ backup'[p] = Nothing
         \/ /\ op = "shelved" /\ Only({"aside"}, p) /\ Foreign(file[p]) /\ backup[p] = Nothing
            /\ file'[p] = Nothing /\ stage'[p] = stage[p] /\ backup'[p] = file[p]
         \/ /\ op = "wrote" /\ Only({"staged", "aside", "shelved"}, p) /\ file[p] = Nothing
            /\ file'[p] = Own /\ stage'[p] = stage[p] /\ backup'[p] = backup[p]
  PROVE  Shape(p)'
  <1> USE DEF Shape, Fresh, Only, Moves
  <1>1. CASE op = "staged"
    BY <1>1
  <1>2. CASE op = "aside"
    BY <1>2
  <1>3. CASE op = "home"
    BY <1>3
  <1>4. CASE op = "shelved"
    BY <1>4
  <1>5. CASE op = "wrote"
    BY <1>5
  <1> QED
    BY <1>1, <1>2, <1>3, <1>4, <1>5

\* A rollback goes the way back.
LEMMA ShapeBack ==
  ASSUME EntriesTypeOK, JournalInv, UndoStep, NEW p \in Paths, Shape(p)
  PROVE  Shape(p)'
  <1>0. /\ file \in Files /\ backup \in Files /\ stage \in Files
        /\ Moves = {"wrote", "staged", "aside", "shelved", "home"}
    BY DEF EntriesTypeOK, Moves
  <1>1. /\ journal # <<>> /\ before' = before
        /\ journal' = SubSeq(journal, 1, Len(journal) - 1)
    BY DEF UndoStep
  <1>2. PICK u \in Moves, r \in Paths : u = NextUndone.op /\ r = NextUndone.p
    BY <1>1, PopDid DEF JournalInv
  <1>3. /\ Did(u, r) /\ \A o, q : Did(o, q)' <=> Did(o, q) /\ ~(o = u /\ q = r)
        /\ \A o : Did(o, r) /\ o # u => <<o, u>> \in Later
    BY <1>1, <1>2, PopDid DEF JournalInv
  <1>4. CASE p # r
    <2>1. file'[p] = file[p] /\ backup'[p] = backup[p] /\ stage'[p] = stage[p]
      BY <1>0, <1>2, <1>4, Undoes DEF Files
    <2>2. discarded'[p] = discarded[p]
      BY <1>2, <1>4 DEF UndoStep, EntriesTypeOK
    <2> QED
      BY <1>1, <1>3, <1>4, <2>1, <2>2, ShapeSame
  <1>5. CASE p = r
    <2> USE DEF Shape, Later
    <2>0. u # "staged" => discarded' = discarded
      BY <1>2 DEF UndoStep
    <2>1. CASE u = "wrote"
      <3>1. file'[p] = Nothing /\ UNCHANGED <<backup, stage>>
        BY <1>0, <1>2, <1>5, <2>1, Undoes DEF Files
      <3> QED
        BY <1>1, <1>3, <1>5, <2>0, <2>1, <3>1
    <2>2. CASE u = "staged"
      <3>1. file'[p] = stage[p] /\ UNCHANGED backup
        BY <1>0, <1>2, <1>5, <2>2, Undoes DEF Files
      <3> QED
        BY <1>1, <1>3, <1>5, <2>2, <3>1
    <2>3. CASE u = "aside"
      <3>1. backup'[p] = stage[p] /\ UNCHANGED file
        BY <1>0, <1>2, <1>5, <2>3, Undoes DEF Files
      <3> QED
        BY <1>1, <1>3, <1>5, <2>0, <2>3, <3>1
    <2>4. CASE u = "shelved"
      <3>1. file'[p] = backup[p] /\ backup'[p] = Nothing /\ UNCHANGED stage
        BY <1>0, <1>2, <1>5, <2>4, Undoes DEF Files
      <3> QED
        BY <1>1, <1>3, <1>5, <2>0, <2>4, <3>1
    <2>5. CASE u = "home"
      <3>1. file'[p] = Nothing /\ backup'[p] = file[p] /\ UNCHANGED stage
        BY <1>0, <1>2, <1>5, <2>5, Undoes DEF Files
      <3>2. Did("staged", p)
        BY <1>3, <1>5, <2>5 DEF JournalInv
      <3> QED
        BY <1>1, <1>3, <1>5, <2>0, <2>5, <3>1, <3>2
    <2> QED
      BY <1>0, <2>1, <2>2, <2>3, <2>4, <2>5
  <1> QED
    BY <1>4, <1>5

\* Where what is at a path, and in its backup, was when the transaction began is known
\* until the transaction is over.
LEMMA ShapeNext ==
  ASSUME EntriesTypeOK, TxInv, JournalInv, HandlerInv, ShapeInv, SettledInv, [EntriesNext]_evars
  PROVE  ShapeInv'
  <1>0. /\ file \in Files /\ backup \in Files /\ stage \in Files /\ tx \in Txs
        /\ Handler \in Paths /\ Handler \notin Apps
        /\ Moves = {"wrote", "staged", "aside", "shelved", "home"}
    BY EntriesAssumption DEF EntriesTypeOK, Moves, Paths
  <1> SUFFICES ASSUME NEW p \in Paths, Tracked(p)' PROVE ShapeAt(p)'
    BY DEF ShapeInv
  <1>a. ASSUME tx'.at \in {"none", "clean", "default", "unlink", "bring"} PROVE ShapeAt(p)'
    BY <1>a DEF ShapeAt, Syncing
  <1>c. CASE Clean
    <2>1. CASE Ends
      BY <1>a, <2>1, EndsTx
    <2>2. CASE tx' = [tx EXCEPT !.at = "default"]
      BY <1>a, <2>2, MovesOnTx DEF Steps
    <2> QED
      BY <1>c, <2>1, <2>2 DEF Clean
  <1> SUFFICES ASSUME ~Clean PROVE ShapeAt(p)'
    BY <1>c
  <1>t. Tracked(p) /\ ShapeAt(p) /\ p \notin raced
    BY TrackedNext DEF ShapeInv, Tracked
  <1>n. p # Handler => Sound(p) /\ SettledAt(p)
    BY <1>t DEF Tracked, Sound, SettledInv
  <1>b. ASSUME UNCHANGED <<tx, before, journal, discarded>>, file'[p] = file[p], backup'[p] = backup[p], stage'[p] = stage[p]
        PROVE  ShapeAt(p)'
    <2>1. Shape(p) => Shape(p)'
      BY <1>b, SameDid, ShapeSame
    <2> QED
      BY <1>b, <1>t, <2>1 DEF ShapeAt
  <1>d. ASSUME UNCHANGED <<file, backup, stage, before, discarded>>, Shape(p), \A o : Did(o, p)' <=> Did(o, p),
               tx'.at \in {"write", "undo"}
        PROVE  ShapeAt(p)'
    <2>1. Shape(p)'
      BY <1>d, ShapeSame
    <2> QED
      BY <1>d, <2>1 DEF ShapeAt
  <1>1. CASE Edit \/ UNCHANGED evars
    BY <1>1, <1>b DEF Edit, evars, dirs, history
  <1>2. ASSUME NEW r \in Paths, Install(r) \/ Uninstall(r) PROVE ShapeAt(p)'
    <2>1. /\ UNCHANGED <<tx, before, journal, backup, stage, discarded>>
          /\ raced' = IF Free THEN raced ELSE raced \union {r}
          /\ p # r => file'[p] = file[p]
      BY <1>0, <1>2 DEF Install, Uninstall, Files
    <2>2. CASE Free
      BY <1>a, <2>1, <2>2 DEF Free
    <2>3. CASE ~Free
      BY <1>b, <2>1, <2>3 DEF Tracked
    <2> QED
      BY <2>2, <2>3
  <1>3. ASSUME NEW who \in {"setup", "refresh", "remove"}, NEW at \in Steps, Begin(who, at),
               at \in {"ask", "plan", "unlink"}
        PROVE  ShapeAt(p)'
    <2>1. /\ before'.file[p] = file'[p] /\ before'.backup[p] = backup'[p]
          /\ tx'.at = at
      BY <1>3, BeginTx DEF Begin, dirs
    <2> QED
      BY <1>3, <2>1 DEF ShapeAt, Syncing
  <1>4. CASE BeginSetup \/ BeginRefresh \/ BeginRemove
    BY <1>3, <1>4 DEF BeginSetup, BeginRefresh, BeginRemove, Steps
  <1>5. ASSUME NEW answered \in BOOLEAN, NEW restored \in BOOLEAN, Asked(answered, restored), tx.at = "ask",
               UNCHANGED <<file, backup, stage, before, discarded>>
        PROVE  ShapeAt(p)'
    <2>1. tx'.at \in {"plan", "unlink", "none"}
      BY <1>5, AskedTx, EndsTx
    <2>2. before'.file[p] = file'[p] /\ before'.backup[p] = backup'[p]
      BY <1>5, <1>t DEF ShapeAt
    <2> QED
      BY <2>1, <2>2 DEF ShapeAt, Syncing
  <1>6. CASE Ask \/ AskFails
    BY <1>5, <1>6 DEF Ask, AskFails, dirs, history
  <1>7. CASE Plan
    <2>1. /\ UNCHANGED <<file, backup, stage, before, journal, discarded>> /\ journal = <<>>
          /\ before.file[p] = file[p] /\ before.backup[p] = backup[p]
      BY <1>7, <1>t DEF Plan, dirs, history, TxInv, ShapeAt
    <2>2. CASE tx'.at = "clean"
      BY <1>a, <2>2
    <2>3. CASE tx'.at = "drop" /\ tx'.todo = Owned \ Planned
      <3>1. Shape(p)
        BY <2>1, EmptyDid DEF Shape
      <3>2. Shape(p)'
        BY <2>1, <3>1, SameDid, ShapeSame
      <3>3. p \in Owned \ Planned => ~WebApp(file[p])
        <4>1. CASE p = Handler
          BY <4>1 DEF HandlerInv, WebApp, Nothing, Own
        <4>2. CASE p \in Apps
          BY <4>2 DEF Planned, Forwarded, Paths
        <4> QED
          BY <4>1, <4>2 DEF Paths
      <3> QED
        BY <2>1, <2>3, <3>2, <3>3 DEF ShapeAt
    <2> QED
      BY <1>7, <2>2, <2>3, PlanTx
  <1>8. ASSUME NEW r \in Paths, DropEntry(r) PROVE ShapeAt(p)'
    <2>1. /\ r \in tx.todo /\ tx.at = "drop" /\ Fresh(r) /\ before' = before
          /\ tx'.todo = tx.todo \ {r} /\ tx'.at \in {"back", "drop"} /\ Shape(p)
          /\ p \in tx.todo => ~WebApp(file[p])
      BY <1>8, <1>t, DropTx DEF DropEntry, Step, JournalInv, Syncing, ShapeAt
    <2>2. ASSUME p # r => file'[p] = file[p], Shape(p)' PROVE ShapeAt(p)'
      BY <2>1, <2>2 DEF ShapeAt
    <2>3. CASE file[r] # Nothing
      <3>1. Log("staged", r) /\ backup' = backup
            /\ discarded' = [discarded EXCEPT ![r] = @ \union ({file[r]} \intersect Installations)]
            /\ file' = [file EXCEPT ![r] = Nothing] /\ stage' = [stage EXCEPT ![r] = file[r]]
        BY <1>8, <2>3 DEF DropEntry
      <3>2. \A o, q : Did(o, q)' <=> Did(o, q) \/ (o = "staged" /\ q = r)
        BY <1>0, <2>1, <3>1, LogDid DEF JournalInv, Fresh
      <3>3. CASE p = r
        <4>1. file'[p] = Nothing /\ stage'[p] = file[p] /\ backup'[p] = backup[p]
          BY <1>0, <3>1, <3>3 DEF Files
        <4>2. Foreign(file[p]) => file[p] \in Installations
          BY <1>0 DEF Files, Contents, Foreign, Own, Nothing
        <4>3. discarded[p] \subseteq discarded'[p] /\ (Foreign(file[p]) => file[p] \in discarded'[p] /\ ~WebApp(file[p]))
          BY <2>1, <3>1, <3>3, <4>2 DEF EntriesTypeOK
        <4> QED
          BY <1>0, <2>1, <2>2, <3>2, <3>3, <4>1, <4>3, ShapeMove
      <3>4. CASE p # r
        <4>1. file'[p] = file[p] /\ stage'[p] = stage[p] /\ backup'[p] = backup[p]
          BY <1>0, <3>1, <3>4 DEF Files
        <4>2. discarded'[p] = discarded[p]
          BY <3>1, <3>4 DEF EntriesTypeOK
        <4> QED
          BY <2>1, <2>2, <3>2, <3>4, <4>1, <4>2, ShapeSame
      <3> QED
        BY <3>3, <3>4
    <2>4. CASE file[r] = Nothing /\ Held(r)
      <3>1. Log("aside", r) /\ file' = file /\ discarded' = discarded
            /\ backup' = [backup EXCEPT ![r] = Nothing] /\ stage' = [stage EXCEPT ![r] = backup[r]]
        BY <1>8, <2>4 DEF DropEntry
      <3>2. \A o, q : Did(o, q)' <=> Did(o, q) \/ (o = "aside" /\ q = r)
        BY <1>0, <2>1, <3>1, LogDid DEF JournalInv, Fresh
      <3>3. CASE p = r
        <4>1. file'[p] = file[p] /\ stage'[p] = backup[p] /\ backup'[p] = Nothing
          BY <1>0, <3>1, <3>3 DEF Files
        <4> QED
          BY <1>0, <2>1, <2>2, <3>1, <3>2, <3>3, <4>1, ShapeMove
      <3>4. CASE p # r
        <4>1. file'[p] = file[p] /\ stage'[p] = stage[p] /\ backup'[p] = backup[p]
          BY <1>0, <3>1, <3>4 DEF Files
        <4> QED
          BY <2>1, <2>2, <3>1, <3>2, <3>4, <4>1, ShapeSame
      <3> QED
        BY <3>3, <3>4
    <2>5. CASE file[r] = Nothing /\ ~Held(r)
      <3>1. UNCHANGED <<file, backup, stage, journal, discarded>>
        BY <1>8, <2>5 DEF DropEntry
      <3> QED
        BY <2>1, <2>2, <3>1, SameDid, ShapeSame
    <2> QED
      BY <2>3, <2>4, <2>5
  <1>9. CASE HandBack
    <2>1. PICK r \in Paths : r = tx.cur
      BY <1>9 DEF HandBack, TxInv, Owned
    <2>2. /\ Log("home", r) /\ Only({"staged"}, r) /\ Did("staged", r) /\ r \notin tx.todo
          /\ stage' = stage /\ before' = before /\ discarded' = discarded /\ tx'.at = "drop" /\ tx'.todo = tx.todo
          /\ file' = [file EXCEPT ![r] = backup[r]] /\ backup' = [backup EXCEPT ![r] = Nothing]
      BY <1>9, <2>1, HandBackTx DEF HandBack, TxInv, JournalInv, unwritten, history
    <2>3. Shape(p) /\ (p \in tx.todo => ~WebApp(file[p]))
      BY <1>9, <1>t DEF HandBack, ShapeAt, Syncing
    <2>4. \A o \in Moves : Did(o, r) => <<o, "home">> \in Later
      BY <1>0, <2>2 DEF Later, Only
    <2>5. \A o, q : Did(o, q)' <=> Did(o, q) \/ (o = "home" /\ q = r)
      BY <1>0, <2>2, <2>4, LogDid DEF JournalInv
    <2>6. ASSUME p # r => file'[p] = file[p], Shape(p)' PROVE ShapeAt(p)'
      BY <2>2, <2>3, <2>6 DEF ShapeAt
    <2>7. CASE p = r
      <3>1. file'[p] = backup[p] /\ stage'[p] = stage[p] /\ backup'[p] = Nothing
        BY <1>0, <2>2, <2>7 DEF Files
      <3> QED
        BY <1>0, <2>2, <2>3, <2>5, <2>6, <2>7, <3>1, ShapeMove
    <2>8. CASE p # r
      <3>1. file'[p] = file[p] /\ stage'[p] = stage[p] /\ backup'[p] = backup[p]
        BY <1>0, <2>2, <2>8 DEF Files
      <3> QED
        BY <2>2, <2>3, <2>5, <2>6, <2>8, <3>1, ShapeSame
    <2> QED
      BY <2>7, <2>8
  <1>10. CASE BeginWrite
    <2>1. UNCHANGED <<file, backup, stage, before, journal, discarded>> /\ tx'.at = "write" /\ Shape(p)
      BY <1>10, <1>t, BeginWriteTx DEF BeginWrite, Over, dirs, unwritten, history, ShapeAt, Syncing
    <2> QED
      BY <1>d, <2>1, SameDid
  <1>11. ASSUME NEW r \in Paths, WriteEntry(r) PROVE ShapeAt(p)'
    <2>1. /\ r \in tx.todo /\ tx.at = "write" /\ Fresh(r) /\ before' = before /\ discarded' = discarded /\ tx'.cur = r
          /\ tx'.at = (IF IsForeign(r) THEN "shelve" ELSE "put") /\ Shape(p) /\ r \in tx.plan
      BY <1>11, <1>t, WriteTx DEF WriteEntry, Step, TxInv, JournalInv, Syncing, unwritten, history, ShapeAt
    <2>2. ASSUME Shape(p)',
                 p = r => IF IsForeign(r) THEN file'[p] = file[p] /\ backup'[p] = Nothing ELSE file'[p] = Nothing
          PROVE  ShapeAt(p)'
      BY <2>1, <2>2 DEF ShapeAt, Foreign, IsForeign
    <2>3. CASE IsForeign(r) /\ Held(r)
      <3>1. Log("aside", r) /\ file' = file
            /\ backup' = [backup EXCEPT ![r] = Nothing] /\ stage' = [stage EXCEPT ![r] = backup[r]]
        BY <1>11, <2>3 DEF WriteEntry
      <3>2. \A o, q : Did(o, q)' <=> Did(o, q) \/ (o = "aside" /\ q = r)
        BY <1>0, <2>1, <3>1, LogDid DEF JournalInv, Fresh
      <3>3. CASE p = r
        <4>1. file'[p] = file[p] /\ stage'[p] = backup[p] /\ backup'[p] = Nothing
          BY <1>0, <3>1, <3>3 DEF Files
        <4>2. Shape(p)'
          BY <1>0, <2>1, <3>2, <3>3, <4>1, ShapeMove
        <4> QED
          BY <2>2, <2>3, <4>1, <4>2
      <3>4. CASE p # r
        <4>1. file'[p] = file[p] /\ stage'[p] = stage[p] /\ backup'[p] = backup[p]
          BY <1>0, <3>1, <3>4 DEF Files
        <4> QED
          BY <2>1, <2>2, <3>2, <3>4, <4>1, ShapeSame
      <3> QED
        BY <3>3, <3>4
    <2>4. CASE file[r] # Nothing /\ ~IsForeign(r)
      <3>1. Log("staged", r) /\ backup' = backup
            /\ file' = [file EXCEPT ![r] = Nothing] /\ stage' = [stage EXCEPT ![r] = file[r]]
        BY <1>11, <2>4 DEF WriteEntry
      <3>2. \A o, q : Did(o, q)' <=> Did(o, q) \/ (o = "staged" /\ q = r)
        BY <1>0, <2>1, <3>1, LogDid DEF JournalInv, Fresh
      <3>3. CASE p = r
        <4>1. file'[p] = Nothing /\ stage'[p] = file[p] /\ backup'[p] = backup[p]
          BY <1>0, <3>1, <3>3 DEF Files
        <4>2. Shape(p)'
          BY <1>0, <2>1, <2>4, <3>2, <3>3, <4>1, ShapeMove DEF IsForeign
        <4> QED
          BY <2>2, <2>4, <4>1, <4>2
      <3>4. CASE p # r
        <4>1. file'[p] = file[p] /\ stage'[p] = stage[p] /\ backup'[p] = backup[p]
          BY <1>0, <3>1, <3>4 DEF Files
        <4> QED
          BY <2>1, <2>2, <3>2, <3>4, <4>1, ShapeSame
      <3> QED
        BY <3>3, <3>4
    <2>5. CASE ~(IsForeign(r) /\ Held(r)) /\ ~(file[r] # Nothing /\ ~IsForeign(r))
      <3>1. UNCHANGED <<file, backup, stage, journal>>
        BY <1>11, <2>5 DEF WriteEntry
      <3>2. Shape(p)'
        BY <2>1, <3>1, SameDid, ShapeSame
      <3>3. CASE p = r /\ IsForeign(r)
        <4>1. p # Handler /\ ~Held(p)
          BY <2>5, <3>3 DEF HandlerInv, IsForeign, Foreign, Nothing, Own
        <4>2. Was(p, manifest[p]) /\ manifest[p] \in Says
          BY <1>n, <2>1, <4>1 DEF SettledAt, Syncing, EntriesTypeOK
        <4>3. backup[p] = before.backup[p]
          BY <1>0, <2>1, <3>3 DEF Shape, Fresh
        <4>4. backup[p] = Nothing
          BY <4>1, <4>2, <4>3 DEF Was, Settled, Held
        <4> QED
          BY <2>2, <3>1, <3>2, <3>3, <4>4
      <3>4. CASE p = r /\ ~IsForeign(r)
        BY <2>2, <2>5, <3>1, <3>2, <3>4
      <3>5. CASE p # r
        BY <2>2, <3>2, <3>5
      <3> QED
        BY <3>3, <3>4, <3>5
    <2> QED
      BY <2>3, <2>4, <2>5
  <1>12. CASE Shelve
    <2>1. PICK r \in Paths : r = tx.cur
      BY <1>0, <1>12 DEF Shelve, TxInv, Txs
    <2>2. /\ Log("shelved", r) /\ Only({"aside"}, r)
          /\ stage' = stage /\ before' = before /\ discarded' = discarded /\ tx'.at = "put" /\ tx'.cur = r
          /\ backup' = [backup EXCEPT ![r] = file[r]] /\ file' = [file EXCEPT ![r] = Nothing]
      BY <1>12, <2>1, ShelveTx DEF Shelve, JournalInv, unwritten, history
    <2>3. Shape(p) /\ (p = r => Foreign(file[p]) /\ backup[p] = Nothing)
      BY <1>12, <1>t, <2>1 DEF Shelve, ShapeAt, Syncing
    <2>4. \A o \in Moves : Did(o, r) => <<o, "shelved">> \in Later
      BY <1>0, <2>2 DEF Later, Only
    <2>5. \A o, q : Did(o, q)' <=> Did(o, q) \/ (o = "shelved" /\ q = r)
      BY <1>0, <2>2, <2>4, LogDid DEF JournalInv
    <2>6. ASSUME p = r => file'[p] = Nothing, Shape(p)' PROVE ShapeAt(p)'
      BY <2>2, <2>6 DEF ShapeAt
    <2>7. CASE p = r
      <3>1. file'[p] = Nothing /\ stage'[p] = stage[p] /\ backup'[p] = file[p]
        BY <1>0, <2>2, <2>7 DEF Files
      <3> QED
        BY <1>0, <2>2, <2>3, <2>5, <2>6, <2>7, <3>1, ShapeMove
    <2>8. CASE p # r
      <3>1. file'[p] = file[p] /\ stage'[p] = stage[p] /\ backup'[p] = backup[p]
        BY <1>0, <2>2, <2>8 DEF Files
      <3> QED
        BY <2>2, <2>3, <2>5, <2>6, <2>8, <3>1, ShapeSame
    <2> QED
      BY <2>7, <2>8
  <1>13. CASE Put
    <2>1. PICK r \in Paths : r = tx.cur
      BY <1>0, <1>13 DEF Put, TxInv, Txs
    <2>2. /\ Log("wrote", r) /\ Only({"staged", "aside", "shelved"}, r)
          /\ UNCHANGED <<backup, stage, before, discarded>> /\ tx'.at = "write"
          /\ file' = [file EXCEPT ![r] = Own]
      BY <1>13, <2>1, PutTx DEF Put, JournalInv, unwritten, history
    <2>3. Shape(p) /\ (p = r => file[p] = Nothing)
      BY <1>13, <1>t, <2>1 DEF Put, ShapeAt, Syncing
    <2>4. \A o \in Moves : Did(o, r) => <<o, "wrote">> \in Later
      BY <1>0, <2>2 DEF Later, Only
    <2>5. \A o, q : Did(o, q)' <=> Did(o, q) \/ (o = "wrote" /\ q = r)
      BY <1>0, <2>2, <2>4, LogDid DEF JournalInv
    <2>6. ASSUME Shape(p)' PROVE ShapeAt(p)'
      BY <2>2, <2>6 DEF ShapeAt
    <2>7. CASE p = r
      <3>1. file'[p] = Own /\ stage'[p] = stage[p] /\ backup'[p] = backup[p]
        BY <1>0, <2>2, <2>7 DEF Files
      <3> QED
        BY <1>0, <2>2, <2>3, <2>5, <2>6, <2>7, <3>1, ShapeMove
    <2>8. CASE p # r
      <3>1. file'[p] = file[p] /\ stage'[p] = stage[p] /\ backup'[p] = backup[p]
        BY <1>0, <2>2, <2>8 DEF Files
      <3> QED
        BY <2>2, <2>3, <2>5, <2>6, <2>8, <3>1, ShapeSame
    <2> QED
      BY <2>7, <2>8
  <1>14. CASE Record
    BY <1>14, <1>a, MovesOnTx DEF Record, Steps
  <1>15. CASE SyncFails
    <2>1. UNCHANGED <<file, backup, stage, before, journal, discarded>> /\ tx'.at = "undo"
      BY <1>15, MovesOnTx DEF SyncFails, Steps, dirs, history
    <2>2. Shape(p)
      BY <1>15, <1>t DEF SyncFails, ShapeAt, Syncing
    <2> QED
      BY <1>d, <2>1, <2>2, SameDid
  <1>16. CASE UndoStep
    <2>1. tx' = tx /\ tx.at = "undo" /\ Shape(p)
      BY <1>16, <1>t DEF UndoStep, ShapeAt
    <2>2. Shape(p)'
      BY <1>16, <2>1, ShapeBack
    <2> QED
      BY <2>1, <2>2 DEF ShapeAt
  <1>17. CASE UndoFails \/ RemoveFails \/ Killed
    BY <1>17 DEF UndoFails, RemoveFails, Killed, Tracked
  <1>18. ASSUME NEW r \in Paths, Unlink(r) PROVE ShapeAt(p)'
    BY <1>18, <1>a, UnlinkTx
  <1>19. CASE Bring
    BY <1>19, <1>a, MovesOnTx DEF Bring, Steps
  <1>20. CASE SetDefault \/ SetDefaultFails \/ Undone \/ Forget
    BY <1>20, <1>a, EndsTx DEF SetDefault, SetDefaultFails, Undone, Forget
  <1> QED
    BY <1>1, <1>2, <1>4, <1>6, <1>7, <1>8, <1>9, <1>10, <1>11, <1>12, <1>13, <1>14,
       <1>15, <1>16, <1>17, <1>18, <1>19, <1>20 DEF EntriesNext, Transaction, Person
-----------------------------------------------------------------------------
(***************************************************************************)
(* The record.                                                             *)
(***************************************************************************)
\* No step makes a path sound.
LEMMA SoundNext ==
  ASSUME EntriesTypeOK, [EntriesNext]_evars, NEW p \in Paths, Sound(p)'
  PROVE  Sound(p) /\ cut' = cut
  <1>1. CASE Clean
    BY <1>1 DEF Clean, Mended, Sound, history, EntriesTypeOK
  <1>2. CASE ~Clean
    <2>1. Tracked(p)'
      BY DEF Sound, Tracked
    <2> QED
      BY <1>2, <2>1, TrackedNext DEF Sound, Tracked
  <1> QED
    BY <1>1, <1>2

\* What is true of a path stays true while nothing is done to it.
LEMMA SettledSame ==
  ASSUME NEW p \in Paths, SettledAt(p), newest'[p] = newest[p], p \in deleted' <=> p \in deleted, discarded'[p] = discarded[p],
         file'[p] = file[p], backup'[p] = backup[p], UNCHANGED <<manifest, before, tx>>
  PROVE  SettledAt(p)'
  BY DEF SettledAt, Is, Was, Settled, Lost, Dropped, Held

\* A path that is dropped without a backup to hand back shadows nothing that is not lost.
LEMMA DroppedSettled ==
  ASSUME EntriesTypeOK, NEW p \in Paths, Was(p, manifest[p]), Shape(p), Fresh(p),
         ~WebApp(file[p]), file[p] = Nothing \/ ~Held(p),
         UNCHANGED <<newest, deleted>>,
         discarded[p] \subseteq discarded'[p], Foreign(file[p]) => file[p] \in discarded'[p]
  PROVE  Settled(p, "absent", Nothing, Nothing)' /\ (~Held(p) => backup[p] = Nothing)
  <1>1. newest[p] \in {0} \union Installations /\ manifest[p] \in Says
    BY DEF EntriesTypeOK
  <1>2. file[p] = before.file[p] /\ backup[p] = before.backup[p]
    BY DEF Shape, Fresh, Moves
  <1>3. ~Held(p) => backup[p] = Nothing
    BY <1>2 DEF Was, Settled, Held
  <1>4. ASSUME p \in Apps, newest[p] # 0, ~Lost(p)' PROVE FALSE
    <2>1. ~Lost(p)
      BY <1>4 DEF Lost, Dropped
    <2>2. newest[p] > 0
      BY <1>1, <1>4, EntriesAssumption DEF Installations
    <2>3. file[p] # newest[p]
      BY <1>4, <2>2 DEF Lost, Dropped, Foreign
    <2>4. file[p] = Own /\ manifest[p] = "backed" /\ backup[p] = newest[p]
      BY <1>2, <1>4, <2>1, <2>3 DEF Was, Settled
    <2> QED
      BY <1>4, <2>4 DEF Held, Nothing, Own
  <1> QED
    BY <1>3, <1>4 DEF Settled, Nothing, Own

\* The record is true between two transactions and, of what there was, during one.
LEMMA SettledNext ==
  ASSUME EntriesTypeOK, TxInv, JournalInv, HandlerInv, ShapeInv, SettledInv, [EntriesNext]_evars
  PROVE  SettledInv'
  <1>0. /\ file \in Files /\ backup \in Files /\ stage \in Files /\ tx \in Txs
        /\ manifest \in [Paths -> Says] /\ newest \in [Paths -> {0} \union Installations]
        /\ deleted \in SUBSET Paths /\ discarded \in [Paths -> SUBSET Installations]
        /\ Moves = {"wrote", "staged", "aside", "shelved", "home"}
    BY DEF EntriesTypeOK, Moves
  <1>e. Nothing = 0 /\ Own = -1
    BY DEF Nothing, Own
  <1> SUFFICES ASSUME NEW p \in Paths, Sound(p)' PROVE SettledAt(p)'
    BY DEF SettledInv
  <1>t. Sound(p) /\ SettledAt(p) /\ Tracked(p) /\ ShapeAt(p)
    BY SoundNext DEF SettledInv, ShapeInv, Sound, Tracked
  <1>s. newest[p] \in Nat /\ manifest[p] \in Says
    BY <1>0, EntriesAssumption DEF Installations
  <1>a. ASSUME UNCHANGED <<newest, deleted, discarded, manifest>>, file'[p] = file[p], backup'[p] = backup[p],
               tx'.at \in {"none", "ask", "plan", "clean", "default"}, Is(p, manifest[p])
        PROVE  SettledAt(p)'
    BY <1>a DEF SettledAt, Is, Settled, Lost, Dropped, Syncing
  <1>b. ASSUME UNCHANGED <<newest, deleted, discarded, manifest, before>>, tx'.at = "undo", Was(p, manifest[p])
        PROVE  SettledAt(p)'
    BY <1>b DEF SettledAt, Was, Settled, Lost, Dropped, Syncing
  <1>1. CASE Edit \/ UNCHANGED evars
    BY <1>1, <1>t, SettledSame DEF Edit, evars, dirs, record, history
  <1>2. ASSUME NEW r \in Paths, Install(r) PROVE SettledAt(p)'
    <2>1. /\ UNCHANGED <<backup, manifest, tx, before, deleted, discarded>>
          /\ raced' = IF Free THEN raced ELSE raced \union {r}
      BY <1>2 DEF Install, record
    <2>0. PICK content \in {spent'["installs"], MaxInstalls + spent'["installs"]} :
            file' = [file EXCEPT ![r] = content] /\ newest' = [newest EXCEPT ![r] = content]
      BY <1>2 DEF Install
    <2>2. CASE r = p
      <3>1. Free
        BY <2>1, <2>2 DEF Sound
      <3>2. file'[p] = newest'[p] /\ newest'[p] \in Nat
        <4>1. spent' \in [Bounds -> Nat] /\ "installs" \in Bounds
          BY <1>2, SpendType, EntriesAssumption DEF Install, Bounds
        <4>2. content \in Nat
          BY <2>0, <4>1, EntriesAssumption
        <4> QED
          BY <1>0, <2>0, <2>2, <4>2 DEF Files
      <3>3. Is(p, manifest[p])
        BY <1>t, <3>1 DEF SettledAt, Free
      <3>4. Is(p, manifest[p])'
        BY <1>e, <2>1, <3>2, <3>3 DEF Is, Settled, Lost, Dropped
      <3> QED
        BY <2>1, <3>1, <3>4 DEF SettledAt, Free, Syncing
    <2>3. CASE r # p
      <3>1. file'[p] = file[p] /\ newest'[p] = newest[p]
        BY <1>0, <2>0, <2>3 DEF Files
      <3> QED
        BY <1>t, <2>1, <3>1, SettledSame
    <2> QED
      BY <2>2, <2>3
  <1>3. ASSUME NEW r \in Paths, Uninstall(r) PROVE SettledAt(p)'
    <2>1. /\ UNCHANGED <<backup, manifest, tx, before, deleted, discarded>>
          /\ raced' = IF Free THEN raced ELSE raced \union {r}
          /\ file' = [file EXCEPT ![r] = Nothing]
          /\ newest' = [newest EXCEPT ![r] = 0]
      BY <1>3 DEF Uninstall, record
    <2>2. CASE r = p
      <3>1. Free
        BY <2>1, <2>2 DEF Sound
      <3>2. file'[p] = Nothing /\ newest'[p] = 0
        BY <1>0, <2>1, <2>2 DEF Files
      <3>3. Is(p, manifest[p])
        BY <1>t, <3>1 DEF SettledAt, Free
      <3>4. Is(p, manifest[p])'
        BY <1>e, <2>1, <3>2, <3>3 DEF Is, Settled, Lost, Dropped
      <3> QED
        BY <2>1, <3>1, <3>4 DEF SettledAt, Free, Syncing
    <2>3. CASE r # p
      <3>1. file'[p] = file[p] /\ newest'[p] = newest[p]
        BY <1>0, <2>1, <2>3 DEF Files
      <3> QED
        BY <1>t, <2>1, <3>1, SettledSame
    <2> QED
      BY <2>2, <2>3
  <1>4. ASSUME NEW who \in {"setup", "refresh", "remove"}, NEW at \in Steps, Begin(who, at),
               at \in {"ask", "plan"} \/ (at = "unlink" /\ Owned = {})
        PROVE  SettledAt(p)'
    <2>1. /\ UNCHANGED <<file, backup, manifest, newest, deleted, discarded>> /\ tx'.at = at
          /\ tx'.todo = IF who = "remove" THEN Owned ELSE {}
      BY <1>4, BeginTx DEF Begin, dirs, record
    <2>2. Is(p, manifest[p])
      BY <1>4, <1>t DEF Begin, Free, SettledAt
    <2>3. CASE at \in {"ask", "plan"}
      BY <1>a, <2>1, <2>2, <2>3
    <2>4. CASE at = "unlink" /\ Owned = {}
      <3>1. manifest[p] = "absent" /\ p \notin tx'.todo
        BY <2>1, <2>4 DEF Owned
      <3>2. Is(p, "absent")'
        BY <2>1, <2>2, <3>1 DEF Is, Settled, Lost, Dropped
      <3> QED
        BY <2>1, <2>4, <3>1, <3>2 DEF SettledAt, Syncing
    <2> QED
      BY <1>4, <2>3, <2>4
  <1>5. CASE BeginSetup \/ BeginRefresh \/ BeginRemove
    BY <1>4, <1>5 DEF BeginSetup, BeginRefresh, BeginRemove, Steps
  <1>6. ASSUME NEW answered \in BOOLEAN, NEW restored \in BOOLEAN, Asked(answered, restored), tx.at = "ask",
               UNCHANGED <<file, backup, manifest, newest, deleted, discarded>>
        PROVE  SettledAt(p)'
    <2>1. Is(p, manifest[p])
      BY <1>6, <1>t DEF SettledAt
    <2>2. CASE tx'.at \in {"plan", "none"}
      BY <1>a, <1>6, <2>1, <2>2
    <2>3. CASE tx'.at = "unlink" /\ tx'.todo = tx.todo /\ tx.who # "setup"
      <3>1. tx.todo = Owned
        BY <1>6, <2>3 DEF TxInv
      <3>2. Is(p, manifest[p])'
        BY <1>6, <2>1 DEF Is, Settled, Lost, Dropped
      <3>3. p \notin Owned => manifest'[p] = "absent"
        BY <1>6 DEF Owned
      <3>4. Is(p, IF p \in tx.todo THEN manifest[p] ELSE "absent")'
        BY <2>3, <3>1, <3>2, <3>3
      <3> QED
        BY <2>3, <3>4 DEF SettledAt, Syncing
    <2> QED
      BY <1>6, <2>2, <2>3, AskedTx, EndsTx
  <1>7. CASE Ask \/ AskFails
    BY <1>6, <1>7 DEF Ask, AskFails, dirs, record, history
  <1>8. CASE Plan
    <2>1. /\ UNCHANGED <<file, backup, manifest, newest, deleted, discarded, before>>
          /\ before.file[p] = file[p] /\ before.backup[p] = backup[p] /\ Is(p, manifest[p])
      BY <1>8, <1>t DEF Plan, dirs, record, history, ShapeAt, SettledAt
    <2>2. CASE tx'.at = "clean"
      BY <1>a, <2>1, <2>2
    <2>3. CASE tx'.at = "drop" /\ tx'.todo = Owned \ Planned /\ tx'.plan = Planned
      <3>1. Was(p, manifest[p])'
        BY <2>1 DEF Is, Was, Settled, Lost, Dropped
      <3>2. p \notin tx'.todo \union tx'.plan => manifest[p] = "absent"
        BY <2>3 DEF Owned
      <3>3. p \notin tx'.todo \union tx'.plan => Is(p, "absent")'
        BY <2>1, <3>2 DEF Is, Settled, Lost, Dropped
      <3> QED
        BY <2>3, <3>1, <3>3 DEF SettledAt, Syncing
    <2> QED
      BY <1>8, <2>2, <2>3, PlanTx
  <1>9. ASSUME NEW r \in Paths, DropEntry(r) PROVE SettledAt(p)'
    <2>1. /\ r \in tx.todo /\ tx.at = "drop" /\ Fresh(r) /\ UNCHANGED <<before, manifest, newest, deleted>>
          /\ tx'.todo = tx.todo \ {r} /\ tx'.plan = tx.plan /\ r \in Owned \ tx.plan
      BY <1>9, DropTx DEF DropEntry, Step, TxInv, JournalInv, Syncing, record
    <2>2. Was(p, manifest[p]) /\ Shape(p) /\ (p \in tx.todo => ~WebApp(file[p]))
      BY <1>t, <2>1 DEF SettledAt, ShapeAt, Syncing
    <2>d. /\ discarded[p] \subseteq discarded'[p] /\ (p # r => discarded'[p] = discarded[p])
          /\ p = r /\ Foreign(file[p]) => file[p] \in discarded'[p]
      <3>1. Foreign(file[p]) => file[p] \in Installations /\ file[p] # Nothing
        BY <1>0 DEF Files, Contents, Foreign, Own, Nothing
      <3>2. discarded' = IF file[r] # Nothing
                         THEN [discarded EXCEPT ![r] = @ \union ({file[r]} \intersect Installations)] ELSE discarded
        BY <1>9 DEF DropEntry
      <3> QED
        BY <1>0, <3>1, <3>2
    <2>3. Was(p, manifest[p])'
      BY <2>1, <2>2, <2>d DEF Was, Settled, Lost, Dropped
    <2>4. CASE p = r
      <3>1. CASE file[r] # Nothing
        <4>1. /\ backup' = backup /\ file'[p] = Nothing
              /\ tx'.at = (IF Held(p) THEN "back" ELSE "drop") /\ tx'.cur = p
          BY <1>0, <1>9, <2>4, <3>1, DropTx DEF DropEntry, Files
        <4>2. CASE Held(p)
          <5>1. Held(p)' /\ tx'.at = "back"
            BY <2>1, <4>1, <4>2 DEF Held
          <5> QED
            BY <2>3, <4>1, <5>1 DEF SettledAt, Syncing
        <4>3. CASE ~Held(p)
          <5>1. Settled(p, "absent", Nothing, Nothing)' /\ backup[p] = Nothing
            BY <2>1, <2>2, <2>4, <2>d, <4>3, DroppedSettled
          <5>2. Is(p, "absent")'
            BY <2>1, <4>1, <5>1 DEF Is, Settled, Lost, Dropped
          <5> QED
            BY <2>3, <4>1, <4>3, <5>2 DEF SettledAt, Syncing
        <4> QED
          BY <4>2, <4>3
      <3>2. CASE file[r] = Nothing
        <4>1. /\ file'[p] = Nothing /\ tx'.at = "drop"
              /\ backup'[p] = IF Held(p) THEN Nothing ELSE backup[p]
          BY <1>0, <1>9, <2>4, <3>2, DropTx DEF DropEntry, Files
        <4>2. Settled(p, "absent", Nothing, Nothing)' /\ (~Held(p) => backup[p] = Nothing)
          BY <2>1, <2>2, <2>4, <2>d, <3>2, DroppedSettled
        <4>3. Is(p, "absent")'
          BY <2>1, <4>1, <4>2 DEF Is, Settled, Lost, Dropped
        <4> QED
          BY <2>3, <4>1, <4>3 DEF SettledAt, Syncing
      <3> QED
        BY <3>1, <3>2
    <2>5. CASE p # r
      <3>1. file'[p] = file[p] /\ backup'[p] = backup[p]
        BY <1>0, <1>9, <2>5 DEF DropEntry, Files
      <3>2. tx'.at \in {"drop", "back"} /\ (tx'.at = "back" => tx'.cur = r)
        BY <1>9, DropTx
      <3>3. p \notin tx'.todo \union tx'.plan => Is(p, "absent")
        BY <1>t, <2>1, <2>5 DEF SettledAt
      <3>4. p \notin tx'.todo \union tx'.plan => Is(p, "absent")'
        BY <2>1, <2>d, <2>5, <3>1, <3>3 DEF Is, Settled, Lost, Dropped
      <3> QED
        BY <2>3, <2>5, <3>2, <3>4 DEF SettledAt, Syncing
    <2> QED
      BY <2>4, <2>5
  <1>10. CASE HandBack
    <2>1. PICK r \in Paths : r = tx.cur
      BY <1>10 DEF HandBack, TxInv, Owned
    <2>2. /\ Only({"staged"}, r) /\ Did("staged", r) /\ tx.at = "back"
          /\ UNCHANGED <<before, manifest, newest, deleted, discarded>>
          /\ tx'.at = "drop" /\ tx'.todo = tx.todo /\ tx'.plan = tx.plan
          /\ file' = [file EXCEPT ![r] = backup[r]] /\ backup' = [backup EXCEPT ![r] = Nothing]
      BY <1>10, <2>1, HandBackTx DEF HandBack, JournalInv, unwritten, record, history
    <2>3. Was(p, manifest[p]) /\ Shape(p)
      BY <1>t, <2>2 DEF SettledAt, ShapeAt, Syncing
    <2>4. Was(p, manifest[p])'
      BY <2>2, <2>3 DEF Was, Settled, Lost, Dropped
    <2>5. CASE p = r
      <3>1. file'[p] = before.backup[p] /\ backup'[p] = Nothing 
            /\ (Foreign(before.file[p]) => before.file[p] \in discarded[p] /\ ~WebApp(before.file[p]))
        <4>1. backup[p] = before.backup[p]
              /\ (Foreign(before.file[p]) => before.file[p] \in discarded[p] /\ ~WebApp(before.file[p]))
          BY <1>0, <2>2, <2>3, <2>5 DEF Only, Shape
        <4> QED
          BY <1>0, <2>2, <2>5, <4>1 DEF Files
      <3>2. newest[p] # 0 /\ ~Dropped(p) => newest[p] # before.file[p]
        BY <1>s, <3>1 DEF Foreign, Dropped
      <3>3. Is(p, "absent")'
        BY <1>e, <2>2, <2>3, <3>1, <3>2 DEF Is, Was, Settled, Lost, Dropped
      <3> QED
        BY <2>2, <2>4, <3>3 DEF SettledAt, Syncing
    <2>6. CASE p # r
      <3>1. file'[p] = file[p] /\ backup'[p] = backup[p]
        BY <1>0, <2>2, <2>6 DEF Files
      <3>2. p \notin tx'.todo \union tx'.plan => Is(p, "absent")
        BY <1>t, <2>1, <2>2, <2>6 DEF SettledAt
      <3>3. p \notin tx'.todo \union tx'.plan => Is(p, "absent")'
        BY <2>2, <3>1, <3>2 DEF Is, Settled, Lost, Dropped
      <3> QED
        BY <2>2, <2>4, <3>3 DEF SettledAt, Syncing
    <2> QED
      BY <2>5, <2>6
  <1>11. CASE BeginWrite
    <2>1. /\ UNCHANGED <<file, backup, before, manifest, newest, deleted, discarded>>
          /\ tx.at = "drop" /\ tx.todo = {} /\ tx.files = AllAbsent
          /\ tx'.at = "write" /\ tx'.todo = tx.plan /\ tx'.files = tx.files
      BY <1>11, BeginWriteTx DEF BeginWrite, Over, TxInv, dirs, unwritten, record, history
    <2>2. Was(p, manifest[p]) /\ (p \notin tx.plan => Is(p, "absent"))
      BY <1>t, <2>1 DEF SettledAt, Syncing
    <2>3. Was(p, manifest[p])' /\ (p \notin tx.plan => Is(p, "absent")')
      BY <2>1, <2>2 DEF Is, Was, Settled, Lost, Dropped
    <2>4. tx'.files[p] = "absent"
      BY <2>1 DEF AllAbsent
    <2>5. p \notin tx'.todo => Is(p, tx.files[p])'
      BY <2>1, <2>3, <2>4
    <2> QED
      BY <2>1, <2>3, <2>5 DEF SettledAt, Syncing
  <1>12. ASSUME NEW r \in Paths, WriteEntry(r) PROVE SettledAt(p)'
    <2>1. /\ r \in tx.todo /\ tx.at = "write" /\ Fresh(r) /\ UNCHANGED <<before, manifest, newest, deleted, discarded>>
          /\ tx'.todo = tx.todo \ {r} /\ tx'.cur = r
          /\ tx'.at = (IF IsForeign(r) THEN "shelve" ELSE "put")
      BY <1>12, WriteTx DEF WriteEntry, Step, JournalInv, Syncing, unwritten, record, history
    <2>2. Was(p, manifest[p]) /\ Shape(p)
      BY <1>t, <2>1 DEF SettledAt, ShapeAt, Syncing
    <2>3. Was(p, manifest[p])'
      BY <2>1, <2>2 DEF Was, Settled, Lost, Dropped
    <2>4. CASE p = r /\ IsForeign(r)
      BY <2>1, <2>3, <2>4 DEF SettledAt, Syncing
    <2>5. CASE p = r /\ ~IsForeign(r)
      <3>1. /\ tx'.files[p] = (IF manifest[p] = "backed" THEN "backed" ELSE "bare")
            /\ backup' = backup /\ tx'.at = "put"
        BY <1>12, <2>1, <2>5, WriteTx DEF WriteEntry
      <3>2. file[p] = before.file[p] /\ backup[p] = before.backup[p]
        BY <1>0, <2>1, <2>2, <2>5 DEF Shape, Fresh
      <3>3. newest[p] # 0 => newest[p] # before.file[p]
        BY <1>s, <2>5, <3>2 DEF Foreign, IsForeign
      <3>4. Settled(p, tx.files[p], Own, backup[p])'
        BY <1>e, <2>1, <2>2, <3>1, <3>2, <3>3 DEF Was, Settled, Lost, Dropped
      <3> QED
        BY <2>1, <2>3, <2>5, <3>1, <3>4 DEF SettledAt, Syncing
    <2>6. CASE p # r
      <3>1. file'[p] = file[p] /\ backup'[p] = backup[p]
        BY <1>0, <1>12, <2>6 DEF WriteEntry, Files
      <3>2. tx'.files[p] = tx.files[p]
        BY <1>12, <2>6, WriteTx
      <3>3. p \notin tx'.todo => Is(p, tx.files[p])
        BY <1>t, <2>1, <2>6 DEF SettledAt
      <3>4. p \notin tx'.todo => Is(p, tx.files[p])'
        BY <2>1, <3>1, <3>2, <3>3 DEF Is, Settled, Lost, Dropped
      <3> QED
        BY <2>1, <2>3, <2>6, <3>4 DEF SettledAt, Syncing
    <2> QED
      BY <2>4, <2>5, <2>6
  <1>13. CASE Shelve
    <2>1. PICK r \in Paths : r = tx.cur
      BY <1>0, <1>13 DEF Shelve, TxInv, Txs
    <2>2. /\ Only({"aside"}, r) /\ UNCHANGED <<before, manifest, newest, deleted, discarded>>
          /\ tx.at = "shelve" /\ tx'.at = "put" /\ tx'.todo = tx.todo /\ tx'.cur = r
          /\ tx'.files[r] = "backed" /\ \A q \in Paths \ {r} : tx'.files[q] = tx.files[q]
          /\ backup' = [backup EXCEPT ![r] = file[r]] /\ file' = [file EXCEPT ![r] = Nothing]
      BY <1>13, <2>1, ShelveTx DEF Shelve, JournalInv, unwritten, record, history
    <2>3. Was(p, manifest[p]) /\ Shape(p) /\ (p = r => Foreign(file[p]))
      BY <1>t, <2>1, <2>2 DEF SettledAt, ShapeAt, Syncing
    <2>4. Was(p, manifest[p])'
      BY <2>2, <2>3 DEF Was, Settled, Lost, Dropped
    <2>5. CASE p = r
      <3>1. backup'[p] = file[p] /\ file[p] = before.file[p] /\ file[p] # Own
        <4>1. file[p] = before.file[p]
          BY <1>0, <2>2, <2>3, <2>5 DEF Shape, Only
        <4>2. file[p] # Own
          BY <1>e, <2>3, <2>5 DEF Foreign
        <4> QED
          BY <1>0, <2>2, <2>5, <4>1, <4>2 DEF Files
      <3>2. Settled(p, tx.files[p], Own, backup[p])'
        BY <1>e, <2>2, <2>3, <2>5, <3>1 DEF Was, Foreign, Nothing, Settled, Lost, Dropped
      <3> QED
        BY <2>2, <2>4, <2>5, <3>2 DEF SettledAt, Syncing
    <2>6. CASE p # r
      <3>1. file'[p] = file[p] /\ backup'[p] = backup[p]
        BY <1>0, <2>2, <2>6 DEF Files
      <3>2. p \notin tx'.todo => Is(p, tx.files[p])
        BY <1>t, <2>1, <2>2, <2>6 DEF SettledAt
      <3>3. p \notin tx'.todo => Is(p, tx.files[p])'
        BY <2>2, <2>6, <3>1, <3>2 DEF Is, Settled, Lost, Dropped
      <3> QED
        BY <2>2, <2>4, <2>6, <3>3 DEF SettledAt, Syncing
    <2> QED
      BY <2>5, <2>6
  <1>14. CASE Put
    <2>1. PICK r \in Paths : r = tx.cur
      BY <1>0, <1>14 DEF Put, TxInv, Txs
    <2>2. /\ UNCHANGED <<backup, before, manifest, newest, deleted, discarded>>
          /\ tx.at = "put" /\ tx'.at = "write" /\ tx'.todo = tx.todo /\ tx'.files = tx.files
          /\ file' = [file EXCEPT ![r] = Own]
      BY <1>14, <2>1, PutTx DEF Put, unwritten, record, history
    <2>3. Was(p, manifest[p])
      BY <1>t, <2>2 DEF SettledAt, Syncing
    <2>4. Was(p, manifest[p])'
      BY <2>2, <2>3 DEF Was, Settled, Lost, Dropped
    <2>5. CASE p = r
      <3>1. Settled(p, tx.files[p], Own, backup[p])
        BY <1>t, <2>1, <2>2, <2>5 DEF SettledAt
      <3>2. file'[p] = Own
        BY <1>0, <2>2, <2>5 DEF Files
      <3>3. Is(p, tx.files[p])'
        BY <2>2, <3>1, <3>2 DEF Is, Settled, Lost, Dropped
      <3> QED
        BY <2>2, <2>4, <3>3 DEF SettledAt, Syncing
    <2>6. CASE p # r
      <3>1. file'[p] = file[p]
        BY <1>0, <2>2, <2>6 DEF Files
      <3>2. p \notin tx'.todo => Is(p, tx.files[p])
        BY <1>t, <2>1, <2>2, <2>6 DEF SettledAt
      <3>3. p \notin tx'.todo => Is(p, tx.files[p])'
        BY <2>2, <3>1, <3>2 DEF Is, Settled, Lost, Dropped
      <3> QED
        BY <2>2, <2>4, <3>3 DEF SettledAt, Syncing
    <2> QED
      BY <2>5, <2>6
  <1>15. CASE Record
    <2>1. /\ UNCHANGED <<file, backup, newest, deleted, discarded>> /\ manifest' = tx.files
          /\ tx.at = "write" /\ tx.todo = {} /\ tx'.at = "clean"
      BY <1>15, MovesOnTx DEF Record, Over, Steps, dirs, history
    <2>2. Is(p, tx.files[p])
      BY <1>t, <2>1 DEF SettledAt
    <2>3. Is(p, manifest[p])'
      BY <2>1, <2>2 DEF Is, Settled, Lost, Dropped
    <2> QED
      BY <2>1, <2>3 DEF SettledAt, Syncing
  <1>16. CASE Clean
    <2>1. UNCHANGED <<file, backup, newest, deleted, discarded, manifest>> /\ Is(p, manifest[p])
      BY <1>16, <1>t DEF Clean, record, history, SettledAt
    <2>2. tx'.at \in {"none", "default"}
      <3>1. CASE Ends
        BY <3>1, EndsTx
      <3>2. CASE tx' = [tx EXCEPT !.at = "default"]
        BY <3>2, MovesOnTx DEF Steps
      <3> QED
        BY <1>16, <3>1, <3>2 DEF Clean
    <2> QED
      BY <1>a, <2>1, <2>2
  <1>17. CASE SetDefault \/ SetDefaultFails
    <2>1. UNCHANGED <<file, backup, newest, deleted, discarded, manifest>> /\ Is(p, manifest[p]) /\ tx'.at = "none"
      BY <1>17, <1>t, EndsTx DEF SetDefault, SetDefaultFails, dirs, record, history, SettledAt
    <2> QED
      BY <1>a, <2>1
  <1>18. CASE SyncFails
    <2>1. UNCHANGED <<newest, deleted, discarded, manifest, before>> /\ tx'.at = "undo"
      BY <1>18, MovesOnTx DEF SyncFails, Steps, dirs, record, history
    <2>2. Was(p, manifest[p])
      BY <1>18, <1>t DEF SyncFails, SettledAt, Syncing
    <2> QED
      BY <1>b, <2>1, <2>2
  <1>24. CASE UndoStep
    <2>1. UNCHANGED <<newest, deleted, manifest, before>> /\ tx'.at = "undo" /\ tx.at = "undo"
      BY <1>24 DEF UndoStep, record
    <2>2. Was(p, manifest[p]) /\ Shape(p)
      BY <1>t, <2>1 DEF SettledAt, ShapeAt
    <2>3. discarded'[p] = discarded[p] \/ discarded'[p] = discarded[p] \ {before.file[p]}
      <3>1. journal # <<>> /\ journal' = SubSeq(journal, 1, Len(journal) - 1)
        BY <1>24 DEF UndoStep
      <3>2. PICK u \in Moves, r \in Paths : u = NextUndone.op /\ r = NextUndone.p
        BY <3>1, PopDid DEF JournalInv
      <3>3. Did(u, r)
        BY <3>1, <3>2, PopDid DEF JournalInv
      <3>4. discarded' = IF u = "staged" THEN [discarded EXCEPT ![r] = @ \ {stage[r]}] ELSE discarded
        BY <1>24, <3>2 DEF UndoStep
      <3>5. u = "staged" /\ r = p => stage[r] = before.file[p]
        BY <2>2, <3>3 DEF Shape
      <3> QED
        BY <1>0, <3>4, <3>5
    <2>4. Was(p, manifest[p])'
      BY <2>1, <2>2, <2>3 DEF Was, Settled, Lost, Dropped
    <2> QED
      BY <2>1, <2>4 DEF SettledAt, Syncing
  <1>19. CASE UndoFails \/ RemoveFails \/ Killed
    BY <1>19 DEF UndoFails, RemoveFails, Killed, Sound
  <1>20. CASE Undone
    <2>1. /\ UNCHANGED <<file, backup, newest, deleted, discarded, manifest>> /\ tx'.at = "none"
          /\ tx.at = "undo" /\ journal = <<>>
      BY <1>20, EndsTx DEF Undone, dirs, unwritten, record, history
    <2>2. Was(p, manifest[p]) /\ Shape(p)
      BY <1>t, <2>1 DEF SettledAt, ShapeAt
    <2>3. file[p] = before.file[p] /\ backup[p] = before.backup[p]
      BY <2>1, <2>2, EmptyDid DEF Shape
    <2>4. Is(p, manifest[p])
      BY <2>2, <2>3 DEF Is, Was
    <2> QED
      BY <1>a, <2>1, <2>4
  <1>21. ASSUME NEW r \in Paths, Unlink(r) PROVE SettledAt(p)'
    <2>1. /\ UNCHANGED <<backup, manifest, newest, discarded>> /\ tx.at = "unlink" /\ r \in tx.todo
          /\ tx'.todo = tx.todo \ {r} /\ tx'.cur = r
          /\ tx'.at = (IF Held(r) THEN "bring" ELSE "unlink") /\ tx'.set = (file[r] # Nothing)
          /\ file' = [file EXCEPT ![r] = Nothing]
          /\ deleted' = IF Foreign(file[r]) /\ (manifest[r] = "backed" => Held(r)) THEN deleted \union {r} ELSE deleted
      BY <1>21, UnlinkTx DEF Unlink, Step, record
    <2>2. Is(p, IF p \in tx.todo THEN manifest[p] ELSE "absent")
      BY <1>t, <2>1 DEF SettledAt
    <2>3. CASE p = r
      <3>1. Is(p, manifest[p]) /\ file'[p] = Nothing
        BY <1>0, <2>1, <2>2, <2>3 DEF Files
      <3>2. newest[p] # 0 /\ p \notin deleted' => newest[p] # file[p] /\ p \notin deleted
        <4>1. manifest[p] = "backed" => Held(p)
          BY <3>1 DEF Is, Settled, Held
        <4> QED
          BY <1>s, <2>1, <2>3, <4>1 DEF Foreign
      <3>3. CASE Held(r)
        <4>1. Settled(p, "absent", IF tx.set THEN backup[p] ELSE Nothing, Nothing)'
          <5>1. CASE tx'.set
            BY <1>e, <2>1, <2>3, <3>1, <3>2, <5>1 DEF Is, Settled, Lost, Dropped
          <5>2. CASE ~tx'.set
            <6>1. file[p] = Nothing
              BY <2>1, <2>3, <5>2, Zenon
            <6>2. Settled(p, "absent", Nothing, Nothing)'
              BY <1>e, <3>1, <3>2, <6>1, <2>1 DEF Is, Settled, Lost, Dropped
            <6> QED
              BY <5>2, <6>2
          <5> QED
            BY <5>1, <5>2
        <4> QED
          BY <2>1, <2>3, <3>1, <3>3, <4>1 DEF SettledAt, Syncing
      <3>4. CASE ~Held(r)
        <4>1. Is(p, "absent")'
          BY <1>e, <2>1, <2>3, <3>1, <3>2, <3>4 DEF Is, Settled, Lost, Dropped, Held
        <4> QED
          BY <2>1, <2>3, <3>4, <4>1 DEF SettledAt, Syncing
      <3> QED
        BY <3>3, <3>4
    <2>4. CASE p # r
      <3>1. file'[p] = file[p] /\ (p \in deleted' <=> p \in deleted)
        BY <1>0, <2>1, <2>4 DEF Files
      <3>2. Is(p, IF p \in tx.todo THEN manifest[p] ELSE "absent")'
        BY <2>1, <2>2, <2>4, <3>1 DEF Is, Settled, Lost, Dropped
      <3> QED
        BY <2>1, <2>4, <3>2 DEF SettledAt, Syncing
    <2> QED
      BY <2>3, <2>4
  <1>22. CASE Bring
    <2>1. PICK r \in Paths : r = tx.cur
      BY <1>0, <1>22 DEF Bring, TxInv, Txs, Owned
    <2>2. /\ UNCHANGED <<manifest, newest, discarded>> /\ tx.at = "bring" /\ tx'.at = "unlink" /\ tx'.todo = tx.todo
          /\ file' = (IF tx.set THEN [file EXCEPT ![r] = backup[r]] ELSE file)
          /\ backup' = [backup EXCEPT ![r] = Nothing] /\ r \notin tx.todo
          /\ deleted' = IF tx.set THEN deleted ELSE deleted \union {r}
      BY <1>22, <2>1, MovesOnTx DEF Bring, Steps, record, TxInv
    <2>3. CASE p = r
      <3>1. file[p] = Nothing /\ Settled(p, "absent", IF tx.set THEN backup[p] ELSE Nothing, Nothing)
        BY <1>t, <2>1, <2>2, <2>3 DEF SettledAt
      <3>2. backup'[p] = Nothing /\ file'[p] = IF tx.set THEN backup[p] ELSE Nothing
        BY <1>0, <2>2, <2>3, <3>1 DEF Files
      <3>3. Is(p, "absent")'
        BY <2>2, <3>1, <3>2 DEF Is, Settled, Lost, Dropped
      <3> QED
        BY <2>2, <2>3, <3>3 DEF SettledAt, Syncing
    <2>4. CASE p # r
      <3>1. file'[p] = file[p] /\ backup'[p] = backup[p] /\ (p \in deleted' <=> p \in deleted)
        BY <1>0, <2>2, <2>4 DEF Files
      <3>2. Is(p, IF p \in tx.todo THEN manifest[p] ELSE "absent")
        BY <1>t, <2>1, <2>2, <2>4 DEF SettledAt
      <3>3. Is(p, IF p \in tx.todo THEN manifest[p] ELSE "absent")'
        BY <2>2, <3>1, <3>2 DEF Is, Settled, Lost, Dropped
      <3> QED
        BY <2>2, <3>3 DEF SettledAt, Syncing
    <2> QED
      BY <2>3, <2>4
  <1>23. CASE Forget
    <2>1. /\ UNCHANGED <<file, backup, newest, deleted, discarded>> /\ tx'.at = "none" /\ manifest' = AllAbsent
          /\ tx.at = "unlink" /\ tx.todo = {}
      BY <1>23, EndsTx DEF Forget, Over, dirs, history
    <2>2. Is(p, "absent")
      BY <1>t, <2>1 DEF SettledAt
    <2>3. Is(p, manifest[p])'
      BY <2>1, <2>2 DEF Is, Settled, Lost, Dropped, AllAbsent
    <2> QED
      BY <2>1, <2>3 DEF SettledAt, Syncing
  <1> QED
    BY <1>1, <1>2, <1>3, <1>5, <1>7, <1>8, <1>9, <1>10, <1>11, <1>12, <1>13, <1>14, <1>15,
       <1>16, <1>17, <1>18, <1>19, <1>20, <1>21, <1>22, <1>23, <1>24 DEF EntriesNext, Transaction, Person
-----------------------------------------------------------------------------
(***************************************************************************)
(* The default browser.                                                    *)
(***************************************************************************)
\* As long as the plugin is the default, or is about to be, its handler is on record,
\* planned by every sync and not touched by a remove; unless something was cut off,
\* the file is there, or was when the transaction began.
Wanted == default \/ tx.set
DefaultInv ==
  /\ default => Handler \in Owned
  /\ tx.at = "plan" /\ tx.who = "setup" /\ Wanted => Handler \in tx.plan
  /\ tx.at \in Syncing /\ Wanted => Handler \in tx.plan
  /\ tx.at \in {"write", "shelve", "put"} /\ Handler \in tx.plan \ tx.todo =>
       tx.files[Handler] # "absent" /\ (file[Handler] = Own \/ (tx.at = "put" /\ tx.cur = Handler))
  /\ tx.at \in {"clean", "default"} /\ Wanted => file[Handler] = Own /\ Handler \in Owned
  /\ tx.at = "default" => tx.set
  /\ tx.at \in {"unlink", "bring"} => ~default
  /\ default /\ cut # "cut" =>
       /\ tx.at \in {"none", "ask", "plan"} => file[Handler] = Own
       /\ tx.at \in Syncing \union {"undo"} => before.file[Handler] = Own

\* Every step keeps it so.
LEMMA DefaultNext ==
  ASSUME EntriesTypeOK, TxInv, HandlerInv, ShapeInv, DefaultInv, [EntriesNext]_evars
  PROVE  DefaultInv'
  <1>0. /\ file \in Files /\ backup \in Files /\ stage \in Files /\ tx \in Txs
        /\ manifest \in [Paths -> Says] /\ cut \in {"no", "cut", "mended"} /\ Handler \in Paths /\ Handler \notin Apps
    BY EntriesAssumption DEF EntriesTypeOK, Paths
  <1>o. Handler \in Owned <=> manifest[Handler] # "absent"
    BY <1>0 DEF Owned
  <1>p. Handler \in Owned' <=> manifest'[Handler] # "absent"
    BY <1>0 DEF Owned
  <1>t. cut # "cut" => Tracked(Handler) /\ ShapeAt(Handler)
    BY <1>0 DEF ShapeInv, Tracked, HandlerInv
  <1>d. default \in BOOLEAN /\ tx.set \in BOOLEAN
    BY <1>0 DEF EntriesTypeOK, Txs
  <1> USE DEF Wanted
  <1>a. ASSUME tx'.at = "none", UNCHANGED manifest, file'[Handler] = file[Handler], default' => default,
               cut' # "cut" => cut # "cut" /\ (default => file[Handler] = Own)
        PROVE  DefaultInv'
    BY <1>a, <1>o, <1>p DEF DefaultInv, Syncing
  <1>b. ASSUME UNCHANGED <<tx, manifest, before, cut>>, file'[Handler] = file[Handler], default' => default
        PROVE  DefaultInv'
    BY <1>b, <1>o, <1>p DEF DefaultInv
  <1>c. ASSUME tx.at \in Syncing, tx'.at \in {"drop", "back", "write"}, UNCHANGED <<manifest, before, cut, default>>,
               tx'.plan = tx.plan, tx'.set = tx.set, tx'.at = "write" => tx'.todo = tx.plan
        PROVE  DefaultInv'
    BY <1>c, <1>o, <1>p DEF DefaultInv, Syncing
  <1>w. ASSUME tx.at \in {"write", "shelve", "put"}, tx'.at \in {"write", "shelve", "put"},
               UNCHANGED <<manifest, before, cut, default>>, tx'.plan = tx.plan, tx'.set = tx.set,
               Handler \in tx.plan \ tx'.todo =>
                 tx'.files[Handler] # "absent" /\ (file'[Handler] = Own \/ (tx'.at = "put" /\ tx'.cur = Handler))
        PROVE  DefaultInv'
    BY <1>w, <1>o, <1>p DEF DefaultInv, Syncing
  <1>1. CASE Person \/ UNCHANGED evars
    <2>1. UNCHANGED <<tx, manifest, before, cut>> /\ (default' => default)
      BY <1>1 DEF Person, Edit, Install, Uninstall, evars, record, config, history
    <2>2. file'[Handler] = file[Handler]
      <3>1. ASSUME NEW p \in Paths, Install(p) \/ Uninstall(p) PROVE file'[Handler] = file[Handler]
        BY <1>0, <3>1 DEF Install, Uninstall, Files
      <3>2. CASE Edit \/ UNCHANGED evars
        BY <3>2 DEF Edit, evars, dirs
      <3> QED
        BY <1>1, <3>1, <3>2 DEF Person
    <2> QED
      BY <1>b, <2>1, <2>2
  <1>2. ASSUME NEW who \in {"setup", "refresh", "remove"}, NEW at \in Steps, Begin(who, at),
               at = "ask" \/ (at = "plan" /\ who = "refresh") \/ (at = "unlink" /\ Owned = {})
        PROVE  DefaultInv'
    <2>1. /\ UNCHANGED <<file, manifest, default, cut>> /\ tx.at = "none" /\ tx'.at = at /\ tx'.who = who
          /\ tx'.set = FALSE
      BY <1>2, BeginTx DEF Begin, Free, dirs, record, config
    <2> QED
      BY <1>2, <1>o, <1>p, <2>1 DEF DefaultInv, Syncing
  <1>3. CASE BeginSetup \/ BeginRefresh \/ BeginRemove
    BY <1>2, <1>3 DEF BeginSetup, BeginRefresh, BeginRemove, Steps
  <1>4. ASSUME NEW answered \in BOOLEAN, NEW restored \in BOOLEAN, Asked(answered, restored), tx.at = "ask",
               UNCHANGED <<file, manifest, cut>>, default' => default,
               restored \/ (default' /\ (answered => default)) \/ ~default',
               restored => default' = (default /\ ~Restores(TRUE)) /\ answered
        PROVE  DefaultInv'
    <2>0. tx.who \in {"setup", "remove"}
      BY <1>4 DEF TxInv
    <2>1. CASE tx.who = "setup"
      <3>1. /\ tx'.at = "plan" /\ tx'.who = "setup" /\ tx'.set = (links /\ answered /\ ~default)
            /\ tx'.plan = IF links \/ KeepsHandler(answered, restored) THEN {Handler} ELSE {}
        BY <1>4, <2>1, AskedTx
      <3>2. tx'.set => Handler \in tx'.plan
        BY <3>1
      <3>3. default' => Handler \in tx'.plan
        <4>1. CASE links
          BY <3>1, <4>1
        <4>2. CASE ~links /\ restored
          BY <1>4, <2>1, <4>2 DEF Restores
        <4>3. CASE ~links /\ ~restored
          BY <1>4, <3>1, <4>3 DEF KeepsHandler, DefaultInv
        <4> QED
          BY <4>1, <4>2, <4>3
      <3>4. default' => Handler \in Owned /\ (cut # "cut" => file[Handler] = Own)
        BY <1>4 DEF DefaultInv
      <3> QED
        BY <1>4, <1>o, <1>p, <3>1, <3>2, <3>3, <3>4 DEF DefaultInv, Syncing
    <2>2. CASE tx.who = "remove" /\ ~Ends
      <3>1. answered /\ restored /\ tx'.at = "unlink"
        BY <1>4, <2>2, AskedTx
      <3>2. ~default'
        BY <1>4, <2>2, <3>1 DEF Restores
      <3> QED
        BY <3>1, <3>2 DEF DefaultInv, Syncing
    <2>3. CASE Ends
      <3>1. default /\ cut # "cut" => file[Handler] = Own
        BY <1>4 DEF DefaultInv
      <3> QED
        BY <1>4, <1>a, <2>3, <3>1, EndsTx
    <2> QED
      BY <2>0, <2>1, <2>2, <2>3
  <1>5. CASE Ask
    <2>1. UNCHANGED <<file, manifest, cut>> /\ tx.at = "ask" /\ Asked(TRUE, TRUE) /\ default' = (default /\ ~Restores(TRUE))
      BY <1>5 DEF Ask, dirs, record
    <2> QED
      BY <1>4, <2>1
  <1>6. CASE AskFails
    <2>1. UNCHANGED <<file, manifest, cut>> /\ tx.at = "ask"
      BY <1>6 DEF AskFails, dirs, record
    <2>2. CASE Asked(FALSE, FALSE) /\ UNCHANGED default
      BY <1>4, <1>d, <2>1, <2>2
    <2>3. CASE Restores(TRUE) /\ default' \in {TRUE, FALSE} /\ Asked(TRUE, FALSE)
      <3>1. default
        BY <2>3 DEF Restores
      <3> QED
        BY <1>4, <2>1, <2>3, <3>1
    <2> QED
      BY <1>6, <2>2, <2>3 DEF AskFails
  <1>7. CASE Plan
    <2>1. /\ UNCHANGED <<file, manifest, default, before, cut>> /\ tx'.set = tx.set /\ tx'.who = tx.who
          /\ tx.at = "plan" /\ tx.who \in {"setup", "refresh"} /\ (tx.who = "refresh" => ~tx.set)
      BY <1>7, PlanTx DEF Plan, dirs, record, config, history, TxInv
    <2>2. Wanted => Handler \in Planned
      BY <2>1 DEF DefaultInv, Planned
    <2>3. CASE Unchanged /\ tx'.at = "clean"
      <3>1. Wanted => Handler \in Owned /\ file[Handler] = Own
        BY <2>2, <2>3 DEF Unchanged
      <3> QED
        BY <1>o, <1>p, <2>1, <2>3, <3>1 DEF DefaultInv, Syncing
    <2>4. CASE tx'.at = "drop" /\ tx'.plan = Planned
      <3>1. cut # "cut" => before.file[Handler] = file[Handler]
        BY <1>t, <2>1 DEF ShapeAt
      <3> QED
        BY <1>o, <1>p, <2>1, <2>2, <2>4, <3>1 DEF DefaultInv, Syncing
    <2> QED
      BY <1>7, <2>3, <2>4, PlanTx
  <1>8. ASSUME NEW r \in Paths, DropEntry(r) PROVE DefaultInv'
    <2>1. /\ UNCHANGED <<manifest, before, cut, default>> /\ tx.at = "drop" /\ tx'.at \in {"drop", "back"}
          /\ tx'.plan = tx.plan /\ tx'.set = tx.set
      BY <1>8, DropTx DEF DropEntry, Step, record, config
    <2> QED
      BY <1>c, <2>1 DEF Syncing
  <1>9. CASE HandBack
    <2>1. /\ UNCHANGED <<manifest, before, cut, default>> /\ tx.at = "back" /\ tx'.at = "drop"
          /\ tx'.plan = tx.plan /\ tx'.set = tx.set
      BY <1>9, HandBackTx DEF HandBack, unwritten, record, config, history
    <2> QED
      BY <1>c, <2>1 DEF Syncing
  <1>10. CASE BeginWrite
    <2>1. /\ UNCHANGED <<manifest, before, cut, default>> /\ tx.at = "drop" /\ tx'.at = "write"
          /\ tx'.plan = tx.plan /\ tx'.set = tx.set /\ tx'.todo = tx.plan
      BY <1>10, BeginWriteTx DEF BeginWrite, Over, unwritten, record, config, history
    <2> QED
      BY <1>c, <2>1 DEF Syncing
  <1>11. ASSUME NEW r \in Paths, WriteEntry(r) PROVE DefaultInv'
    <2>1. /\ UNCHANGED <<manifest, before, cut, default>> /\ tx.at = "write" /\ tx'.cur = r
          /\ tx'.at = (IF IsForeign(r) THEN "shelve" ELSE "put")
          /\ tx'.plan = tx.plan /\ tx'.set = tx.set /\ tx'.todo = tx.todo \ {r}
      BY <1>11, WriteTx DEF WriteEntry, Step, unwritten, record, config, history
    <2>2. CASE r = Handler
      <3>1. ~IsForeign(r)
        BY <2>2 DEF HandlerInv, IsForeign, Foreign, Nothing, Own
      <3>2. tx'.files[Handler] # "absent"
        BY <1>11, <2>2, <3>1, WriteTx
      <3> QED
        BY <1>w, <2>1, <2>2, <3>1, <3>2
    <2>3. CASE r # Handler
      <3>1. tx'.files[Handler] = tx.files[Handler]
        BY <1>0, <1>11, <2>3, WriteTx
      <3>2. file'[Handler] = file[Handler]
        BY <1>0, <1>11, <2>3 DEF WriteEntry, Files
      <3>3. Handler \in tx.plan \ tx.todo => tx.files[Handler] # "absent" /\ file[Handler] = Own
        BY <2>1 DEF DefaultInv
      <3> QED
        BY <1>w, <2>1, <2>3, <3>1, <3>2, <3>3
    <2> QED
      BY <2>2, <2>3
  <1>12. CASE Shelve
    <2>1. PICK r \in Paths : r = tx.cur
      BY <1>0, <1>12 DEF Shelve, TxInv, Txs
    <2>2. /\ UNCHANGED <<manifest, before, cut, default>> /\ tx.at = "shelve" /\ tx'.at = "put" /\ r # Handler
          /\ tx'.plan = tx.plan /\ tx'.set = tx.set /\ tx'.todo = tx.todo
          /\ tx'.files[Handler] = tx.files[Handler]
      BY <1>0, <1>12, <2>1, ShelveTx DEF Shelve, unwritten, record, config, history, HandlerInv
    <2>3. file'[Handler] = file[Handler]
      BY <1>0, <1>12, <2>1, <2>2 DEF Shelve, Files
    <2>4. Handler \in tx.plan \ tx.todo => tx.files[Handler] # "absent" /\ file[Handler] = Own
      BY <2>2 DEF DefaultInv
    <2> QED
      BY <1>w, <2>2, <2>3, <2>4
  <1>13. CASE Put
    <2>1. PICK r \in Paths : r = tx.cur
      BY <1>0, <1>13 DEF Put, TxInv, Txs
    <2>2. /\ UNCHANGED <<manifest, before, cut, default>> /\ tx.at = "put" /\ tx'.at = "write"
          /\ tx'.plan = tx.plan /\ tx'.set = tx.set /\ tx'.todo = tx.todo /\ tx'.files = tx.files
      BY <1>13, PutTx DEF Put, unwritten, record, config, history
    <2>3. file'[Handler] = IF r = Handler THEN Own ELSE file[Handler]
      BY <1>0, <1>13, <2>1 DEF Put, Files
    <2>4. Handler \in tx.plan \ tx.todo =>
            tx.files[Handler] # "absent" /\ (file[Handler] = Own \/ r = Handler)
      BY <2>1, <2>2 DEF DefaultInv
    <2> QED
      BY <1>w, <2>2, <2>3, <2>4
  <1>14. CASE Record
    <2>1. /\ UNCHANGED <<file, default>> /\ manifest' = tx.files /\ tx.at = "write" /\ tx.todo = {}
          /\ tx'.at = "clean" /\ tx'.set = tx.set
      BY <1>14, MovesOnTx DEF Record, Over, Steps, dirs, config
    <2>2. Wanted => tx.files[Handler] # "absent" /\ file[Handler] = Own
      BY <2>1 DEF DefaultInv, Syncing
    <2> QED
      BY <1>p, <2>1, <2>2 DEF DefaultInv, Syncing
  <1>15. CASE Clean
    <2>1. UNCHANGED <<file, default, manifest>> /\ tx.at = "clean"
      BY <1>15 DEF Clean, record, config
    <2>2. Wanted => file[Handler] = Own /\ Handler \in Owned
      BY <2>1 DEF DefaultInv
    <2>3. CASE tx.set /\ tx' = [tx EXCEPT !.at = "default"]
      <3>1. tx'.at = "default" /\ tx'.set = tx.set
        BY <2>3, MovesOnTx DEF Steps
      <3> QED
        BY <1>o, <1>p, <2>1, <2>2, <2>3, <3>1 DEF DefaultInv, Syncing
    <2>4. CASE Ends
      <3>1. tx'.at = "none"
        BY <2>4, EndsTx
      <3> QED
        BY <1>o, <1>p, <2>1, <2>2, <3>1 DEF DefaultInv, Syncing
    <2> QED
      BY <1>15, <2>3, <2>4 DEF Clean
  <1>16. CASE SetDefault \/ SetDefaultFails
    <2>1. UNCHANGED <<file, manifest>> /\ tx.at = "default" /\ tx'.at = "none"
      BY <1>16, EndsTx DEF SetDefault, SetDefaultFails, dirs, record
    <2>2. file[Handler] = Own /\ Handler \in Owned
      BY <2>1 DEF DefaultInv
    <2> QED
      BY <1>o, <1>p, <2>1, <2>2 DEF DefaultInv, Syncing
  <1>17. CASE SyncFails \/ UndoStep
    <2>1. UNCHANGED <<manifest, default, before, cut>> /\ tx'.at = "undo" /\ tx.at \in Syncing \union {"undo"}
      BY <1>17, MovesOnTx DEF SyncFails, UndoStep, Steps, record, config, history, Syncing
    <2> QED
      BY <1>o, <1>p, <2>1 DEF DefaultInv, Syncing
  <1>18. CASE UndoFails
    <2>1. UNCHANGED <<manifest, default>> /\ tx'.at = "undo" /\ cut' = "cut"
      BY <1>18 DEF UndoFails, record, config
    <2> QED
      BY <1>o, <1>p, <2>1 DEF DefaultInv, Syncing
  <1>19. CASE Undone
    <2>1. /\ UNCHANGED <<file, manifest, default, cut>> /\ tx'.at = "none" /\ tx.at = "undo" /\ journal = <<>>
      BY <1>19, EndsTx DEF Undone, dirs, unwritten, record, config
    <2>2. cut # "cut" => file[Handler] = before.file[Handler]
      BY <1>t, <2>1, EmptyDid DEF ShapeAt, Shape
    <2>3. cut # "cut" /\ default => before.file[Handler] = Own
      BY <2>1 DEF DefaultInv
    <2> QED
      BY <1>a, <2>1, <2>2, <2>3
  <1>20. ASSUME NEW r \in Paths, Unlink(r) PROVE DefaultInv'
    <2>1. UNCHANGED default /\ tx.at = "unlink" /\ tx'.at \in {"unlink", "bring"}
      BY <1>20, UnlinkTx DEF Unlink, Step, config
    <2> QED
      BY <2>1 DEF DefaultInv, Syncing
  <1>21. CASE Bring
    <2>1. UNCHANGED default /\ tx.at = "bring" /\ tx'.at = "unlink"
      BY <1>21, MovesOnTx DEF Bring, Steps, config
    <2> QED
      BY <2>1 DEF DefaultInv, Syncing
  <1>22. CASE Forget
    <2>1. UNCHANGED default /\ tx.at = "unlink" /\ tx'.at = "none"
      BY <1>22, EndsTx DEF Forget, Over, config
    <2> QED
      BY <2>1 DEF DefaultInv, Syncing
  <1>23. CASE RemoveFails \/ Killed
    BY <1>23, <1>a, EndsTx DEF RemoveFails, Killed, dirs, record, config
  <1> QED
    BY <1>1, <1>3, <1>5, <1>6, <1>7, <1>8, <1>9, <1>10, <1>11, <1>12, <1>13, <1>14, <1>15,
       <1>16, <1>17, <1>18, <1>19, <1>20, <1>21, <1>22, <1>23 DEF EntriesNext, Transaction
-----------------------------------------------------------------------------
(***************************************************************************)
(* The invariant, and what it says of the properties.                      *)
(***************************************************************************)
EntriesIInv == EntriesTypeOK /\ TxInv /\ JournalInv /\ HandlerInv /\ ShapeInv /\ SettledInv /\ DefaultInv

\* It is so before the first setup, whatever web apps the person has.
LEMMA EntriesInitHolds == EntriesInit => EntriesIInv
  <1> SUFFICES ASSUME EntriesInit PROVE EntriesIInv
    OBVIOUS
  <1>1. /\ tx.at = "none" /\ tx.todo = {} /\ tx.cur = NoPath /\ tx \in Txs
        /\ journal = <<>> /\ default = FALSE
        /\ Handler \in Paths /\ Handler \notin Apps
    BY RestType, EntriesAssumption DEF EntriesInit, Rest, Paths
  <1>2. /\ newest \in [Paths -> {0, 1, MaxInstalls + 1}] /\ file = newest /\ newest[Handler] = 0
        /\ backup = [p \in Paths |-> 0] /\ stage = [p \in Paths |-> 0]
        /\ manifest = AllAbsent
    BY DEF EntriesInit, Nothing
  <1>3. EntriesTypeOK
    <2>1. {0, 1, MaxInstalls + 1} \subseteq Contents /\ {0, 1, MaxInstalls + 1} \subseteq {0} \union Installations
      BY EntriesAssumption DEF Contents, Installations, Nothing
    <2>2. newest \in [Paths -> {0} \union Installations] /\ file \in Files /\ backup \in Files /\ stage \in Files
      BY <1>2, <2>1 DEF Files
    <2>3. before \in [file : Files, backup : Files]
      BY <2>2 DEF EntriesInit
    <2>4. spent \in [Bounds -> Nat]
      BY DEF EntriesInit
    <2>5. journal \in Seq([op : Moves, p : Paths])
      BY <1>1
    <2>6. manifest \in [Paths -> Says] /\ onFile \in BOOLEAN /\ default \in BOOLEAN /\ links \in BOOLEAN
      BY <1>1, <1>2, RestType DEF EntriesInit
    <2>7. listed \in SUBSET Apps /\ raced \in SUBSET Paths /\ deleted \in SUBSET Paths /\ cut \in {"no", "cut", "mended"}
          /\ discarded \in [Paths -> SUBSET Installations]
      BY DEF EntriesInit
    <2> QED
      BY <1>1, <2>2, <2>3, <2>4, <2>5, <2>6, <2>7 DEF EntriesTypeOK
  <1>4. TxInv
    BY <1>1 DEF TxInv, Syncing
  <1>5. JournalInv
    BY <1>1, EmptyDid DEF JournalInv, Syncing
  <1>6. HandlerInv
    BY <1>1, <1>2, EmptyDid DEF HandlerInv, Only, Nothing, EntriesInit
  <1>7. ShapeInv
    BY <1>1 DEF ShapeInv, ShapeAt, Syncing
  <1>8. SettledInv
    <2> SUFFICES ASSUME NEW p \in Paths PROVE SettledAt(p)
      BY DEF SettledInv
    <2>1. file[p] = newest[p] /\ newest[p] # Own /\ backup[p] = 0 /\ manifest[p] = "absent"
      BY <1>2, EntriesAssumption DEF AllAbsent, Own
    <2>2. Is(p, manifest[p])
      BY <2>1 DEF Is, Settled, Nothing, Own
    <2> QED
      BY <1>1, <2>2 DEF SettledAt, Syncing
  <1>9. DefaultInv
    BY <1>1 DEF DefaultInv, Syncing
  <1> QED
    BY <1>3, <1>4, <1>5, <1>6, <1>7, <1>8, <1>9 DEF EntriesIInv

\* Every step of the person, of a transaction and of what fails or kills it keeps it.
LEMMA EntriesInvNext == EntriesIInv /\ [EntriesNext]_evars => EntriesIInv'
  <1> SUFFICES ASSUME EntriesIInv, [EntriesNext]_evars PROVE EntriesIInv'
    OBVIOUS
  <1>1. tx.at \in {"back", "shelve", "put", "bring"} => tx.cur \in Paths
    BY DEF EntriesIInv, EntriesTypeOK, TxInv, Txs, Owned
  <1>2. EntriesTypeOK'
    BY <1>1, EntriesTypeNext DEF EntriesIInv
  <1>3. TxInv' /\ JournalInv' /\ HandlerInv'
    BY TxNext, JournalNext, HandlerNext DEF EntriesIInv
  <1>4. ShapeInv' /\ SettledInv' /\ DefaultInv'
    BY ShapeNext, SettledNext, DefaultNext DEF EntriesIInv
  <1> QED
    BY <1>2, <1>3, <1>4 DEF EntriesIInv

\* The journal and the record are good for undoing and for taking back, at every step.
THEOREM EntriesSafe == EntriesSpec => []EntriesIInv
  BY EntriesInitHolds, EntriesInvNext, PTL DEF EntriesSpec

\* Every variable keeps its type, whatever is cut off.
THEOREM EntriesTypeCorrect == EntriesSpec => []EntriesTypeOK
  <1>1. EntriesIInv => EntriesTypeOK
    BY DEF EntriesIInv
  <1> QED
    BY <1>1, EntriesSafe, PTL

\* An entry that a sync has moved aside is in the backup or the stage, and its copy goes
\* only where it is put back or its path was dropped.
LEMMA NothingGone == EntriesIInv => SyncsDeleteOnlyDropped
  <1> SUFFICES ASSUME EntriesIInv, NEW p \in Apps, newest[p] # 0, Sound(p), ~Lost(p)
               PROVE  newest[p] \in {file[p], backup[p], stage[p]}
    BY DEF SyncsDeleteOnlyDropped, Lost
  <1>0. /\ EntriesTypeOK /\ TxInv /\ JournalInv /\ ShapeInv /\ SettledInv /\ p \in Paths /\ tx.at \in Steps
        /\ Moves = {"wrote", "staged", "aside", "shelved", "home"}
    BY DEF EntriesIInv, Paths, EntriesTypeOK, Txs, Moves
  <1>1. SettledAt(p) /\ ShapeAt(p) /\ newest[p] > 0
    BY <1>0, EntriesAssumption DEF SettledInv, ShapeInv, Sound, Tracked, EntriesTypeOK, Installations
  <1>2. CASE tx.at \in Syncing \union {"undo"}
    <2>1. Was(p, manifest[p]) /\ Shape(p)
      BY <1>1, <1>2 DEF SettledAt, ShapeAt
    <2>2. (Did("home", p) => Did("staged", p)) /\ ~(Did("home", p) /\ Did("wrote", p))
      BY <1>0, OneLater DEF JournalInv, Later
    <2>3. CASE before.file[p] = newest[p]
      <3>1. Foreign(before.file[p]) /\ before.file[p] # Nothing
        BY <1>1, <2>3 DEF Foreign, Nothing
      <3>2. CASE Did("shelved", p)
        BY <2>1, <2>3, <3>2 DEF Shape
      <3>3. CASE ~Did("shelved", p)
        BY <2>1, <2>2, <2>3, <3>1, <3>3 DEF Shape
      <3> QED
        BY <3>2, <3>3
    <2>4. CASE before.file[p] = Own /\ before.backup[p] = newest[p]
      <3>1. ~Did("shelved", p)
        BY <2>1, <2>4 DEF Shape, Foreign, Own
      <3>2. CASE Did("aside", p)
        BY <2>1, <2>4, <3>2 DEF Shape
      <3>3. CASE Did("home", p)
        BY <2>1, <2>2, <2>4, <3>3 DEF Shape
      <3>4. CASE ~Did("aside", p) /\ ~Did("home", p)
        BY <2>1, <2>4, <3>1, <3>4 DEF Shape
      <3> QED
        BY <3>2, <3>3, <3>4
    <2> QED
      BY <2>1, <2>3, <2>4 DEF Was, Settled
  <1>3. CASE tx.at \in {"none", "ask", "plan", "clean", "default"}
    BY <1>1, <1>3 DEF SettledAt, Is, Settled
  <1>4. CASE tx.at = "unlink" \/ (tx.at = "bring" /\ p # tx.cur)
    BY <1>1, <1>4 DEF SettledAt, Is, Settled
  <1>5. CASE tx.at = "bring" /\ p = tx.cur
    <2>1. Settled(p, "absent", IF tx.set THEN backup[p] ELSE Nothing, Nothing)
      BY <1>1, <1>5 DEF SettledAt
    <2>2. newest[p] = IF tx.set THEN backup[p] ELSE Nothing
      BY <2>1 DEF Settled
    <2> QED
      BY <1>1, <2>2 DEF Nothing
  <1>6. tx.at \in Syncing \union {"undo", "none", "ask", "plan", "clean", "default", "unlink", "bring"}
    BY <1>0 DEF Steps, Syncing
  <1> QED
    BY <1>2, <1>3, <1>4, <1>5, <1>6

\* No sync and no rollback deletes a web app, nor another program's entry unless the plan
\* dropped its path, whatever was installed before it.
THEOREM OnlyDroppedDeleted == EntriesSpec => []SyncsDeleteOnlyDropped
  BY EntriesSafe, NothingGone, PTL

\* Between transactions the manifest names the backup of every entry that is out of sight,
\* unless a sync discarded it, and every launcher of the plugin.
THEOREM ManifestTrue == EntriesSpec => []ManifestIsTrue
  <1>1. ASSUME EntriesIInv PROVE ManifestIsTrue
    <2>1. ASSUME Free, NEW p \in Paths, Sound(p) PROVE Is(p, manifest[p])
      BY <1>1, <2>1 DEF EntriesIInv, SettledInv, SettledAt, Free
    <2>2. ShadowedIsRecorded
      BY <2>1 DEF ShadowedIsRecorded, Is, Settled, Lost, Paths
    <2>3. OwnFilesAreRecorded
      BY <2>1 DEF OwnFilesAreRecorded, Is, Settled, Owned
    <2> QED
      BY <2>2, <2>3 DEF ManifestIsTrue
  <1> QED
    BY <1>1, EntriesSafe, PTL

\* Between transactions a default browser that is the plugin has its handler file.
THEOREM DefaultServed == EntriesSpec => []DefaultIsServed
  <1>1. EntriesIInv => DefaultIsServed
    BY DEF EntriesIInv, DefaultInv, DefaultIsServed, Free
  <1> QED
    BY <1>1, EntriesSafe, PTL

\* A rollback that nothing interrupts ends with its journal undone.
LEMMA UndoneOnly ==
  ASSUME EntriesTypeOK, [EntriesNext]_evars, tx.at = "undo", tx'.at = "none", cut' = "no"
  PROVE  Undone
  <1>1. CASE Person \/ UNCHANGED evars
    BY <1>1 DEF Person, Edit, Install, Uninstall, evars
  <1>2. CASE BeginSetup \/ BeginRefresh \/ BeginRemove
    BY <1>2 DEF BeginSetup, BeginRefresh, BeginRemove, Begin, Free
  <1>3. CASE Ask \/ AskFails \/ Plan \/ HandBack \/ BeginWrite \/ Shelve \/ Put \/ Record \/ Clean
    BY <1>3 DEF Ask, AskFails, Plan, HandBack, BeginWrite, Over, Shelve, Put, Record, Clean
  <1>4. CASE SetDefault \/ SetDefaultFails \/ SyncFails \/ Bring \/ Forget \/ RemoveFails
    BY <1>4 DEF SetDefault, SetDefaultFails, SyncFails, Bring, Forget, Over, RemoveFails
  <1>5. CASE UndoStep \/ UndoFails \/ Killed
    BY <1>5 DEF UndoStep, UndoFails, Killed
  <1>6. ASSUME NEW r \in Paths, DropEntry(r) \/ WriteEntry(r) \/ Unlink(r) PROVE FALSE
    BY <1>6 DEF DropEntry, WriteEntry, Unlink, Step
  <1> QED
    BY <1>1, <1>2, <1>3, <1>4, <1>5, <1>6 DEF EntriesNext, Transaction

\* A sync that failed leaves both directories as it found them.
THEOREM NoTrace == EntriesSpec => FailedRunLeavesNoTrace
  <1> DEFINE Kept == \A p \in Paths :
               tx.at = "undo" /\ tx'.at = "none" /\ Sound(p) /\ cut' = "no" =>
                 file'[p] = before.file[p] /\ backup'[p] = before.backup[p]
  <1>1. ASSUME EntriesIInv, [EntriesNext]_evars PROVE Kept
    <2> SUFFICES ASSUME NEW p \in Paths, tx.at = "undo", tx'.at = "none", Sound(p), cut' = "no"
                 PROVE  file'[p] = before.file[p] /\ backup'[p] = before.backup[p]
      OBVIOUS
    <2>1. UNCHANGED <<file, backup>> /\ journal = <<>>
      BY <1>1, UndoneOnly DEF EntriesIInv, Undone, dirs
    <2>2. Shape(p)
      BY <1>1 DEF EntriesIInv, ShapeInv, ShapeAt, Sound, Tracked
    <2> QED
      BY <2>1, <2>2, EmptyDid DEF Shape
  <1> QED
    BY <1>1, EntriesSafe, PTL DEF EntriesSpec, FailedRunLeavesNoTrace

=============================================================================
