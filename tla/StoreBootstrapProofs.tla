------------------------ MODULE StoreBootstrapProofs ------------------------
(***************************************************************************)
(* Proofs about StoreBootstrap, for any number of openers, any list of     *)
(* migrations and any number of failures: what is recorded is installed,   *)
(* and opening implements SchemaHistory.                                   *)
(***************************************************************************)
EXTENDS StoreBootstrap, TLAPS

(***************************************************************************)
(* The strengthening: how much of its batch an opener has installed, and   *)
(* that no opener gets past a version that is not recorded.                *)
(***************************************************************************)
InLoop(p) == pc[p] \in {"checking", "executing", "recording"}

Ahead(p) == pc[p] \in {"closed", "failed", "building", "connected"}

InBatch(p) ==
  /\ Ahead(p) => version[p] = 0 /\ statement[p] = 1
  /\ pc[p] = "checking" => statement[p] = 1
  /\ pc[p] = "executing" => \A k \in 1..(statement[p] - 1) : <<version[p], k>> \in objects
  /\ pc[p] = "recording" => version[p] # 0 /\ Installed(version[p])

Past(p) ==
  InLoop(p) => /\ 1..(version[p] - 1) \subseteq recorded
               /\ version[p] # 0 => Installed(0)
               /\ Backend(config[p]) = "LocalOnly"

Complete(p) ==
  pc[p] = "open" /\ Backend(config[p]) = "LocalOnly"
    => recorded = 1..LastVersion /\ Installed(0)

RecordedInOrder == \A v \in recorded : 1..(v - 1) \subseteq recorded

IInv == /\ TypeOK
        /\ RecordedInstalled
        /\ RecordedInOrder
        /\ \A p \in Opener : InBatch(p) /\ Past(p) /\ Complete(p)

USE LastVersionAssumption, StatementsAssumption, ConfigAssumption, MaxFailuresAssumption

-----------------------------------------------------------------------------
(* Objects are never lost, so what is installed stays installed. *)
LEMMA InstalledStays ==
  ASSUME NEW v, Installed(v), objects \subseteq objects'
  PROVE  Installed(v)'
BY DEF Installed

LEMMA InitEstablishes == Init => IInv
<1> SUFFICES ASSUME Init PROVE IInv
  OBVIOUS
<1> USE DEF Init
<1>1. TypeOK
  BY DEF TypeOK, Started, Version
<1>2. RecordedInstalled /\ RecordedInOrder
  BY DEF RecordedInstalled, RecordedInOrder
<1>3. \A p \in Opener : pc[p] = "closed"
  OBVIOUS
<1>4. \A p \in Opener : InBatch(p) /\ Past(p) /\ Complete(p)
  BY <1>3 DEF InBatch, Past, Complete, InLoop, Ahead
<1> QED
  BY <1>1, <1>2, <1>4 DEF IInv

-----------------------------------------------------------------------------
(* Type correctness *)

LEMMA LeaveTyped ==
  ASSUME TypeOK, NEW p \in Opener, NEW label \in {"closed", "failed"}, Leave(p, label)
  PROVE  /\ pc' \in [Opener -> Started \union {"closed", "failed", "open"}]
         /\ database' \in [Opener -> {"none", "local", "synced"}]
         /\ version' \in [Opener -> Version]
         /\ statement' \in [Opener -> Nat]
         /\ \A q \in Opener : statement'[q] \in 1..Statements[version'[q]]
<1>1. 0 \in Version /\ Statements[0] \in Nat \ {0}
  BY DEF Version
<1>2. /\ pc' \in [Opener -> Started \union {"closed", "failed", "open"}]
      /\ database' \in [Opener -> {"none", "local", "synced"}]
      /\ version' \in [Opener -> Version]
      /\ statement' \in [Opener -> Nat]
  BY <1>1 DEF TypeOK, Leave, Goto
<1>3. ASSUME NEW q \in Opener PROVE statement'[q] \in 1..Statements[version'[q]]
  BY <1>1 DEF TypeOK, Leave
<1> QED
  BY <1>2, <1>3

LEMMA NextMigrationTyped ==
  ASSUME TypeOK, NEW p \in Opener, NextMigration(p)
  PROVE  /\ pc' \in [Opener -> Started \union {"closed", "failed", "open"}]
         /\ version' \in [Opener -> Version]
         /\ statement' \in [Opener -> Nat]
         /\ \A q \in Opener : statement'[q] \in 1..Statements[version'[q]]
<1>1. CASE version[p] = LastVersion
  BY <1>1 DEF TypeOK, NextMigration, Goto, Started
<1>2. CASE version[p] # LastVersion
  <2>1. version[p] + 1 \in Version
    BY <1>2 DEF TypeOK, Version
  <2>2. Statements[version[p] + 1] \in Nat \ {0}
    BY <2>1
  <2>3. /\ pc' \in [Opener -> Started \union {"closed", "failed", "open"}]
        /\ version' \in [Opener -> Version]
        /\ statement' \in [Opener -> Nat]
    BY <1>2, <2>1 DEF TypeOK, NextMigration, Goto, Started
  <2>4. ASSUME NEW q \in Opener PROVE statement'[q] \in 1..Statements[version'[q]]
    BY <1>2, <2>1, <2>2 DEF TypeOK, NextMigration
  <2> QED
    BY <2>3, <2>4
<1> QED
  BY <1>1, <1>2

LEMMA TypePreserved ==
  ASSUME TypeOK, \A p \in Opener : InBatch(p), [Next]_vars
  PROVE  TypeOK'
<1>1. CASE UNCHANGED vars
  BY <1>1 DEF TypeOK, vars, file
<1>2. ASSUME NEW p \in Opener, Start(p) PROVE TypeOK'
  <2>1. /\ UNCHANGED <<objects, recorded, database, version, statement, failures>>
        /\ pc' = [pc EXCEPT ![p] = "building"]
    BY <1>2 DEF Start, Goto, file
  <2>2. config' \in [Opener -> Config] /\ undisturbed' \in [Opener -> BOOLEAN]
    <3>1. config' \in [Opener -> Config]
      BY <1>2 DEF Start, TypeOK
    <3>2. undisturbed' = [q \in Opener |->
            IF q = p THEN \A r \in Opener \ {p} : pc[r] \notin Started
                     ELSE undisturbed[q] /\ pc[q] \notin Started]
      BY <1>2 DEF Start
    <3>3. undisturbed' \in [Opener -> BOOLEAN]
      BY <3>2
    <3> QED
      BY <3>1, <3>3
  <2>3. pc' \in [Opener -> Started \union {"closed", "failed", "open"}]
    BY <2>1 DEF TypeOK, Started
  <2> QED
    BY <2>1, <2>2, <2>3 DEF TypeOK
<1>3. ASSUME NEW p \in Opener, BuildLocal(p) PROVE TypeOK'
  BY <1>3 DEF BuildLocal, TypeOK, Goto, file, Started
<1>4. ASSUME NEW p \in Opener, BuildSynced(p) PROVE TypeOK'
  BY <1>4 DEF BuildSynced, TypeOK, Goto, Started
<1>5. ASSUME NEW p \in Opener, SkipMigrations(p) PROVE TypeOK'
  BY <1>5 DEF SkipMigrations, TypeOK, Goto, file, Started
<1>6. ASSUME NEW p \in Opener, RunMigrations(p) PROVE TypeOK'
  BY <1>6 DEF RunMigrations, TypeOK, Goto, file, Started
<1>7. ASSUME NEW p \in Opener, CheckMigration(p) PROVE TypeOK'
  <2>0. /\ objects' \subseteq Object
        /\ recorded' \subseteq 1..LastVersion
        /\ config' \in [Opener -> Config]
        /\ failures' \in Nat
        /\ undisturbed' \in [Opener -> BOOLEAN]
    BY <1>7 DEF CheckMigration, TypeOK, file
  <2>1. CASE Leave(p, "failed")
    BY <2>0, <2>1, LeaveTyped DEF TypeOK
  <2>2. CASE NextMigration(p) /\ UNCHANGED database
    BY <2>0, <2>2, NextMigrationTyped DEF TypeOK
  <2>3. CASE Goto(p, "executing") /\ UNCHANGED <<version, statement, database>>
    BY <2>0, <2>3 DEF TypeOK, Goto, Started
  <2> QED
    BY <1>7, <2>1, <2>2, <2>3 DEF CheckMigration
<1>8. ASSUME NEW p \in Opener, ExecuteStatement(p) PROVE TypeOK'
  <2>0. /\ recorded' \subseteq 1..LastVersion
        /\ config' \in [Opener -> Config]
        /\ database' \in [Opener -> {"none", "local", "synced"}]
        /\ failures' \in Nat
        /\ undisturbed' \in [Opener -> BOOLEAN]
    BY <1>8 DEF ExecuteStatement, TypeOK
  <2>1. version[p] \in Version /\ statement[p] \in 1..Statements[version[p]]
    BY DEF TypeOK
  <2>2. <<version[p], statement[p]>> \in Object
    BY <2>1 DEF Object
  <2>3. objects' \subseteq Object
    BY <1>8, <2>2 DEF ExecuteStatement, TypeOK
  <2>4. CASE ~LastStatement(p)
    <3>1. Statements[version[p]] \in Nat
      BY <2>1
    <3>2. statement[p] + 1 \in 1..Statements[version[p]]
      BY <2>1, <2>4, <3>1 DEF LastStatement
    <3>3. /\ statement' = [statement EXCEPT ![p] = @ + 1]
          /\ UNCHANGED <<pc, version>>
      BY <1>8, <2>4 DEF ExecuteStatement
    <3>4. statement' \in [Opener -> Nat]
      BY <3>2, <3>3 DEF TypeOK
    <3>5. ASSUME NEW q \in Opener PROVE statement'[q] \in 1..Statements[version'[q]]
      BY <3>2, <3>3 DEF TypeOK
    <3> QED
      BY <2>0, <2>3, <3>3, <3>4, <3>5 DEF TypeOK
  <2>5. CASE NextMigration(p)
    BY <2>0, <2>3, <2>5, NextMigrationTyped DEF TypeOK
  <2>6. CASE Goto(p, "recording") /\ UNCHANGED <<version, statement>>
    BY <2>0, <2>3, <2>6 DEF TypeOK, Goto, Started
  <2> QED
    BY <1>8, <2>4, <2>5, <2>6 DEF ExecuteStatement
<1>9. ASSUME NEW p \in Opener, RecordMigration(p) PROVE TypeOK'
  <2>0. /\ objects' \subseteq Object
        /\ config' \in [Opener -> Config]
        /\ failures' \in Nat
        /\ undisturbed' \in [Opener -> BOOLEAN]
    BY <1>9 DEF RecordMigration, TypeOK
  <2>1. CASE Leave(p, "failed") /\ UNCHANGED recorded
    BY <2>0, <2>1, LeaveTyped DEF TypeOK
  <2>2. CASE /\ recorded' = recorded \union {version[p]}
             /\ NextMigration(p)
             /\ UNCHANGED database
    <3>1. version[p] \in 1..LastVersion
      BY <1>9 DEF RecordMigration, InBatch, TypeOK, Version
    <3> QED
      BY <2>0, <2>2, <3>1, NextMigrationTyped DEF TypeOK
  <2> QED
    BY <1>9, <2>1, <2>2 DEF RecordMigration
<1>10. ASSUME NEW p \in Opener, SyncedBuildFails(p) PROVE TypeOK'
  <2>1. CASE Leave(p, "failed")
    BY <1>10, <2>1, LeaveTyped DEF SyncedBuildFails, TypeOK, file
  <2>2. CASE /\ database' = [database EXCEPT ![p] = "local"]
             /\ Goto(p, "connected")
             /\ UNCHANGED <<version, statement>>
    BY <1>10, <2>2 DEF SyncedBuildFails, TypeOK, Goto, file, Started
  <2> QED
    BY <1>10, <2>1, <2>2 DEF SyncedBuildFails
<1>11. ASSUME NEW p \in Opener, CallFails(p) PROVE TypeOK'
  BY <1>11, LeaveTyped DEF CallFails, TypeOK, file
<1>12. ASSUME NEW p \in Opener, Crash(p) PROVE TypeOK'
  BY <1>12, LeaveTyped DEF Crash, TypeOK, file
<1>13. ASSUME NEW p \in Opener, Close(p) PROVE TypeOK'
  BY <1>13, LeaveTyped DEF Close, TypeOK, file
<1> QED
  BY <1>1, <1>2, <1>3, <1>4, <1>5, <1>6, <1>7, <1>8, <1>9, <1>10, <1>11, <1>12, <1>13
     DEF Next, Open

-----------------------------------------------------------------------------
(* The rest of the strengthening.  Most steps take one opener to a place   *)
(* about which it says nothing, and take nothing from the file.            *)

Elsewhere(p) == \A q \in Opener \ {p} :
  /\ pc'[q] = pc[q]
  /\ version'[q] = version[q]
  /\ statement'[q] = statement[q]
  /\ config'[q] = config[q]

LEMMA OthersKeep ==
  ASSUME IInv, NEW p \in Opener, Elsewhere(p), objects \subseteq objects',
         recorded \subseteq recorded', recorded' \subseteq 1..LastVersion,
         NEW q \in Opener \ {p}
  PROVE  InBatch(q)' /\ Past(q)' /\ Complete(q)'
<1>1. /\ pc'[q] = pc[q]
      /\ version'[q] = version[q]
      /\ statement'[q] = statement[q]
      /\ config'[q] = config[q]
  BY DEF Elsewhere
<1>2. InBatch(q) /\ Past(q) /\ Complete(q)
  BY DEF IInv
<1>3. InBatch(q)'
  BY <1>1, <1>2 DEF InBatch, Installed, Ahead
<1>4. Installed(0) => Installed(0)'
  BY DEF Installed
<1>5. Past(q)'
  BY <1>1, <1>2, <1>4 DEF Past, InLoop
<1>6. Complete(q)'
  BY <1>1, <1>2, <1>4 DEF Complete
<1> QED
  BY <1>3, <1>5, <1>6

(* What is left to show of a step of p that records nothing. *)
LEMMA StepKeeps ==
  ASSUME IInv, TypeOK', NEW p \in Opener, Elsewhere(p),
         objects \subseteq objects', recorded' = recorded,
         InBatch(p)', Past(p)', Complete(p)'
  PROVE  IInv'
<1>1. recorded' \subseteq 1..LastVersion
  BY DEF TypeOK
<1>2. \A q \in Opener : InBatch(q)' /\ Past(q)' /\ Complete(q)'
  BY <1>1, OthersKeep
<1>3. RecordedInstalled'
  BY DEF IInv, RecordedInstalled, Installed
<1>4. RecordedInOrder'
  BY DEF IInv, RecordedInOrder
<1> QED
  BY <1>2, <1>3, <1>4 DEF IInv

(* A step that ends the call, or stays in front of the migrations. *)
LEMMA QuietStep ==
  ASSUME IInv, TypeOK', NEW p \in Opener, Elsewhere(p),
         objects \subseteq objects', recorded' = recorded,
         Ahead(p)', version'[p] = 0, statement'[p] = 1
  PROVE  IInv'
<1>1. InBatch(p)' /\ Past(p)' /\ Complete(p)'
  BY DEF InBatch, Past, Complete, InLoop, Ahead
<1> QED
  BY <1>1, StepKeeps

LEMMA LeaveElsewhere ==
  ASSUME TypeOK, NEW p \in Opener, NEW label \in {"closed", "failed"}, Leave(p, label),
         config' = config
  PROVE  Elsewhere(p) /\ Ahead(p)' /\ version'[p] = 0 /\ statement'[p] = 1
BY DEF TypeOK, Leave, Goto, Elsewhere, Ahead

(* The loop goes on from a version that is recorded, or is 0000. *)
LEMMA NextMigrationKeeps ==
  ASSUME IInv, NEW p \in Opener, InLoop(p), NextMigration(p), config' = config,
         objects \subseteq objects', recorded \subseteq recorded',
         recorded' \subseteq 1..LastVersion,
         IF version[p] = 0 THEN Installed(0)' ELSE version[p] \in recorded'
  PROVE  Elsewhere(p) /\ InBatch(p)' /\ Past(p)' /\ Complete(p)'
<1>1. /\ TypeOK
      /\ Past(p)
  BY DEF IInv
<1>2. version[p] \in 0..LastVersion
  BY <1>1 DEF TypeOK, Version
<1>3. Installed(0)'
  BY <1>1 DEF Past, Installed
<1>4. 1..version[p] \subseteq recorded'
  BY <1>1, <1>2 DEF Past
<1>5. Elsewhere(p)
  BY <1>1 DEF TypeOK, NextMigration, Goto, Elsewhere
<1>6. Backend(config'[p]) = "LocalOnly"
  BY <1>1 DEF Past
<1>7. CASE version[p] = LastVersion
  <2>1. pc'[p] = "open"
    BY <1>1, <1>7 DEF TypeOK, NextMigration, Goto
  <2>2. recorded' = 1..LastVersion
    BY <1>4, <1>7
  <2> QED
    BY <1>3, <1>5, <2>1, <2>2 DEF InBatch, Past, Complete, InLoop, Ahead
<1>8. CASE version[p] # LastVersion
  <2>1. pc'[p] = "checking" /\ version'[p] = version[p] + 1 /\ statement'[p] = 1
    BY <1>1, <1>8 DEF TypeOK, NextMigration, Goto
  <2>2. Past(p)'
    BY <1>2, <1>3, <1>4, <1>6, <2>1 DEF Past
  <2> QED
    BY <1>5, <2>1, <2>2 DEF InBatch, Complete, Ahead
<1> QED
  BY <1>7, <1>8

-----------------------------------------------------------------------------
(* One lemma for each step of the migration loop. *)

LEMMA CheckMigrationKeeps ==
  ASSUME IInv, TypeOK', NEW p \in Opener, CheckMigration(p)
  PROVE  IInv'
<1>1. /\ TypeOK
      /\ Past(p)
      /\ pc[p] = "checking"
      /\ UNCHANGED <<objects, recorded, config>>
  BY DEF IInv, CheckMigration, file
<1>2. CASE Leave(p, "failed")
  BY <1>1, <1>2, LeaveElsewhere, QuietStep
<1>3. CASE ShouldApply(p) /\ Goto(p, "executing") /\ UNCHANGED <<version, statement>>
  <2>1. Elsewhere(p) /\ pc'[p] = "executing"
    BY <1>1, <1>3 DEF TypeOK, Goto, Elsewhere
  <2>2. Past(p)' /\ Complete(p)'
    BY <1>1, <1>3, <2>1 DEF Past, Complete, InLoop, Installed
  <2>3. statement'[p] = 1
    BY <1>1, <1>3 DEF IInv, InBatch
  <2>4. InBatch(p)'
    BY <2>1, <2>3 DEF InBatch, Ahead
  <2> QED
    BY <1>1, <2>1, <2>2, <2>4, StepKeeps
<1>4. CASE ~ShouldApply(p) /\ NextMigration(p)
  <2>1. IF version[p] = 0 THEN Installed(0)' ELSE version[p] \in recorded'
    BY <1>1, <1>4 DEF ShouldApply
  <2>2. recorded' \subseteq 1..LastVersion
    BY DEF TypeOK
  <2>3. Elsewhere(p) /\ InBatch(p)' /\ Past(p)' /\ Complete(p)'
    BY <1>1, <1>4, <2>1, <2>2, NextMigrationKeeps DEF InLoop
  <2> QED
    BY <1>1, <2>3, StepKeeps
<1> QED
  BY <1>2, <1>3, <1>4 DEF CheckMigration

LEMMA ExecuteStatementKeeps ==
  ASSUME IInv, TypeOK', NEW p \in Opener, ExecuteStatement(p)
  PROVE  IInv'
<1>1. /\ TypeOK
      /\ Past(p)
      /\ InBatch(p)
      /\ pc[p] = "executing"
      /\ objects' = objects \union {<<version[p], statement[p]>>}
      /\ UNCHANGED <<recorded, config>>
  BY DEF IInv, ExecuteStatement
<1>2. statement[p] \in 1..Statements[version[p]] /\ Statements[version[p]] \in Nat
  BY <1>1 DEF TypeOK
<1>3. \A k \in 1..statement[p] : <<version[p], k>> \in objects'
  BY <1>1, <1>2 DEF InBatch
<1>4. Installed(0) => Installed(0)'
  BY <1>1 DEF Installed
<1>5. CASE ~LastStatement(p)
  <2>1. /\ statement' = [statement EXCEPT ![p] = @ + 1]
        /\ UNCHANGED <<pc, version>>
    BY <1>5 DEF ExecuteStatement
  <2>2. Elsewhere(p)
    BY <1>1, <2>1 DEF TypeOK, Elsewhere
  <2>3. statement'[p] = statement[p] + 1
    BY <1>1, <2>1 DEF TypeOK
  <2>4. InBatch(p)'
    BY <1>1, <1>2, <1>3, <2>1, <2>3 DEF InBatch, Ahead
  <2>5. Past(p)' /\ Complete(p)'
    BY <1>1, <1>4, <2>1 DEF Past, Complete, InLoop
  <2> QED
    BY <1>1, <2>2, <2>4, <2>5, StepKeeps
<1>6. CASE LastStatement(p)
  <2>1. \A k \in 1..Statements[version[p]] : <<version[p], k>> \in objects'
    BY <1>3, <1>6 DEF LastStatement
  <2>2. CASE version[p] = 0
    <3>1. NextMigration(p)
      BY <1>6, <2>2 DEF ExecuteStatement
    <3>2. Installed(0)'
      BY <2>1, <2>2 DEF Installed
    <3>3. recorded' \subseteq 1..LastVersion
      BY DEF TypeOK
    <3>4. Elsewhere(p) /\ InBatch(p)' /\ Past(p)' /\ Complete(p)'
      BY <1>1, <2>2, <3>1, <3>2, <3>3, NextMigrationKeeps DEF InLoop
    <3> QED
      BY <1>1, <3>4, StepKeeps
  <2>3. CASE version[p] # 0
    <3>1. Goto(p, "recording") /\ UNCHANGED <<version, statement>>
      BY <1>6, <2>3 DEF ExecuteStatement
    <3>2. Elsewhere(p) /\ pc'[p] = "recording"
      BY <1>1, <3>1 DEF TypeOK, Goto, Elsewhere
    <3>3. InBatch(p)'
      BY <2>1, <2>3, <3>1, <3>2 DEF InBatch, Installed, Ahead
    <3>4. Past(p)' /\ Complete(p)'
      BY <1>1, <1>4, <3>1, <3>2 DEF Past, Complete, InLoop
    <3> QED
      BY <1>1, <3>2, <3>3, <3>4, StepKeeps
  <2> QED
    BY <2>2, <2>3
<1> QED
  BY <1>5, <1>6

LEMMA RecordMigrationKeeps ==
  ASSUME IInv, TypeOK', NEW p \in Opener, RecordMigration(p)
  PROVE  IInv'
<1>1. /\ TypeOK
      /\ Past(p)
      /\ InBatch(p)
      /\ pc[p] = "recording"
      /\ UNCHANGED <<objects, config>>
  BY DEF IInv, RecordMigration
<1>2. CASE Leave(p, "failed") /\ UNCHANGED recorded
  BY <1>1, <1>2, LeaveElsewhere, QuietStep
<1>3. CASE recorded' = recorded \union {version[p]} /\ NextMigration(p)
  <2>1. recorded' \subseteq 1..LastVersion
    BY DEF TypeOK
  <2>2. version[p] # 0 /\ Installed(version[p])
    BY <1>1 DEF InBatch
  <2>3. Elsewhere(p) /\ InBatch(p)' /\ Past(p)' /\ Complete(p)'
    BY <1>1, <1>3, <2>1, <2>2, NextMigrationKeeps DEF InLoop
  <2>4. \A q \in Opener : InBatch(q)' /\ Past(q)' /\ Complete(q)'
    BY <1>1, <1>3, <2>1, <2>3, OthersKeep
  <2>5. RecordedInstalled'
    BY <1>1, <1>3, <2>2 DEF IInv, RecordedInstalled, Installed
  <2>6. RecordedInOrder'
    BY <1>1, <1>3 DEF IInv, RecordedInOrder, Past, InLoop
  <2> QED
    BY <2>4, <2>5, <2>6 DEF IInv
<1> QED
  BY <1>2, <1>3 DEF RecordMigration

LEMMA StepPreserves ==
  ASSUME IInv, [Next]_vars
  PROVE  IInv'
<1>0. TypeOK /\ TypeOK' /\ \A p \in Opener : InBatch(p)
  BY TypePreserved DEF IInv
<1>1. CASE UNCHANGED vars
  BY <1>0, <1>1 DEF IInv, vars, file, RecordedInstalled, RecordedInOrder, Installed,
                    InBatch, Past, Complete, InLoop, Ahead
<1>2. ASSUME NEW p \in Opener, Start(p) PROVE IInv'
  <2>1. Elsewhere(p) /\ pc'[p] = "building" /\ UNCHANGED <<file, version, statement>>
    BY <1>0, <1>2 DEF Start, TypeOK, Goto, Elsewhere
  <2>2. Ahead(p)
    BY <1>2 DEF Start, Ahead
  <2> QED
    BY <1>0, <2>1, <2>2, QuietStep DEF file, InBatch, Ahead
<1>3. ASSUME NEW p \in Opener, BuildLocal(p) PROVE IInv'
  <2>1. Elsewhere(p) /\ pc'[p] = "connected" /\ UNCHANGED <<file, version, statement>>
    BY <1>0, <1>3 DEF BuildLocal, TypeOK, Goto, Elsewhere
  <2>2. Ahead(p)
    BY <1>3 DEF BuildLocal, Ahead
  <2> QED
    BY <1>0, <2>1, <2>2, QuietStep DEF file, InBatch, Ahead
<1>4. ASSUME NEW p \in Opener, BuildSynced(p) PROVE IInv'
  <2>1. Elsewhere(p) /\ pc'[p] = "connected" /\ UNCHANGED <<recorded, version, statement>>
    BY <1>0, <1>4 DEF BuildSynced, TypeOK, Goto, Elsewhere
  <2>2. objects \subseteq objects'
    BY <1>0, <1>4 DEF BuildSynced, TypeOK
  <2>3. Ahead(p)
    BY <1>4 DEF BuildSynced, Ahead
  <2> QED
    BY <1>0, <2>1, <2>2, <2>3, QuietStep DEF InBatch, Ahead
<1>5. ASSUME NEW p \in Opener, SkipMigrations(p) PROVE IInv'
  <2>1. Elsewhere(p) /\ pc'[p] = "open" /\ UNCHANGED <<objects, recorded, config>>
    BY <1>0, <1>5 DEF SkipMigrations, TypeOK, Goto, Elsewhere, file
  <2>2. Backend(config'[p]) # "LocalOnly"
    BY <1>5, <2>1 DEF SkipMigrations, ShouldRunLocalMigrations
  <2>3. InBatch(p)' /\ Past(p)' /\ Complete(p)'
    BY <2>1, <2>2 DEF InBatch, Past, Complete, InLoop, Ahead
  <2> QED
    BY <1>0, <2>1, <2>3, StepKeeps
<1>6. ASSUME NEW p \in Opener, RunMigrations(p) PROVE IInv'
  <2>1. /\ Elsewhere(p)
        /\ pc'[p] = "checking"
        /\ UNCHANGED <<objects, recorded, config, version, statement>>
    BY <1>0, <1>6 DEF RunMigrations, TypeOK, Goto, Elsewhere, file
  <2>2. Ahead(p)
    BY <1>6 DEF RunMigrations, Ahead
  <2>3. version[p] = 0 /\ statement[p] = 1
    BY <1>0, <2>2 DEF InBatch
  <2>4. InBatch(p)' /\ Past(p)' /\ Complete(p)'
    BY <1>6, <2>1, <2>3
       DEF RunMigrations, ShouldRunLocalMigrations, InBatch, Past, Complete, InLoop, Ahead
  <2> QED
    BY <1>0, <2>1, <2>4, StepKeeps
<1>7. ASSUME NEW p \in Opener, CheckMigration(p) PROVE IInv'
  BY <1>0, <1>7, CheckMigrationKeeps
<1>8. ASSUME NEW p \in Opener, ExecuteStatement(p) PROVE IInv'
  BY <1>0, <1>8, ExecuteStatementKeeps
<1>9. ASSUME NEW p \in Opener, RecordMigration(p) PROVE IInv'
  BY <1>0, <1>9, RecordMigrationKeeps
<1>10. ASSUME NEW p \in Opener, SyncedBuildFails(p) PROVE IInv'
  <2>1. UNCHANGED <<objects, recorded, config>>
    BY <1>10 DEF SyncedBuildFails, file
  <2>2. CASE Leave(p, "failed")
    BY <1>0, <2>1, <2>2, LeaveElsewhere, QuietStep
  <2>3. CASE Goto(p, "connected") /\ UNCHANGED <<version, statement>>
    <3>1. Elsewhere(p) /\ pc'[p] = "connected"
      BY <1>0, <2>1, <2>3 DEF TypeOK, Goto, Elsewhere
    <3>2. Ahead(p)
      BY <1>10 DEF SyncedBuildFails, Ahead
    <3> QED
      BY <1>0, <2>1, <2>3, <3>1, <3>2, QuietStep DEF InBatch, Ahead
  <2> QED
    BY <1>10, <2>2, <2>3 DEF SyncedBuildFails
<1>11. ASSUME NEW p \in Opener, CallFails(p) PROVE IInv'
  BY <1>0, <1>11, LeaveElsewhere, QuietStep DEF CallFails, file
<1>12. ASSUME NEW p \in Opener, Crash(p) PROVE IInv'
  BY <1>0, <1>12, LeaveElsewhere, QuietStep DEF Crash, file
<1>13. ASSUME NEW p \in Opener, Close(p) PROVE IInv'
  BY <1>0, <1>13, LeaveElsewhere, QuietStep DEF Close, file
<1> QED
  BY <1>1, <1>2, <1>3, <1>4, <1>5, <1>6, <1>7, <1>8, <1>9, <1>10, <1>11, <1>12, <1>13
     DEF Next, Open

-----------------------------------------------------------------------------
(* The strengthening holds throughout, and with it what it implies. *)
THEOREM Bootstrapping == Spec => []IInv
<1>1. IInv /\ [Next]_vars => IInv'
  BY StepPreserves
<1> QED
  BY InitEstablishes, <1>1, PTL DEF Spec

(* A recorded migration is installed in full, for any number of openers,   *)
(* crashes and failures, and whatever the statements of the migrations.    *)
THEOREM RecordedIsInstalled == Spec => [](TypeOK /\ RecordedInstalled)
<1>1. IInv => TypeOK /\ RecordedInstalled
  BY DEF IInv
<1> QED
  BY Bootstrapping, <1>1, PTL

(* A store that was opened local-only has every table, index and trigger.  *)
THEOREM LocalOnlyHasSchema == Spec => []LocalOnlyServesSchema
<1>1. ASSUME IInv PROVE LocalOnlyServesSchema
  <2> SUFFICES ASSUME NEW p \in Opener, pc[p] = "open",
                      Backend(config[p]) = "LocalOnly", NEW v \in Version
               PROVE  Installed(v)
    BY DEF LocalOnlyServesSchema
  <2>1. recorded = 1..LastVersion /\ Installed(0)
    BY <1>1 DEF IInv, Complete
  <2>2. v = 0 \/ v \in recorded
    BY <2>1 DEF Version
  <2> QED
    BY <1>1, <2>1, <2>2 DEF IInv, RecordedInstalled
<1> QED
  BY Bootstrapping, <1>1, PTL

-----------------------------------------------------------------------------
(* Opening implements SchemaHistory. *)

Serving == {p \in Opener : pc[p] = "open" /\ Backend(config[p]) = "LocalOnly"}

(* Every step is a step of one opener, and only one of them records. *)
LEMMA StepOfOne ==
  ASSUME IInv, Next
  PROVE  \E p \in Opener :
           /\ Elsewhere(p)
           /\ \/ recorded' = recorded
              \/ /\ version[p] \in (1..LastVersion) \ recorded
                 /\ 1..(version[p] - 1) \subseteq recorded
                 /\ recorded' = recorded \union {version[p]}
<1>1. PICK p \in Opener : \/ Start(p)
                          \/ Open(p)
                          \/ SyncedBuildFails(p)
                          \/ CallFails(p)
                          \/ Crash(p)
                          \/ Close(p)
  BY DEF Next
<1>2. TypeOK /\ InBatch(p) /\ Past(p)
  BY DEF IInv
<1>3. CASE Start(p) \/ BuildLocal(p) \/ BuildSynced(p) \/ SkipMigrations(p) \/ RunMigrations(p)
  <2>1. Elsewhere(p)
    BY <1>2, <1>3 DEF Start, BuildLocal, BuildSynced, SkipMigrations, RunMigrations,
                      TypeOK, Goto, Elsewhere
  <2>2. recorded' = recorded
    BY <1>3 DEF Start, BuildLocal, BuildSynced, SkipMigrations, RunMigrations, file
  <2> QED
    BY <2>1, <2>2
<1>4. CASE CallFails(p) \/ Crash(p) \/ Close(p)
  <2>1. config' = config /\ recorded' = recorded
    BY <1>4 DEF CallFails, Crash, Close, file
  <2>2. Elsewhere(p)
    BY <1>2, <1>4, <2>1, LeaveElsewhere DEF CallFails, Crash, Close
  <2> QED
    BY <2>1, <2>2
<1>5. CASE SyncedBuildFails(p)
  <2>1. config' = config /\ recorded' = recorded
    BY <1>5 DEF SyncedBuildFails, file
  <2>2. CASE Leave(p, "failed")
    BY <1>2, <2>1, <2>2, LeaveElsewhere
  <2>3. CASE Goto(p, "connected") /\ UNCHANGED <<version, statement>>
    BY <1>2, <2>1, <2>3 DEF TypeOK, Goto, Elsewhere
  <2> QED
    BY <1>5, <2>2, <2>3 DEF SyncedBuildFails
<1>6. CASE CheckMigration(p) \/ ExecuteStatement(p) \/ RecordMigration(p)
  <2>1. config' = config
    BY <1>6 DEF CheckMigration, ExecuteStatement, RecordMigration
  <2>2. Elsewhere(p)
    <3>1. CASE Leave(p, "failed")
      BY <1>2, <2>1, <3>1, LeaveElsewhere
    <3>2. CASE NextMigration(p)
      BY <1>2, <2>1, <3>2 DEF TypeOK, NextMigration, Goto, Elsewhere
    <3>3. CASE (\E label : Goto(p, label)) /\ UNCHANGED <<version, statement>>
      BY <1>2, <2>1, <3>3 DEF TypeOK, Goto, Elsewhere
    <3>4. CASE statement' = [statement EXCEPT ![p] = @ + 1] /\ UNCHANGED <<pc, version>>
      BY <1>2, <2>1, <3>4 DEF TypeOK, Elsewhere
    <3> QED
      BY <1>6, <3>1, <3>2, <3>3, <3>4 DEF CheckMigration, ExecuteStatement, RecordMigration
  <2>3. \/ recorded' = recorded
        \/ /\ version[p] \in (1..LastVersion) \ recorded
           /\ 1..(version[p] - 1) \subseteq recorded
           /\ recorded' = recorded \union {version[p]}
    <3>1. CASE CheckMigration(p) \/ ExecuteStatement(p)
      BY <3>1 DEF CheckMigration, ExecuteStatement, file
    <3>2. CASE RecordMigration(p)
      <4>1. version[p] \in 0..LastVersion /\ version[p] # 0
        BY <1>2, <3>2 DEF RecordMigration, TypeOK, InBatch, Version
      <4>2. 1..(version[p] - 1) \subseteq recorded
        BY <1>2, <3>2 DEF RecordMigration, Past, InLoop
      <4> QED
        BY <3>2, <4>1, <4>2 DEF RecordMigration
    <3> QED
      BY <1>6, <3>1, <3>2
  <2> QED
    BY <2>2, <2>3
<1> QED
  BY <1>1, <1>3, <1>4, <1>5, <1>6 DEF Open

LEMMA StepRefines ==
  ASSUME IInv, IInv', [Next]_vars
  PROVE  [SchemaOf!Next]_<<recorded, Serving>>
<1>1. CASE UNCHANGED vars
  BY <1>1 DEF vars, file, Serving
<1>2. CASE Next
  <2>1. PICK p \in Opener :
          /\ Elsewhere(p)
          /\ \/ recorded' = recorded
             \/ /\ version[p] \in (1..LastVersion) \ recorded
                /\ 1..(version[p] - 1) \subseteq recorded
                /\ recorded' = recorded \union {version[p]}
    BY <1>2, StepOfOne
  <2>2. \A q \in Opener \ {p} : q \in Serving' <=> q \in Serving
    BY <2>1 DEF Elsewhere, Serving
  <2>3. Serving' \subseteq Opener /\ Serving \subseteq Opener
    BY DEF Serving
  <2>4. Serving' \in {Serving, Serving \union {p}, Serving \ {p}}
    BY <2>2, <2>3
  <2>5. \A q \in Serving' : recorded' = 1..LastVersion
    BY DEF IInv, Complete, Serving
  <2>6. CASE recorded' = recorded
    <3>1. CASE Serving' = Serving
      BY <2>6, <3>1
    <3>2. CASE Serving' = Serving \union {p}
      <4>1. SchemaOf!Serve(p)
        BY <2>5, <2>6, <3>2 DEF SchemaOf!Serve, SchemaOf!Served, Serving
      <4> QED
        BY <4>1 DEF SchemaOf!Next
    <3>3. CASE Serving' = Serving \ {p}
      <4>1. SchemaOf!Release(p)
        BY <2>6, <3>3 DEF SchemaOf!Release, Serving
      <4> QED
        BY <4>1 DEF SchemaOf!Next
    <3> QED
      BY <2>4, <3>1, <3>2, <3>3
  <2>7. CASE /\ version[p] \in (1..LastVersion) \ recorded
             /\ 1..(version[p] - 1) \subseteq recorded
             /\ recorded' = recorded \union {version[p]}
    <3>1. Serving' \in {Serving, Serving \union {p}}
      <4>1. SUFFICES ASSUME p \in Serving, p \notin Serving' PROVE FALSE
        BY <2>4
      <4>2. recorded = 1..LastVersion
        BY <4>1 DEF IInv, Complete, Serving
      <4> QED
        BY <2>7, <4>2
    <3>2. SchemaOf!Served
      BY <2>5 DEF SchemaOf!Served, Serving
    <3>3. SchemaOf!Apply(version[p], p)
      BY <2>7, <3>1, <3>2 DEF SchemaOf!Apply, Serving
    <3> QED
      BY <2>7, <3>3 DEF SchemaOf!Next
  <2> QED
    BY <2>1, <2>6, <2>7
<1> QED
  BY <1>1, <1>2

(* Opening the store implements SchemaHistory: migrations are applied in   *)
(* order, each once and for good, and only a full schema is served.        *)
THEOREM OpeningImplementsHistory == Spec => SchemaApplied
<1>1. Init => SchemaOf!Init
  BY DEF Init, SchemaOf!Init
<1>2. IInv /\ IInv' /\ [Next]_vars => [SchemaOf!Next]_<<recorded, Serving>>
  BY StepRefines
<1> QED
  BY <1>1, <1>2, Bootstrapping, PTL DEF Spec, SchemaApplied, SchemaOf!Spec, Serving

-----------------------------------------------------------------------------
(* An opener that nobody disturbs is alone, so the row it is on its way to *)
(* is not there when it looks and not there when it arrives.               *)

Busy(p) == pc[p] \in {"executing", "recording"}

Alone ==
  \A p \in Opener : pc[p] \in Started /\ undisturbed[p] =>
    \A q \in Opener \ {p} : pc[q] \notin Started

NoRowYet ==
  \A p \in Opener : Busy(p) /\ undisturbed[p] /\ version[p] # 0 => version[p] \notin recorded

(* What a step of open, its failure or its end does to the opener. *)
LEMMA StepOfOpener ==
  ASSUME IInv, NEW p \in Opener,
         Open(p) \/ SyncedBuildFails(p) \/ CallFails(p) \/ Crash(p) \/ Close(p)
  PROVE  /\ Elsewhere(p) /\ undisturbed' = undisturbed
         /\ pc'[p] \in Started => pc[p] \in Started
         /\ pc[p] \notin Started => recorded' = recorded
         /\ Busy(p)' =>
              /\ recorded' = recorded
              /\ \/ Busy(p) /\ version'[p] = version[p]
                 \/ version'[p] = 0 \/ version'[p] \notin recorded
<1> USE DEF Busy, Started
<1>1. TypeOK
  BY DEF IInv
<1>2. CASE BuildLocal(p) \/ BuildSynced(p) \/ SkipMigrations(p) \/ RunMigrations(p)
  BY <1>1, <1>2 DEF BuildLocal, BuildSynced, SkipMigrations, RunMigrations,
                    TypeOK, Goto, Elsewhere, file
<1>3. CASE CallFails(p) \/ Crash(p) \/ Close(p)
  <2>1. PICK label \in {"closed", "failed"} : Leave(p, label)
    BY <1>3 DEF CallFails, Crash, Close
  <2>2. config' = config /\ recorded' = recorded /\ undisturbed' = undisturbed
    BY <1>3 DEF CallFails, Crash, Close, file
  <2>3. Elsewhere(p) /\ pc'[p] = label
    BY <1>1, <2>1, <2>2, LeaveElsewhere DEF Leave, Goto, TypeOK
  <2> QED
    BY <2>2, <2>3
<1>4. CASE SyncedBuildFails(p)
  <2>1. /\ config' = config /\ recorded' = recorded /\ undisturbed' = undisturbed
        /\ pc[p] = "building"
    BY <1>4 DEF SyncedBuildFails, file
  <2>2. CASE Leave(p, "failed")
    <3>1. Elsewhere(p) /\ pc'[p] = "failed"
      BY <1>1, <2>1, <2>2, LeaveElsewhere DEF Leave, Goto, TypeOK
    <3> QED
      BY <2>1, <3>1
  <2>3. CASE Goto(p, "connected") /\ UNCHANGED <<version, statement>>
    BY <1>1, <2>1, <2>3 DEF TypeOK, Goto, Elsewhere
  <2> QED
    BY <1>4, <2>2, <2>3 DEF SyncedBuildFails
<1>5. ASSUME NextMigration(p), config' = config, pc[p] \in Started
      PROVE  Elsewhere(p) /\ pc'[p] \in {"open", "checking"}
  BY <1>1, <1>5 DEF TypeOK, NextMigration, Goto, Elsewhere
<1>6. CASE CheckMigration(p)
  <2>1. /\ pc[p] = "checking" /\ config' = config /\ recorded' = recorded
        /\ undisturbed' = undisturbed
    BY <1>6 DEF CheckMigration, file
  <2>2. CASE Leave(p, "failed")
    <3>1. Elsewhere(p) /\ pc'[p] = "failed"
      BY <1>1, <2>1, <2>2, LeaveElsewhere DEF Leave, Goto, TypeOK
    <3> QED
      BY <2>1, <3>1
  <2>3. CASE ShouldApply(p) /\ Goto(p, "executing") /\ UNCHANGED <<version, statement>>
    BY <1>1, <2>1, <2>3 DEF TypeOK, Goto, Elsewhere, ShouldApply
  <2>4. CASE NextMigration(p)
    BY <1>5, <2>1, <2>4
  <2> QED
    BY <1>6, <2>2, <2>3, <2>4 DEF CheckMigration
<1>7. CASE ExecuteStatement(p)
  <2>1. /\ pc[p] = "executing" /\ config' = config /\ recorded' = recorded
        /\ undisturbed' = undisturbed
    BY <1>7 DEF ExecuteStatement
  <2>2. CASE statement' = [statement EXCEPT ![p] = @ + 1] /\ UNCHANGED <<pc, version>>
    BY <1>1, <2>1, <2>2 DEF TypeOK, Elsewhere
  <2>3. CASE NextMigration(p)
    BY <1>5, <2>1, <2>3
  <2>4. CASE Goto(p, "recording") /\ UNCHANGED <<version, statement>>
    BY <1>1, <2>1, <2>4 DEF TypeOK, Goto, Elsewhere
  <2> QED
    BY <1>7, <2>2, <2>3, <2>4 DEF ExecuteStatement
<1>8. CASE RecordMigration(p)
  <2>1. pc[p] = "recording" /\ config' = config /\ undisturbed' = undisturbed
    BY <1>8 DEF RecordMigration
  <2>2. CASE Leave(p, "failed") /\ UNCHANGED recorded
    <3>1. Elsewhere(p) /\ pc'[p] = "failed"
      BY <1>1, <2>1, <2>2, LeaveElsewhere DEF Leave, Goto, TypeOK
    <3> QED
      BY <2>1, <3>1
  <2>3. CASE NextMigration(p)
    BY <1>5, <2>1, <2>3
  <2> QED
    BY <1>8, <2>2, <2>3 DEF RecordMigration
<1> QED
  BY <1>2, <1>3, <1>4, <1>6, <1>7, <1>8 DEF Open

LEMMA AloneKept == IInv /\ Alone /\ NoRowYet /\ [Next]_vars => Alone' /\ NoRowYet'
<1> SUFFICES ASSUME IInv, Alone, NoRowYet, [Next]_vars PROVE Alone' /\ NoRowYet'
  OBVIOUS
<1>1. TypeOK
  BY DEF IInv
<1>2. ASSUME NEW p \in Opener, Start(p) PROVE Alone' /\ NoRowYet'
  <2>1. /\ pc'[p] = "building" /\ \A q \in Opener \ {p} : pc'[q] = pc[q]
        /\ undisturbed'[p] => \A q \in Opener \ {p} : pc[q] \notin Started
        /\ \A q \in Opener \ {p} : undisturbed'[q] => pc[q] \notin Started
        /\ UNCHANGED <<recorded, version>>
    BY <1>1, <1>2 DEF Start, Goto, TypeOK, file
  <2> QED
    BY <2>1 DEF Alone, NoRowYet, Busy, Started
<1>3. ASSUME NEW p \in Opener,
             Open(p) \/ SyncedBuildFails(p) \/ CallFails(p) \/ Crash(p) \/ Close(p)
      PROVE  Alone' /\ NoRowYet'
  <2>1. /\ Elsewhere(p) /\ undisturbed' = undisturbed
        /\ pc'[p] \in Started => pc[p] \in Started
        /\ pc[p] \notin Started => recorded' = recorded
        /\ Busy(p)' =>
             /\ recorded' = recorded
             /\ \/ Busy(p) /\ version'[p] = version[p]
                \/ version'[p] = 0 \/ version'[p] \notin recorded
    BY <1>3, StepOfOpener
  <2>2. \A q \in Opener : pc'[q] \in Started => pc[q] \in Started
    BY <2>1 DEF Elsewhere
  <2>3. Alone'
    BY <2>1, <2>2 DEF Alone
  <2> SUFFICES ASSUME NEW q \in Opener, Busy(q)', undisturbed[q], version'[q] # 0
               PROVE  version'[q] \notin recorded'
    BY <2>1, <2>3 DEF NoRowYet
  <2>4. CASE q = p
    BY <2>1, <2>4 DEF NoRowYet
  <2>5. CASE q # p
    <3>1. pc'[q] = pc[q] /\ version'[q] = version[q]
      BY <2>1, <2>5 DEF Elsewhere
    <3>2. Busy(q) /\ pc[q] \in Started
      BY <3>1 DEF Busy, Started
    <3>3. recorded' = recorded
      BY <2>1, <2>5, <3>2 DEF Alone
    <3> QED
      BY <3>1, <3>2, <3>3 DEF NoRowYet
  <2> QED
    BY <2>4, <2>5
<1>4. CASE UNCHANGED vars
  BY <1>4 DEF vars, file, Alone, NoRowYet, Busy
<1> QED
  BY <1>2, <1>3, <1>4 DEF Next

(* Every step of the protocol keeps its variables in their types, and the  *)
(* statement an opener is at inside the batch of its migration.            *)
THEOREM OpeningTyped == Spec => []TypeOK
<1>1. IInv => TypeOK
  BY DEF IInv
<1> QED
  BY Bootstrapping, <1>1, PTL

(* Only a race makes recording fail, for any number of openers, crashes    *)
(* and failures and whatever earlier attempts left behind.                 *)
THEOREM OnlyRacesConflict == Spec => []RetryMeetsNoConflict
<1>1. Init => Alone /\ NoRowYet
  BY DEF Init, Alone, NoRowYet, Busy
<1>2. IInv /\ Alone /\ NoRowYet /\ [Next]_vars => Alone' /\ NoRowYet'
  BY AloneKept
<1>3. IInv /\ NoRowYet => RetryMeetsNoConflict
  BY DEF IInv, InBatch, NoRowYet, RetryMeetsNoConflict, Busy
<1> QED
  BY Bootstrapping, <1>1, <1>2, <1>3, PTL DEF Spec
=============================================================================
