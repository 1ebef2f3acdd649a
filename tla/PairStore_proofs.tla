-------------------------- MODULE PairStore_proofs --------------------------
(***************************************************************************)
(* Proofs about PairStore for any number of workers, devices, records and  *)
(* SystemBUIDs, and any path of the configuration directory.               *)
(***************************************************************************)
EXTENDS PairStore, TLAPS

Values == Records \cup Buids \cup Bad
Replacing == {"set", "unlink", "open", "write"}
Preflight == {"check", "session", "remove"}

Types ==
  /\ content \in [Files -> Values]
  /\ thread \in [Threads -> Thread]
  /\ cut \subseteq Threads
  /\ acked \in [Udids -> Records \cup {Missing}]
  /\ lost \subseteq Udids

\* Who works on what: only the main thread replaces a pair record, by a record;
\* a SystemBUID replaces the SystemBUID; a worker looks at a pair record.
Roles ==
  \A t \in Threads :
    /\ t \in cut => thread[t].pc = "write"
    /\ thread[t].pc \in Preflight => thread[t].file \in Udids
    /\ thread[t].pc \in {"idle", "get", "unread"} => thread[t].file = Conf
    /\ thread[t].pc \in Replacing /\ thread[t].file = Conf => thread[t].val \in Buids
    /\ thread[t].pc \in Replacing /\ thread[t].file # Conf
         => t = MainThread /\ thread[t].val \in Records /\ thread[t].pc # "set"

\* While a pair record is being replaced none is reported as saved, and the file
\* that was opened for it keeps its name unless a worker removes it.
SaveUnderWay ==
  LET m == thread[MainThread]
  IN  /\ m.file \in Udids /\ m.pc \in Replacing => acked[m.file] = Missing
      /\ m.pc = "write" /\ m.file \in Udids /\ m.file \notin lost
           => MainThread \notin cut /\ content[m.file] # Missing

Inv == Types /\ Roles /\ SaveUnderWay /\ AckedIsStored

\* Initially there are no files and nothing was reported.
LEMMA InitInv == Init => Inv
BY PairStoreAssumption
DEF Init, Inv, Types, Roles, SaveUnderWay, AckedIsStored, Values, Replacing, Preflight,
    Thread, Idle, AskBuid, Doing, Steps, Files, Threads, Bad

\* A thread of the daemon is the main thread or a worker, which is not it.
LEMMA ThreadFacts ==
  ASSUME Types
  PROVE  /\ MainThread \in Threads /\ MainThread \notin Workers
         /\ \A w \in Workers : w \in Threads
         /\ \A t \in Threads : thread[t] \in Thread
         /\ Conf \in Files /\ Conf \notin Udids
         /\ \A u \in Udids : u \in Files
BY PairStoreAssumption DEF Types, Threads, Files

\* Starting, and reading without effect on files, keeps the invariant.
LEMMA StartKeepsInv ==
  Inv /\ (config_set_config_dir \/ CheckConfigDir \/ Crash) => Inv'
<1> SUFFICES ASSUME Inv, config_set_config_dir \/ CheckConfigDir \/ Crash PROVE Inv'
  OBVIOUS
<1>1. CASE config_set_config_dir \/ CheckConfigDir
  BY <1>1 DEF config_set_config_dir, CheckConfigDir, Inv, Types, Roles, SaveUnderWay,
              AckedIsStored
<1>2. CASE Crash
  BY <1>2, ThreadFacts, PairStoreAssumption, SMTT(30)
  DEF Crash, Inv, Types, Roles, SaveUnderWay, AckedIsStored, Values, Replacing, Preflight,
      Thread, Idle, AskBuid, Doing, Steps, Files, Threads, Bad
<1> QED
  BY <1>1, <1>2

\* Steps that change no file.
Moves(t) ==
  \/ ReadBUID(t) \/ ReadFails(t) \/ config_get_system_buid(t) \/ internal_set_value(t)
  \/ \E u \in Udids : preflight_worker_handle_device_add(t, u)
  \/ config_has_device_record(t) \/ StartSession(t)

\* What such a step may do to the thread that takes it.
Moved(t) ==
  /\ UNCHANGED <<content, cut, acked, lost>>
  /\ thread' \in [Threads -> Thread]
  /\ \A s \in Threads : s # t => thread'[s] = thread[s]
  /\ thread[t].pc # "write" /\ thread'[t].pc # "write"
  /\ thread'[t].pc \in Preflight => thread'[t].file \in Udids
  /\ thread'[t].pc \in {"idle", "get", "unread"} => thread'[t].file = Conf
  /\ thread'[t].pc \in Replacing => thread'[t].file = Conf /\ thread'[t].val \in Buids
  /\ thread'[t].pc \in Replacing \cup {"unread"} => ~Settled \/ ReadFails(t)

\* Each of them does just that.
LEMMA MovesMove == ASSUME Inv, NEW t \in Threads, Moves(t) PROVE Moved(t)
<1> USE PairStoreAssumption, ThreadFacts
    DEF Inv, At, Moved, Goto, Return, Types, Thread, Steps, Idle, AskBuid, Doing, Bad,
        Files, Roles, Replacing, Preflight, Settled, Setting
<1>1. CASE ReadBUID(t)
  BY <1>1 DEF ReadBUID
<1>2. CASE config_get_system_buid(t)
  <2>1. CASE Return(t)
    BY <1>2, <2>1 DEF config_get_system_buid
  <2>2. CASE Generate(t) /\ (content[Conf] \notin Buids \/ thread[t].pc = "unread")
    <3>1. ~Settled
      BY <2>2
    <3> QED BY <1>2, <2>2, <3>1 DEF config_get_system_buid, Generate
  <2> QED BY <1>2, <2>1, <2>2 DEF config_get_system_buid
<1>3. CASE internal_set_value(t)
  BY <1>3 DEF internal_set_value
<1>7. CASE ReadFails(t)
  BY <1>7 DEF ReadFails
<1>4. CASE \E u \in Udids : preflight_worker_handle_device_add(t, u)
  <2> PICK u \in Udids : preflight_worker_handle_device_add(t, u)
    BY <1>4
  <2> QED BY DEF preflight_worker_handle_device_add
<1>5. CASE config_has_device_record(t)
  <2>1. CASE Exists(thread[t].file)
    BY <1>5, <2>1 DEF config_has_device_record
  <2>2. CASE ~Exists(thread[t].file)
    BY <1>5, <2>2 DEF config_has_device_record
  <2> QED BY <2>1, <2>2
<1>6. CASE StartSession(t)
  <2>2. CASE thread' = [thread EXCEPT ![t] = Idle]
    BY <1>6, <2>2 DEF StartSession
  <2>3. CASE thread' = [thread EXCEPT ![t] = AskBuid]
    BY <1>6, <2>3 DEF StartSession
  <2>4. CASE thread' = [thread EXCEPT ![t] =
                       Doing("remove", thread[t].file, Missing)]
    <3>1. thread[t].file \in Udids
      BY <1>6 DEF StartSession
    <3> QED BY <1>6, <2>4, <3>1 DEF StartSession
  <2> QED BY <1>6, <2>2, <2>3, <2>4 DEF StartSession
<1> QED
  BY <1>1, <1>2, <1>3, <1>4, <1>5, <1>6, <1>7 DEF Moves

\* A thread that changes no file keeps the invariant.
LEMMA MovesKeepInv ==
  ASSUME Inv, NEW t \in Threads, Moves(t) PROVE Inv'
<1> USE PairStoreAssumption, ThreadFacts DEF Inv
<1>1. Moved(t)
  BY MovesMove
<1>2. Types' /\ AckedIsStored'
  BY <1>1 DEF Moved, Types, AckedIsStored
<1>3. Roles'
  BY <1>1 DEF Moved, Roles
<1>4. SaveUnderWay'
  BY <1>1 DEF Moved, SaveUnderWay, Replacing
<1> QED
  BY <1>2, <1>3, <1>4

\* So does a save that begins, and a deletion.
LEMMA RequestsKeepInv ==
  ASSUME Inv, NEW u \in Udids,
         DeletePairRecord(u) \/ \E r \in Records : config_set_device_record(u, r)
  PROVE  Inv'
<1> USE PairStoreAssumption, ThreadFacts DEF Inv, At
<1>1. CASE DeletePairRecord(u)
  <2>1. Types' /\ Roles'
    BY <1>1 DEF DeletePairRecord, TryRemove, Remove, Types, Roles, Values, Bad
  <2>2. SaveUnderWay' /\ AckedIsStored'
    BY <1>1 DEF DeletePairRecord, TryRemove, Remove, Types, SaveUnderWay, AckedIsStored,
                Replacing
  <2> QED BY <2>1, <2>2
<1>2. ASSUME NEW r \in Records, config_set_device_record(u, r) PROVE Inv'
  <2>1. Types'
    BY <1>2 DEF config_set_device_record, Doing, Types, Thread, Steps, Files
  <2>2. Roles'
    BY <1>2 DEF config_set_device_record, Doing, Types, Roles, Replacing, Preflight
  <2>3. SaveUnderWay' /\ AckedIsStored'
    BY <1>2 DEF config_set_device_record, Doing, Types, SaveUnderWay, AckedIsStored,
                Replacing
  <2> QED BY <2>1, <2>2, <2>3
<1> QED
  BY <1>1, <1>2

\* Replacing a file keeps the invariant: what is reported as saved has just been
\* written under its name.
LEMMA ReplacingKeepsInv ==
  ASSUME Inv, NEW t \in Threads, Unlink(t) \/ Open(t) \/ Write(t) PROVE Inv'
<1> USE PairStoreAssumption, ThreadFacts DEF Inv, At
<1>1. /\ thread' \in [Threads -> Thread]
      /\ \A s \in Threads : s # t => thread'[s] = thread[s]
      /\ thread[t].pc \in Replacing /\ thread[t].pc # "set"
  BY SMTT(30) DEF Unlink, Open, Write, Goto, Return, Types, Thread, Steps, Idle, Doing, Replacing,
         Files, Bad
<1>2. Roles'
  <2>1. \/ thread'[t] = Idle
        \/ /\ thread'[t].file = thread[t].file /\ thread'[t].val = thread[t].val
           /\ thread'[t].pc \in {"open", "write"}
    BY DEF Unlink, Open, Write, Goto, Return, Types, Thread
  <2>2. \A s \in Threads : s \in cut' => thread'[s].pc = "write"
    BY <1>1 DEF Unlink, Open, Write, TryRemove, Remove, Goto, Return, Types, Thread, Roles
  <2> QED BY <1>1, <2>1, <2>2 DEF Roles, Replacing, Preflight, Idle, Doing
<1>3. CASE Unlink(t)
  <2>1. Types'
    BY <1>1, <1>3 DEF Unlink, TryRemove, Remove, Types, Thread, Values, Bad
  <2>2. SaveUnderWay'
    BY <1>1, <1>3 DEF Unlink, TryRemove, Remove, Goto, Types, Roles, SaveUnderWay,
                      Replacing, Thread
  <2>3. AckedIsStored'
    BY <1>1, <1>3 DEF Unlink, TryRemove, Remove, Types, Roles, SaveUnderWay,
                      AckedIsStored, Thread
  <2> QED BY <1>2, <2>1, <2>2, <2>3
<1>4. CASE Open(t)
  <2>1. Types'
    BY <1>1, <1>4 DEF Open, Types, Thread, Values, Bad
  <2>2. SaveUnderWay'
    BY <1>1, <1>4, SMTT(30) DEF Open, Goto, Return, Types, Roles, SaveUnderWay, Replacing, Thread,
                      Idle, Doing
  <2>3. AckedIsStored'
    BY <1>1, <1>4, SMTT(30) DEF Open, Types, Roles, SaveUnderWay, AckedIsStored, Thread
  <2> QED BY <1>2, <2>1, <2>2, <2>3
<1>5. CASE Write(t)
  <2> PICK v \in {thread[t].val, Torn} :
        /\ content' = [f \in Files |-> IF f = thread[t].file /\ t \notin cut THEN v
                                       ELSE content[f]]
        /\ acked' = [u \in Udids |-> IF u = thread[t].file /\ v # Torn THEN v
                                     ELSE acked[u]]
    BY <1>5 DEF Write
  <2>1. Types'
    BY <1>1, <1>5, SMTT(30) DEF Write, Types, Thread, Roles, Values, Bad
  <2>2. SaveUnderWay'
    <3>1. CASE t = MainThread
      <4>1. thread'[MainThread].pc = "idle"
        BY <1>5, <3>1 DEF Write, Return, Types, Idle, Doing
      <4> QED BY ONLY <4>1, SMTT(30) DEF SaveUnderWay, Replacing
    <3>2. CASE t # MainThread
      <4>1. thread'[MainThread] = thread[MainThread] /\ thread[t].file \notin Udids
        BY <1>1, <3>2, SMTT(30) DEF Roles
      <4>2. /\ \A u \in Udids : acked'[u] = acked[u] /\ content'[u] = content[u]
            /\ lost' = lost /\ cut' \subseteq cut
        BY <1>5, <4>1, SMTT(30) DEF Write, Files
      <4> QED BY <4>1, <4>2, SMTT(30) DEF SaveUnderWay
    <3> QED BY <3>1, <3>2
  <2>3. AckedIsStored'
    BY <1>1, <1>5 DEF Write, Types, Roles, SaveUnderWay, AckedIsStored, Thread
  <2> QED BY <1>2, <2>1, <2>2, <2>3
<1> QED
  BY <1>3, <1>4, <1>5

\* So does the removal of a record by a worker.
LEMMA RemovalKeepsInv ==
  ASSUME Inv, NEW w \in Workers, RemoveInvalid(w) PROVE Inv'
<1> USE PairStoreAssumption, ThreadFacts DEF Inv, At, RemoveInvalid
<1>1. /\ thread' \in [Threads -> Thread]
      /\ \A s \in Threads : s # w => thread'[s] = thread[s]
      /\ thread[w].file \in Udids
      /\ thread'[w].pc = "check" => thread'[w].file = thread[w].file
      /\ thread'[w].pc = "check" \/ (thread'[w].pc = "get" /\ thread'[w].file = Conf)
  <2> USE DEF Types, Thread, Steps, Idle, AskBuid, Doing, Files, Bad, Roles, Preflight
  <2>1. CASE thread' = [thread EXCEPT ![w] = Doing("check", thread[w].file, Missing)]
    BY <2>1
  <2>2. CASE thread' = [thread EXCEPT ![w] = AskBuid]
    BY <2>2
  <2> QED BY <2>1, <2>2
<1>2. Types'
  BY <1>1, SMTT(30) DEF Remove, Exists, Types, Values, Bad
<1>3. Roles'
  <2>1. \A s \in Threads : s \in cut' => thread'[s].pc = "write"
    BY <1>1, SMTT(30) DEF Remove, Roles
  <2> QED BY <1>1, <2>1 DEF Roles, Replacing, Preflight
<1>4. SaveUnderWay'
  BY <1>1 DEF Remove, Exists, Types, SaveUnderWay, Replacing
<1>5. AckedIsStored'
  BY <1>1 DEF Remove, Exists, Types, AckedIsStored
<1> QED
  BY <1>2, <1>3, <1>4, <1>5, SMTT(30)

\* Every step keeps the invariant.
LEMMA NextKeepsInv == Inv /\ [Next]_vars => Inv'
<1> SUFFICES ASSUME Inv, [Next]_vars PROVE Inv'
  OBVIOUS
<1> USE ThreadFacts DEF Inv
<1>1. CASE UNCHANGED vars
  BY <1>1 DEF vars, Types, Roles, SaveUnderWay, AckedIsStored
<1>2. CASE config_set_config_dir \/ CheckConfigDir \/ Crash
  BY <1>2, StartKeepsInv
<1>3. ASSUME NEW t \in Threads, ReadBUID(t) \/ ThreadStep(t) PROVE Inv'
  BY <1>3, MovesKeepInv, ReplacingKeepsInv DEF ThreadStep, Moves
<1>4. ASSUME NEW u \in Udids,
             \/ DeletePairRecord(u)
             \/ \E r \in Records : config_set_device_record(u, r)
             \/ \E w \in Workers : preflight_worker_handle_device_add(w, u)
      PROVE  Inv'
  BY <1>4, RequestsKeepInv, MovesKeepInv DEF Moves
<1>5. ASSUME NEW w \in Workers, WorkerStep(w) PROVE Inv'
  BY <1>5, MovesKeepInv, RemovalKeepsInv DEF WorkerStep, Moves
<1> QED
  BY <1>1, <1>2, <1>3, <1>4, <1>5 DEF Next

\* The inductive invariant holds of every reachable state.
THEOREM Invariant == Spec => []Inv
<1>1. Init => Inv
  BY InitInv
<1>2. Inv /\ [Next]_vars => Inv'
  BY NextKeepsInv
<1> QED
  BY <1>1, <1>2, PTL DEF Spec

\* Every variable keeps its type.
THEOREM TypeCorrect == Spec => []TypeOK
<1> DEFINE Started == phase \in {"options", "main", "run"} /\ level \in 0..Depth
<1>1. Init => Started
  BY SMTT(30) DEF Init
<1>2. Started /\ [Next]_vars => Started'
  <2> SUFFICES ASSUME Started, [Next]_vars PROVE Started'
    OBVIOUS
  <2>1. CASE config_set_config_dir \/ CheckConfigDir \/ Crash
    BY <2>1, PairStoreAssumption
    DEF config_set_config_dir, config_create_config_dir, mkdir_with_parents,
        CheckConfigDir, Crash
  <2>2. CASE UNCHANGED <<phase, level>>
    BY <2>2
  <2> QED
    BY <2>1, <2>2
    DEF Next, vars, ThreadStep, WorkerStep, ReadBUID, ReadFails, config_get_system_buid,
        internal_set_value, Unlink, Open, Write, DeletePairRecord,
        config_set_device_record, preflight_worker_handle_device_add,
        config_has_device_record, StartSession, RemoveInvalid
<1>3. Inv /\ Started => TypeOK
  BY DEF Inv, Types, Values, TypeOK
<1> QED
  BY <1>1, <1>2, <1>3, Invariant, PTL DEF Spec

\* A pair record reported as saved is there and whole until it is saved again,
\* deleted or removed by a worker, whatever crashes or fails.
THEOREM SavedRecordsStay == Spec => []AckedIsStored
BY Invariant, PTL DEF Inv

\* Requests are served only with the whole path of the directory in place.
THEOREM DirectoryInPlace == Spec => []DirWhenRunning
<1>1. Init => DirWhenRunning
  BY SMTT(30) DEF Init, DirWhenRunning
<1>2. DirWhenRunning /\ [Next]_vars => DirWhenRunning'
  <2> SUFFICES ASSUME DirWhenRunning, [Next]_vars PROVE DirWhenRunning'
    OBVIOUS
  <2>1. CASE config_set_config_dir \/ CheckConfigDir \/ Crash
    BY <2>1 DEF config_set_config_dir, CheckConfigDir, Crash, DirWhenRunning
  <2>2. CASE UNCHANGED <<phase, level>>
    BY <2>2, SMTT(30) DEF DirWhenRunning
  <2> QED
    BY <2>1, <2>2, SMTT(30)
    DEF Next, vars, ThreadStep, WorkerStep, ReadBUID, ReadFails, config_get_system_buid,
        internal_set_value, Unlink, Open, Write, DeletePairRecord,
        config_set_device_record, preflight_worker_handle_device_add,
        config_has_device_record, StartSession, RemoveInvalid
<1> QED
  BY <1>1, <1>2, PTL DEF Spec

\* What BuidSettles says of a step.
Stays == \/ Settled' /\ content'[Conf] = content[Conf]
         \/ \E t \in Threads : ReadFails(t)

\* The SystemBUID is left alone by every step once it is settled, unless it is a
\* read that fails.
LEMMA SettledStep ==
  ASSUME Inv, Settled, [Next]_vars
  PROVE  Stays
<1> USE PairStoreAssumption, ThreadFacts DEF Inv, Settled, Setting, At, Stays
<1>1. CASE UNCHANGED vars
  BY <1>1 DEF vars
<1>2. CASE config_set_config_dir \/ CheckConfigDir \/ Crash
  BY <1>2 DEF config_set_config_dir, CheckConfigDir, Crash, Idle, Doing
<1>3. ASSUME NEW t \in Threads, Moves(t)
      PROVE  Stays
  <2>1. Moved(t)
    BY <1>3, MovesMove
  <2> QED BY <2>1 DEF Moved, Replacing
<1>4. ASSUME NEW t \in Threads, Unlink(t) \/ Open(t) \/ Write(t)
      PROVE  Stays
  <2>1. thread[t].file # Conf /\ thread[t].file \in Files
    BY <1>4, SMTT(30) DEF Unlink, Open, Write, Types, Thread
  <2>2. content'[Conf] = content[Conf]
    BY <1>4, <2>1 DEF Unlink, Open, Write, TryRemove, Remove, Types
  <2>3. \A s \in Threads : thread'[s] = thread[s] \/ thread'[s] = Idle
                           \/ thread'[s].file # Conf
    BY <1>4, <2>1 DEF Unlink, Open, Write, Goto, Return, Types, Thread
  <2> QED BY <2>2, <2>3 DEF Idle, Doing
<1>5. ASSUME NEW u \in Udids,
             DeletePairRecord(u) \/ \E r \in Records : config_set_device_record(u, r)
      PROVE  Stays
  BY <1>5 DEF DeletePairRecord, config_set_device_record, Doing, TryRemove, Remove, Types
<1>6. ASSUME NEW w \in Workers, RemoveInvalid(w)
      PROVE  Stays
  <2>1. thread[w].file \in Udids
    BY <1>6 DEF RemoveInvalid, Roles, Preflight
  <2>2. content'[Conf] = content[Conf]
    BY <1>6, <2>1, SMTT(30) DEF RemoveInvalid, Remove, Types
  <2>3. \A s \in Threads : thread'[s] = thread[s] \/ thread'[s].pc \in {"check", "get"}
    BY <1>6 DEF RemoveInvalid, Types, Thread, AskBuid, Doing
  <2> QED BY <2>2, <2>3, SMTT(30)
<1> QED
  BY <1>1, <1>2, <1>3, <1>4, <1>5, <1>6, Zenon DEF Next, ThreadStep, WorkerStep, Moves

\* Once stored with nobody about to store another, the SystemBUID changes only
\* through a call that could not read it.
THEOREM BuidIsStable == Spec => BuidSettles
<1>1. Inv /\ [Next]_vars => [Settled => Stays]_vars
  BY SettledStep
<1> QED
  BY <1>1, Invariant, PTL DEF Spec, BuidSettles, Stays

(***************************************************************************)
(* The retries of preflight.                                               *)
(***************************************************************************)
\* A file that is open for writing has a name as long as nobody removed it.
OpenIsThere == \A t \in Threads : thread[t].pc = "write" /\ t \notin cut
                                    => content[thread[t].file] # Missing

\* What a step does: no file appears but by the open() of one that is replaced,
\* and a retry has removed one.
Appears ==
  /\ \A f \in Files : content[f] = Missing /\ content'[f] # Missing
       => \E t \in Threads : thread[t].pc = "open" /\ thread[t].file = f
  /\ \A w \in Workers : thread[w].pc = "remove" /\ thread'[w].pc = "check"
       => Exists(thread[w].file) /\ content'[thread[w].file] = Missing

\* A step that changes no file.
LEMMA MovesAppear ==
  ASSUME Inv, OpenIsThere, NEW t \in Threads, Moves(t)
  PROVE  OpenIsThere' /\ Appears
<1>1. Moved(t)
  BY MovesMove, SMTT(30)
<1>2. thread[t].pc # "remove"
  BY DEF Moves, At, ReadBUID, ReadFails, config_get_system_buid, internal_set_value,
         preflight_worker_handle_device_add, config_has_device_record, StartSession
<1>3. \A s \in Threads : s # t => thread'[s] = thread[s]
  BY <1>1 DEF Moved
<1>4. OpenIsThere'
  BY <1>1 DEF OpenIsThere, Moved
<1>5. Appears
  BY <1>1, <1>2, <1>3 DEF Appears, Moved, Threads
<1> QED BY <1>4, <1>5

\* A file that is replaced.
LEMMA WritingAppears ==
  ASSUME Inv, OpenIsThere, NEW t \in Threads, Unlink(t) \/ Open(t) \/ Write(t)
  PROVE  OpenIsThere' /\ Appears
<1>0. /\ thread \in [Threads -> Thread] /\ content \in [Files -> Values]
      /\ \A s \in Threads : thread[s].file \in Files /\ thread[s] \in Thread
  BY DEF Inv, Types, Thread
<1>1. \A s \in Threads : thread[s].pc = "remove" => thread'[s] = thread[s]
  BY <1>0 DEF Unlink, Open, Write, At, Goto, Return
<1>a. \A w \in Workers : ~(thread[w].pc = "remove" /\ thread'[w].pc = "check")
  BY <1>1 DEF Threads
<1>2. CASE Unlink(t)
  <2>1. \A s \in Threads : s # t => thread'[s] = thread[s]
    BY <1>0, <1>2 DEF Unlink, Goto
  <2>2. thread'[t].pc = "open"
    BY <1>0, <1>2 DEF Unlink, Goto, Thread
  <2>3. CASE UNCHANGED <<content, cut>>
    BY <1>a, <2>1, <2>2, <2>3 DEF OpenIsThere, Appears
  <2>4. CASE Remove(thread[t].file)
    <3>1. \A f \in Files : content'[f] = IF f = thread[t].file THEN Missing ELSE content[f]
      BY <1>0, <2>4, SMTT(30) DEF Remove
    <3>2. \A s \in Threads : s \in cut' <=> s \in cut \/ (thread[s].pc = "write"
                                                         /\ thread[s].file = thread[t].file)
      BY <2>4 DEF Remove
    <3>3. OpenIsThere'
      BY <1>0, <2>1, <2>2, <3>1, <3>2, SMTT(30) DEF OpenIsThere
    <3> QED BY <1>a, <3>1, <3>3 DEF Appears
  <2> QED BY <1>2, <2>3, <2>4 DEF Unlink, TryRemove
<1>3. CASE Open(t)
  <2>1. \A s \in Threads : s # t => thread'[s] = thread[s]
    BY <1>0, <1>3 DEF Open, Goto, Return
  <2>2. \/ thread'[t].pc = "idle" /\ content' = content
        \/ /\ thread'[t].file = thread[t].file
           /\ \A f \in Files : content'[f] = IF f = thread[t].file THEN Empty ELSE content[f]
    BY <1>0, <1>3, SMTT(30) DEF Open, Goto, Return, Idle, Doing, Thread
  <2>3. thread[t].pc = "open" /\ cut' = cut /\ Empty # Missing
    BY <1>3, PairStoreAssumption DEF Open, At
  <2>4. OpenIsThere'
    BY <1>0, <2>1, <2>2, <2>3 DEF OpenIsThere
  <2>5. \A f \in Files : content[f] = Missing /\ content'[f] # Missing => f = thread[t].file
    BY <2>2
  <2> QED BY <1>a, <2>3, <2>4, <2>5 DEF Appears
<1>4. CASE Write(t)
  <2>1. \A s \in Threads : s # t => thread'[s] = thread[s]
    BY <1>0, <1>4, SMTT(30) DEF Write, Return
  <2>2. thread'[t].pc = "idle"
    BY <1>0, <1>4, SMTT(30) DEF Write, Return, Idle, Doing
  <2>3. thread[t].val # Missing /\ Torn # Missing /\ thread[t].pc = "write"
    BY <1>0, <1>4, PairStoreAssumption, SMTT(30) DEF Write, At, Inv, Roles, Replacing, Bad
  <2>4. PICK v \in {thread[t].val, Torn} :
          content' = [f \in Files |-> IF f = thread[t].file /\ t \notin cut THEN v
                                      ELSE content[f]]
    BY <1>4, Zenon DEF Write
  <2>5. \A f \in Files : content'[f] = content[f] \/ (content'[f] # Missing /\ t \notin cut
                                                      /\ f = thread[t].file)
    BY <2>3, <2>4
  <2>6. cut' = cut \ {t}
    BY <1>4 DEF Write
  <2>7. OpenIsThere'
    BY <1>0, <2>1, <2>2, <2>5, <2>6, SMTT(30) DEF OpenIsThere
  <2>8. \A f \in Files : content[f] = Missing => content'[f] = Missing
    BY <2>3, <2>5 DEF OpenIsThere
  <2> QED BY <1>a, <2>7, <2>8 DEF Appears
<1> QED BY <1>2, <1>3, <1>4

\* A file that is removed, and the start of a save.
LEMMA RemovingAppears ==
  ASSUME Inv, OpenIsThere,
         \/ \E w \in Workers : RemoveInvalid(w)
         \/ \E u \in Udids : DeletePairRecord(u)
         \/ \E u \in Udids, r \in Records : config_set_device_record(u, r)
  PROVE  OpenIsThere' /\ Appears
<1>0. /\ thread \in [Threads -> Thread] /\ content \in [Files -> Values]
      /\ \A s \in Threads : thread[s].file \in Files /\ thread[s] \in Thread
      /\ Udids \subseteq Files /\ MainThread \in Threads /\ Workers \subseteq Threads
      /\ MainThread \notin Workers
  BY PairStoreAssumption DEF Inv, Types, Thread, Files, Threads
<1>1. ASSUME NEW w \in Workers, RemoveInvalid(w) PROVE OpenIsThere' /\ Appears
  <2>1. \A s \in Threads : s # w => thread'[s] = thread[s]
    BY <1>0, <1>1 DEF RemoveInvalid
  <2>2. CASE UNCHANGED <<content, cut>> /\ thread' = [thread EXCEPT ![w] = AskBuid]
    <3>1. thread'[w].pc = "get"
      BY <1>0, <2>2 DEF AskBuid, Doing
    <3> QED BY <1>0, <2>1, <2>2, <3>1 DEF OpenIsThere, Appears
  <2>3. CASE /\ Exists(thread[w].file) /\ Remove(thread[w].file)
             /\ thread' = [thread EXCEPT ![w] = Doing("check", thread[w].file, Missing)]
    <3>1. thread'[w].pc = "check"
      BY <1>0, <2>3 DEF Doing
    <3>2. \A f \in Files : content'[f] = IF f = thread[w].file THEN Missing ELSE content[f]
      BY <1>0, <2>3, SMTT(30) DEF Remove
    <3>3. \A s \in Threads : s \in cut' <=> s \in cut \/ (thread[s].pc = "write"
                                                         /\ thread[s].file = thread[w].file)
      BY <2>3, SMTT(30) DEF Remove
    <3>4. OpenIsThere'
      BY <1>0, <2>1, <3>1, <3>2, <3>3, SMTT(30) DEF OpenIsThere
    <3>5. Appears
      BY <1>0, <1>1, <2>1, <2>3, <3>2, SMTT(30) DEF Appears, RemoveInvalid, At
    <3> QED BY <3>4, <3>5
  <2> QED BY <1>1, <2>2, <2>3 DEF RemoveInvalid
<1>2. ASSUME NEW u \in Udids, DeletePairRecord(u) PROVE OpenIsThere' /\ Appears
  <2>1. thread' = thread
    BY <1>2 DEF DeletePairRecord
  <2>2. CASE UNCHANGED <<content, cut>>
    BY <1>0, <2>1, <2>2 DEF OpenIsThere, Appears
  <2>3. CASE Remove(u)
    <3>1. \A f \in Files : content'[f] = IF f = u THEN Missing ELSE content[f]
      BY <1>0, <2>3 DEF Remove
    <3>2. \A s \in Threads : s \in cut' <=> s \in cut \/ (thread[s].pc = "write"
                                                         /\ thread[s].file = u)
      BY <2>3, SMTT(30) DEF Remove
    <3> QED BY <1>0, <2>1, <3>1, <3>2 DEF OpenIsThere, Appears
  <2> QED BY <1>2, <2>2, <2>3 DEF DeletePairRecord, TryRemove
<1>3. ASSUME NEW u \in Udids, NEW r \in Records, config_set_device_record(u, r)
      PROVE  OpenIsThere' /\ Appears
  <2>1. \A s \in Threads : s # MainThread => thread'[s] = thread[s]
    BY <1>0, <1>3 DEF config_set_device_record
  <2>2. thread'[MainThread].pc = "unlink" /\ content' = content /\ cut' = cut
    BY <1>0, <1>3 DEF config_set_device_record, Doing
  <2> QED BY <1>0, <2>1, <2>2 DEF OpenIsThere, Appears
<1> QED BY <1>1, <1>2, <1>3

\* The preflight of a device tries again only after it has removed a record, and
\* records come back only when they are saved.
THEOREM RetriesRunOut == Spec => RetryUsesUpRecord
<1> DEFINE A ==
      /\ \A w \in Workers : thread[w].pc = "remove" /\ thread'[w].pc = "check"
           => Exists(thread[w].file) /\ content'[thread[w].file] = Missing
      /\ \A u \in Udids : content[u] = Missing /\ content'[u] # Missing
           => thread[MainThread].pc = "open" /\ thread[MainThread].file = u
<1>1. Init => OpenIsThere
  BY DEF Init, OpenIsThere, Idle, Doing
<1>2. ASSUME Inv, OpenIsThere, Next PROVE OpenIsThere' /\ Appears
  <2>1. CASE config_set_config_dir \/ CheckConfigDir
    BY <1>2, <2>1 DEF config_set_config_dir, CheckConfigDir, OpenIsThere, Appears
  <2>2. CASE Crash
    <3>1. content' = content /\ \A t \in Threads : thread'[t].pc = "idle"
      BY <2>2 DEF Crash, Idle, Doing
    <3> QED BY <3>1 DEF OpenIsThere, Appears, Threads
  <2>3. ASSUME NEW t \in Threads, Moves(t) PROVE OpenIsThere' /\ Appears
    BY <1>2, <2>3, MovesAppear
  <2>4. ASSUME NEW t \in Threads, Unlink(t) \/ Open(t) \/ Write(t)
        PROVE  OpenIsThere' /\ Appears
    BY <1>2, <2>4, WritingAppears
  <2>5. CASE \/ \E w \in Workers : RemoveInvalid(w)
             \/ \E u \in Udids : DeletePairRecord(u)
             \/ \E u \in Udids, r \in Records : config_set_device_record(u, r)
    BY <1>2, <2>5, RemovingAppears
  <2> QED
    BY <1>2, <2>1, <2>2, <2>3, <2>4, <2>5 DEF Next, ThreadStep, WorkerStep, Moves, Threads
<1>3. ASSUME OpenIsThere, UNCHANGED vars PROVE OpenIsThere'
  BY <1>3 DEF OpenIsThere, vars
<1>4. ASSUME Inv, Appears PROVE A
  <2>1. ASSUME NEW u \in Udids, content[u] = Missing, content'[u] # Missing
        PROVE  thread[MainThread].pc = "open" /\ thread[MainThread].file = u
    <3>1. u \in Files /\ u # Conf
      BY PairStoreAssumption DEF Files
    <3>2. PICK t \in Threads : thread[t].pc = "open" /\ thread[t].file = u
      BY <1>4, <2>1, <3>1 DEF Appears
    <3>3. t = MainThread
      BY <1>4, <3>1, <3>2, SMTT(30) DEF Inv, Roles, Replacing
    <3> QED BY <3>2, <3>3
  <2> QED BY <1>4, <2>1 DEF Appears
<1>5. Inv /\ OpenIsThere /\ [Next]_vars => OpenIsThere' /\ [A]_vars
  BY <1>2, <1>3, <1>4
<1> HIDE DEF A
<1>6. Spec => [][A]_vars
  BY <1>1, <1>5, Invariant, PTL DEF Spec
<1> QED
  BY <1>6, PTL DEF A, RetryUsesUpRecord

=============================================================================
