----------------------------- MODULE PairStore -----------------------------
(***************************************************************************)
(* The files of conf.c: the SystemBUID and one pair record per device, in  *)
(* the configuration directory.  The main thread serves SavePairRecord,    *)
(* DeletePairRecord and ReadBUID; preflight workers test, use and remove   *)
(* the record of their device and ask for the SystemBUID.  No lock orders  *)
(* them, and a file is replaced in three steps (remove, open, write), so   *)
(* each step is an action.  What is written to a file that was removed     *)
(* while it was open is lost.  The process may crash and be started again  *)
(* between any two steps.                                                  *)
(***************************************************************************)
EXTENDS Integers

CONSTANTS
  MainThread,   \* the thread of main_loop
  Workers,      \* preflight workers, with the callbacks they register
  Udids,        \* devices with pair records
  Conf,         \* the name of the file with the SystemBUID
  Records,      \* contents of a pair record
  Buids,        \* what config_generate_system_buid may come up with
  Depth,        \* components of the path of the configuration directory
  Missing,      \* in place of the content of a file that is not there
  Empty,        \* content of a file opened for writing
  Torn          \* content of a file after a write that failed

Threads == Workers \cup {MainThread}
Files == Udids \cup {Conf}
Bad == {Missing, Empty, Torn}

ASSUME PairStoreAssumption ==
  /\ MainThread \notin Workers
  /\ Conf \notin Udids
  /\ Depth \in Nat \ {0}
  /\ Records \cap Buids = {}
  /\ \A x \in Bad : x \notin Records \cup Buids
  /\ Missing \notin {Empty, Torn}

VARIABLES
  phase,   \* "options", "main" (start up), "run"
  level,   \* how many components of the directory's path exist
  content, \* file -> what is in it
  thread,  \* thread -> where it is, the file it works on, the value it holds
  cut,     \* threads whose open file has been removed
  acked,   \* udid -> record last reported as saved, Missing once another operation began
  lost     \* udids whose record a worker removed since their last save began

vars == <<phase, level, content, thread, cut, acked, lost>>

Steps == {"idle", "get", "unread", "set", "unlink", "open", "write", "check",
          "session", "remove"}

Thread == [pc : Steps, file : Files, val : Records \cup Buids \cup Bad]

Doing(step, f, v) == [pc |-> step, file |-> f, val |-> v]
Idle == Doing("idle", Conf, Missing)
AskBuid == Doing("get", Conf, Missing)

At(t, step) == phase = "run" /\ thread[t].pc = step
Goto(t, step) == thread' = [thread EXCEPT ![t].pc = step]
Return(t) == thread' = [thread EXCEPT ![t] = Idle]
Exists(f) == content[f] # Missing

\* remove(): a thread that has the file open keeps it, without a name.
Remove(f) ==
  /\ content' = [content EXCEPT ![f] = Missing]
  /\ cut' = cut \cup {t \in Threads : thread[t].pc = "write" /\ thread[t].file = f}

\* It may fail with the file there.
TryRemove(f) == Remove(f) \/ UNCHANGED <<content, cut>>

Init ==
  /\ phase = "options"
  /\ level \in 0..Depth
  /\ content = [f \in Files |-> Missing]
  /\ thread = [t \in Threads |-> Idle]
  /\ cut = {}
  /\ acked = [u \in Udids |-> Missing]
  /\ lost = {}

(***************************************************************************)
(* The configuration directory.                                            *)
(***************************************************************************)
\* mkdir_with_parents for a path of which the first `have` components exist:
\* the first mkdir() that has a parent succeeds and ends the recursion, and so
\* does one that finds its directory there.
mkdir_with_parents(have) == IF have = Depth THEN have ELSE have + 1

\* config_create_config_dir, with every mkdir() allowed or none; 0 is returned
\* in any case, because the recursion ends at a directory that exists.
config_create_config_dir ==
  level' \in IF level = Depth THEN {level} ELSE {level, mkdir_with_parents(level)}

\* Options are read; with a directory among them it is made right away.
config_set_config_dir ==
  /\ phase = "options"
  /\ phase' = "main"
  /\ config_create_config_dir \/ UNCHANGED level
  /\ UNCHANGED <<content, thread, cut, acked, lost>>

\* main() makes the last component of the directory if it is missing, and
\* gives up if that fails.  (In a build with libimobiledevice, as this one is:
\* without it there are no preflight workers either.)
CheckConfigDir ==
  /\ phase = "main"
  /\ level' \in IF level = Depth - 1 THEN {level, Depth} ELSE {level}
  /\ phase' = IF level' = Depth THEN "run" ELSE "options"
  /\ UNCHANGED <<content, thread, cut, acked, lost>>

\* The process dies, and is started again later: the files stay as they are.
Crash ==
  /\ phase = "run"
  /\ phase' = "options"
  /\ thread' = [t \in Threads |-> Idle]
  /\ cut' = {}
  /\ UNCHANGED <<level, content, acked, lost>>

(***************************************************************************)
(* Replacing a file.                                                       *)
(***************************************************************************)
\* remove() of the file that is about to be written; its result is not looked at.
Unlink(t) ==
  /\ At(t, "unlink")
  /\ TryRemove(thread[t].file)
  /\ Goto(t, "open")
  /\ UNCHANGED <<phase, level, acked, lost>>

\* plist_write_to_file opens the file, truncating one that is there.  If it
\* cannot, the caller is told.
Open(t) ==
  /\ At(t, "open")
  /\ \/ Return(t) /\ UNCHANGED content
     \/ /\ content' = [content EXCEPT ![thread[t].file] = Empty]
        /\ Goto(t, "write")
  /\ UNCHANGED <<phase, level, cut, acked, lost>>

WriteUnchecked(t) ==
  /\ At(t, "write")
  /\ \E v \in {thread[t].val, Torn} :
       /\ content' = [f \in Files |-> IF f = thread[t].file /\ t \notin cut THEN v
                                      ELSE content[f]]
       /\ acked' = [u \in Udids |-> IF u = thread[t].file THEN thread[t].val
                                    ELSE acked[u]]
  /\ Return(t)
  /\ cut' = cut \ {t}
  /\ UNCHANGED <<phase, level, lost>>

\* plist_write_to_file writes and closes it: all of it, or not.
Write(t) ==
  /\ At(t, "write")
  /\ \E v \in {thread[t].val, Torn} :
       /\ content' = [f \in Files |-> IF f = thread[t].file /\ t \notin cut THEN v
                                      ELSE content[f]]
       /\ acked' = [u \in Udids |-> IF u = thread[t].file /\ v # Torn THEN v
                                    ELSE acked[u]]
  /\ Return(t)
  /\ cut' = cut \ {t}
  /\ UNCHANGED <<phase, level, lost>>

(***************************************************************************)
(* Pair records, main thread.                                              *)
(***************************************************************************)
\* SavePairRecord with a record that parses; any other is answered EINVAL.
config_set_device_record(u, r) ==
  /\ At(MainThread, "idle")
  /\ thread' = [thread EXCEPT ![MainThread] = Doing("unlink", u, r)]
  /\ acked' = [acked EXCEPT ![u] = Missing]
  /\ lost' = lost \ {u}
  /\ UNCHANGED <<phase, level, content, cut>>

\* DeletePairRecord.
DeletePairRecord(u) ==
  /\ At(MainThread, "idle")
  /\ TryRemove(u)
  /\ acked' = [acked EXCEPT ![u] = Missing]
  /\ UNCHANGED <<phase, level, thread, lost>>

(***************************************************************************)
(* SystemBUID, any thread.                                                 *)
(***************************************************************************)
\* ReadBUID of a client, request_host_buid of a device.
ReadBUID(t) ==
  /\ At(t, "idle")
  /\ Goto(t, "get")
  /\ UNCHANGED <<phase, level, content, cut, acked, lost>>

\* internal_get_value cannot read the file or not parse it, although it is fine
\* (no memory, no file descriptor, an I/O error), which its caller is not told.
ReadFails(t) ==
  /\ At(t, "get")
  /\ Goto(t, "unread")
  /\ UNCHANGED <<phase, level, content, cut, acked, lost>>

Generate(t) == \E b \in Buids : thread' = [thread EXCEPT ![t] = Doing("set", Conf, b)]

AlwaysGenerate(t) ==
  /\ At(t, "get") \/ At(t, "unread")
  /\ Generate(t)
  /\ UNCHANGED <<phase, level, content, cut, acked, lost>>

\* config_get_system_buid returns the one it has read, or generates one.
config_get_system_buid(t) ==
  /\ \/ At(t, "get") /\ content[Conf] \in Buids /\ Return(t)
     \/ At(t, "get") /\ content[Conf] \notin Buids /\ Generate(t)
     \/ At(t, "unread") /\ Generate(t)
  /\ UNCHANGED <<phase, level, content, cut, acked, lost>>

\* internal_set_value reads the file once more and removes it if it could.
internal_set_value(t) ==
  /\ At(t, "set")
  /\ \/ Goto(t, "open")
     \/ content[Conf] \in Buids /\ Goto(t, "unlink")
  /\ UNCHANGED <<phase, level, content, cut, acked, lost>>

(***************************************************************************)
(* Preflight workers.                                                      *)
(***************************************************************************)
\* A worker starts for the device u and finds it in normal mode.
preflight_worker_handle_device_add(w, u) ==
  /\ At(w, "idle")
  /\ thread' = [thread EXCEPT ![w] = Doing("check", u, Missing)]
  /\ UNCHANGED <<phase, level, content, cut, acked, lost>>

\* Without a record the worker goes on to set the UntrustedHostBUID.
config_has_device_record(w) ==
  /\ At(w, "check")
  /\ thread' = [thread EXCEPT ![w] = IF Exists(@.file)
                  THEN Doing("session", @.file, Missing) ELSE AskBuid]
  /\ UNCHANGED <<phase, level, content, cut, acked, lost>>

\* config_device_record_get_host_id, then lockdownd_start_session with what it
\* found: success ends the preflight, an SSL error has the record removed, and
\* any other outcome keeps it.
StartSession(w) ==
  /\ At(w, "session")
  /\ thread' \in {[thread EXCEPT ![w] = Idle],
                  [thread EXCEPT ![w] = AskBuid],
                  [thread EXCEPT ![w] = Doing("remove", @.file, Missing)]}
  /\ UNCHANGED <<phase, level, content, cut, acked, lost>>

RetryWithoutRemoval(w) ==
  /\ At(w, "remove")
  /\ thread' = [thread EXCEPT ![w] = Doing("check", @.file, Missing)]
  /\ UNCHANGED <<phase, level, content, cut, acked, lost>>

\* The record is removed by name; with that done the worker tries again.
RemoveInvalid(w) ==
  /\ At(w, "remove")
  /\ \/ /\ Exists(thread[w].file) /\ Remove(thread[w].file)
        /\ lost' = lost \cup {thread[w].file}
        /\ thread' = [thread EXCEPT ![w] = Doing("check", @.file, Missing)]
     \/ thread' = [thread EXCEPT ![w] = AskBuid] /\ UNCHANGED <<content, cut, lost>>
  /\ UNCHANGED <<phase, level, acked>>

WorkerStep(w) ==
  \/ config_has_device_record(w) \/ StartSession(w) \/ RemoveInvalid(w)

ThreadStep(t) ==
  \/ ReadFails(t) \/ config_get_system_buid(t) \/ internal_set_value(t)
  \/ Unlink(t) \/ Open(t) \/ Write(t)

Next ==
  \/ config_set_config_dir \/ CheckConfigDir \/ Crash
  \/ \E t \in Threads : ReadBUID(t) \/ ThreadStep(t)
  \/ \E u \in Udids :
       \/ DeletePairRecord(u)
       \/ \E r \in Records : config_set_device_record(u, r)
       \/ \E w \in Workers : preflight_worker_handle_device_add(w, u)
  \/ \E w \in Workers : WorkerStep(w)

\* Every thread goes on with what it has begun; lockdownd answers.
Fairness ==
  /\ \A t \in Threads : WF_vars(ThreadStep(t))
  /\ \A w \in Workers : WF_vars(WorkerStep(w))

Spec == Init /\ [][Next]_vars /\ Fairness

(***************************************************************************)
(* Properties.                                                             *)
(***************************************************************************)
\* The types.
TypeOK ==
  /\ phase \in {"options", "main", "run"}
  /\ level \in 0..Depth
  /\ content \in [Files -> Records \cup Buids \cup Bad]
  /\ thread \in [Threads -> Thread]
  /\ cut \subseteq Threads
  /\ acked \in [Udids -> Records \cup {Missing}]
  /\ lost \subseteq Udids

\* Whoever asks for a file finds its directory: requests are served only with
\* all of the path in place, although mkdir_with_parents makes one component
\* per call and config_set_config_dir reports success without it.
DirWhenRunning == phase = "run" => level = Depth

\* A pair record reported as saved is there and whole, through crashes, failed
\* writes of others and whatever the workers read, until another save or a
\* deletion of that record begins or a worker removes it.
\* (config_set_device_record.)
AckedIsStored ==
  \A u \in Udids : acked[u] # Missing /\ u \notin lost => content[u] = acked[u]

\* Threads that may still write a SystemBUID.
Setting(t) ==
  thread[t].file = Conf /\ thread[t].pc \in {"unread", "set", "unlink", "open", "write"}
Settled == content[Conf] \in Buids /\ \A t \in Threads : ~Setting(t)

\* A SystemBUID that is stored while nobody is about to store one changes only
\* through a call that fails to read it, which takes the good file for a missing
\* one and replaces it; nothing else changes it, not a crash, a failed write or
\* a call that overtakes another.  (Until it is so, it may: the first calls
\* replace each other's, and a crash between the open and the write of a
\* replacement has the next call generate one again.)
\* (config_get_system_buid, internal_set_value.)
BuidSettles ==
  [][Settled => \/ Settled' /\ content'[Conf] = content[Conf]
                \/ \E t \in Threads : ReadFails(t)]_vars

\* A worker that removes an invalid record and tries again comes to an end once
\* nobody saves records any more.  (The retry of
\* preflight_worker_handle_device_add.)
Saving == thread[MainThread].file \in Udids
Preflighting(w) == thread[w].pc \in {"check", "session", "remove"}
PreflightEnds ==
  <>[](~Saving) => \A w \in Workers : Preflighting(w) ~> ~Preflighting(w)

\* Why it does: every retry uses up a record, which only a save can bring back,
\* and nothing that is written to a file removed in the meantime does.
RetryUsesUpRecord ==
  [][/\ \A w \in Workers : thread[w].pc = "remove" /\ thread'[w].pc = "check"
          => Exists(thread[w].file) /\ content'[thread[w].file] = Missing
     /\ \A u \in Udids : content[u] = Missing /\ content'[u] # Missing
          => thread[MainThread].pc = "open" /\ thread[MainThread].file = u]_vars

=============================================================================
