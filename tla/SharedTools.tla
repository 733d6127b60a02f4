---------------------------- MODULE SharedTools ----------------------------
(***************************************************************************)
(* The files that the tool servers of one run share                        *)
(* (launchpad-mcp-server-source.ts): the task file and the registry of     *)
(* custom tools behind their directory locks, the skill hub, its proposals *)
(* and its logs behind none.  Each worker's server is a process of its own *)
(* and may die at any point, so a step is one file operation.              *)
(***************************************************************************)
EXTENDS Naturals, FiniteSets

CONSTANTS Procs, NoProc,
          Works,       \* each gives every process the tool calls it makes
          MaxCrashes

Locked == {"task", "tools"}
TaskCalls == {"claim", "submit_plan", "complete", "progress"}
HubCalls  == {"publish", "stage", "finalize", "reject", "log"}
Calls  == TaskCalls \cup HubCalls \cup {"register", "artifact"}
FileOf(call) == IF call = "register" THEN "tools" ELSE "task"

ToolsAssumption == NoProc \notin Procs /\ Works \subseteq [Procs -> SUBSET Calls]

VARIABLES
  call,      \* the call a process is in, or none
  at,        \* where it is in it
  seen,      \* what it read of the file it will replace
  todo,      \* the calls it has not made
  answers,   \* the calls that answered ok, as <<process, call>>
  lock,      \* the directory that stands for each lock, by its maker
  stale,     \* the lock is older than the stale bound
  file,      \* the two locked files: revision, claimant, entries
  log,       \* the wiki's log: the entries in it
  hub,       \* the skill's published version: none, copied, recorded
  proposal,  \* proposal.json: none, staged, accepted, rejected
  impacts,   \* records of skill-impact
  alive,
  robbed     \* history: the files whose lock was removed while a living server held it

vars == <<call, at, seen, todo, answers, lock, stale, file, log, hub, proposal, impacts, alive,
          robbed>>
localVars == <<todo, answers, alive>>
lockVars == <<lock, stale, robbed>>
hubVars == <<log, hub, proposal, impacts>>

Contents == [revision : Nat, status : {"pending", "claimed", "planned", "completed"},
             claimant : Procs \cup {NoProc}, entries : SUBSET (Procs \X Calls)]
NoFile   == [revision |-> 0, status |-> "pending", claimant |-> NoProc, entries |-> {}]

SharedTypeOK ==
  /\ call \in [Procs -> Calls \cup {"none"}]
  /\ at \in [Procs -> {"idle", "lock", "remove", "read", "write", "unlock", "check", "copy",
                       "record", "append", "logged", "publish", "finish"}]
  /\ todo \in [Procs -> SUBSET Calls]
  /\ answers \subseteq Procs \X Calls
  /\ lock \in [Locked -> Procs \cup {NoProc}] /\ stale \in [Locked -> BOOLEAN]
  /\ file \in [Locked -> Contents] /\ seen \in [Procs -> Contents]
  /\ hub \in {"none", "copied", "recorded"}
  /\ proposal \in {"none", "staged", "accepted", "rejected"}
  /\ log \subseteq Procs \X Calls /\ impacts \subseteq Procs \X Calls
  /\ alive \subseteq Procs /\ robbed \subseteq Locked

Init ==
  /\ call = [p \in Procs |-> "none"] /\ at = [p \in Procs |-> "idle"]
  /\ seen = [p \in Procs |-> NoFile] /\ todo \in Works /\ answers = {}
  /\ lock = [f \in Locked |-> NoProc] /\ stale = [f \in Locked |-> FALSE]
  /\ file = [f \in Locked |-> NoFile]
  /\ log = {} /\ hub = "none" /\ proposal = "none" /\ impacts = {}
  /\ alive = Procs /\ robbed = {}

Go(p, place) == at' = [at EXCEPT ![p] = place]
In(p, place) == p \in alive /\ at[p] = place
Return(p, ok) == /\ call' = [call EXCEPT ![p] = "none"] /\ Go(p, "idle")
                 /\ answers' = IF ok THEN answers \cup {<<p, call[p]>>} ELSE answers
                 /\ UNCHANGED <<todo, alive>>

(***************************************************************************)
(* callTool: a process makes one call at a time.                           *)
(***************************************************************************)
FirstStep(c) == CASE c \in TaskCalls \cup {"register"} -> "lock"
                  [] c = "publish" -> "check"
                  [] c = "stage" -> "copy"
                  [] c \in {"finalize", "reject"} -> "read"
                  [] c = "log" -> "append"
                  [] c = "artifact" -> "copy"
Begin(p) ==
  /\ In(p, "idle")
  /\ \E c \in todo[p] :
       /\ call' = [call EXCEPT ![p] = c] /\ Go(p, FirstStep(c))
       /\ todo' = [todo EXCEPT ![p] = @ \ {c}]
  /\ UNCHANGED <<seen, answers, lockVars, file, hubVars, alive>>

(***************************************************************************)
(* withTaskState and withCustomToolRegistryLock.  mkdir is the lock.  A    *)
(* waiter that finds it older than the bound removes it, in two steps: the *)
(* directory it removes need not be the one whose age it read.             *)
(***************************************************************************)
Locks(p) == FileOf(call[p])

MakeLock(p) ==
  /\ In(p, "lock") /\ lock[Locks(p)] = NoProc
  /\ lock' = [lock EXCEPT ![Locks(p)] = p] /\ stale' = [stale EXCEPT ![Locks(p)] = FALSE]
  /\ Go(p, "read")
  /\ UNCHANGED <<call, seen, localVars, file, robbed, hubVars>>

SeeStale(p) ==
  /\ In(p, "lock") /\ lock[Locks(p)] # NoProc /\ stale[Locks(p)]
  /\ Go(p, "remove")
  /\ UNCHANGED <<call, seen, localVars, lockVars, file, hubVars>>

RemoveLock(f) == lock' = [lock EXCEPT ![f] = NoProc] /\ stale' = [stale EXCEPT ![f] = FALSE]

RemoveStale(p) ==
  /\ In(p, "remove")
  /\ RemoveLock(Locks(p))
  /\ robbed' = IF lock[Locks(p)] \in alive THEN robbed \cup {Locks(p)} ELSE robbed
  /\ Go(p, "lock")
  /\ UNCHANGED <<call, seen, localVars, file, hubVars>>

Busy(p) ==
  /\ In(p, "lock") /\ lock[Locks(p)] # NoProc
  /\ Return(p, FALSE)
  /\ UNCHANGED <<seen, lockVars, file, hubVars>>

(***************************************************************************)
(* The mutation of the task file: a claim is refused when another agent    *)
(* holds the task, and a revision that the caller expects must be current  *)
(* (a refusal releases the lock).  A tool name is registered once.         *)
(***************************************************************************)
Refused(p, f) ==
  \/ call[p] = "claim" /\ f.status = "claimed" /\ f.claimant \notin {p, NoProc}
  \/ call[p] = "register" /\ f.claimant # NoProc

Mutated(p, f) ==
  [revision |-> f.revision + 1,
   status   |-> CASE call[p] = "claim" -> "claimed" [] call[p] = "submit_plan" -> "planned"
                  [] call[p] = "complete" -> "completed" [] OTHER -> f.status,
   claimant |-> IF call[p] \in {"claim", "register"} THEN p ELSE f.claimant,
   entries  |-> f.entries \cup {<<p, call[p]>>}]

ReadLocked(p) ==
  /\ In(p, "read") /\ call[p] \notin HubCalls
  /\ seen' = [seen EXCEPT ![p] = file[Locks(p)]]
  /\ Go(p, IF Refused(p, file[Locks(p)]) THEN "unlock" ELSE "write")
  /\ UNCHANGED <<call, localVars, lockVars, file, hubVars>>

WriteFromOutside(p) ==
  /\ In(p, "write")
  /\ file' = [file EXCEPT ![Locks(p)] = Mutated(p, NoFile)]
  /\ answers' = answers \cup {<<p, call[p]>>}
  /\ Go(p, "unlock")
  /\ UNCHANGED <<call, seen, todo, alive, lockVars, hubVars>>

WriteLocked(p) ==
  /\ In(p, "write")
  /\ file' = [file EXCEPT ![Locks(p)] = Mutated(p, seen[p])]
  /\ answers' = answers \cup {<<p, call[p]>>}
  /\ Go(p, "unlock")
  /\ UNCHANGED <<call, seen, todo, alive, lockVars, hubVars>>

Unlock(p) ==
  /\ In(p, "unlock")
  /\ RemoveLock(Locks(p))
  /\ Return(p, FALSE)
  /\ UNCHANGED <<seen, file, robbed, hubVars>>

(***************************************************************************)
(* appendTextAtomic reads the file and replaces it by what it read and one *)
(* more entry: appends of two processes may lose one.                      *)
(***************************************************************************)
ReadLog(p) ==
  /\ In(p, "append")
  /\ seen' = [seen EXCEPT ![p] = [NoFile EXCEPT !.entries = log]]
  /\ Go(p, "logged")
  /\ UNCHANGED <<call, localVars, lockVars, file, hubVars>>

WriteLog(p) ==
  /\ In(p, "logged")
  /\ log' = seen[p].entries \cup {<<p, call[p]>>}
  /\ IF call[p] \in {"log", "stage"} THEN Return(p, TRUE)
     ELSE Go(p, "publish") /\ UNCHANGED <<call, localVars>>
  /\ UNCHANGED <<seen, lockVars, file, hub, proposal, impacts>>

(***************************************************************************)
(* publishValidatedSkillFromPath: an existing version directory refuses,   *)
(* a copy makes it, .launchpad-skill.json makes it known.                  *)
(***************************************************************************)
CheckVersion(p) ==
  /\ \/ In(p, "check")
     \/ In(p, "publish") /\ call[p] = "finalize"
  /\ IF hub # "none" THEN Return(p, FALSE) ELSE Go(p, "copy") /\ UNCHANGED <<call, localVars>>
  /\ UNCHANGED <<seen, lockVars, file, hubVars>>

Copy(p) ==
  /\ In(p, "copy") /\ call[p] \in {"publish", "finalize"}
  /\ hub' = IF hub = "recorded" THEN hub ELSE "copied"
  /\ Go(p, "record")
  /\ UNCHANGED <<call, seen, localVars, lockVars, file, log, proposal, impacts>>

Record(p) ==
  /\ In(p, "record") /\ call[p] \in {"publish", "finalize"}
  /\ hub' = "recorded"
  /\ IF call[p] = "publish" THEN Return(p, TRUE) ELSE Go(p, "finish") /\ UNCHANGED <<call, localVars>>
  /\ UNCHANGED <<seen, lockVars, file, log, proposal, impacts>>

(***************************************************************************)
(* publish_artifact writes the content, then the metadata that lists it.   *)
(***************************************************************************)
CopyArtifact(p) ==
  /\ In(p, "copy") /\ call[p] = "artifact"
  /\ Go(p, "record")
  /\ UNCHANGED <<call, seen, localVars, lockVars, file, hubVars>>

RecordArtifact(p) ==
  /\ In(p, "record") /\ call[p] = "artifact"
  /\ Return(p, TRUE)
  /\ UNCHANGED <<seen, lockVars, file, hubVars>>

(***************************************************************************)
(* stage_skill_proposal snapshots the candidate and writes its record.     *)
(***************************************************************************)
Stage(p) ==
  /\ In(p, "copy") /\ call[p] = "stage"
  /\ proposal' = IF proposal = "none" THEN "staged" ELSE proposal
  /\ Go(p, "append")
  /\ UNCHANGED <<call, seen, localVars, lockVars, file, log, hub, impacts>>

(***************************************************************************)
(* finalize_skill_proposal: the proposal must still be staged; the impact  *)
(* is recorded, an accepted candidate published, and the verdict written.  *)
(***************************************************************************)
ReadProposal(p) ==
  /\ In(p, "read") /\ call[p] \in {"finalize", "reject"}
  /\ IF proposal = "staged"
     THEN impacts' = impacts \cup {<<p, call[p]>>} /\ Go(p, "append") /\ UNCHANGED <<call, localVars>>
     ELSE Return(p, FALSE) /\ UNCHANGED impacts
  /\ UNCHANGED <<seen, lockVars, file, log, hub, proposal>>

Finish(p) ==
  /\ \/ In(p, "finish")
     \/ In(p, "publish") /\ call[p] = "reject"
  /\ proposal' = IF call[p] = "finalize" THEN "accepted" ELSE "rejected"
  /\ Return(p, TRUE)
  /\ UNCHANGED <<seen, lockVars, file, log, hub, impacts>>

(***************************************************************************)
(* A worker's container vanishes; its lock, if it held one, grows old.     *)
(***************************************************************************)
Crash(p) ==
  /\ p \in alive /\ Cardinality(Procs \ alive) < MaxCrashes
  /\ alive' = alive \ {p}
  /\ UNCHANGED <<call, at, seen, todo, answers, lockVars, file, hubVars>>

GrowOld(f) ==
  /\ lock[f] \in Procs \ alive /\ ~stale[f]
  /\ stale' = [stale EXCEPT ![f] = TRUE]
  /\ UNCHANGED <<call, at, seen, localVars, lock, robbed, file, hubVars>>

LockStep(p) == MakeLock(p) \/ SeeStale(p) \/ RemoveStale(p) \/ Busy(p)
               \/ ReadLocked(p) \/ WriteLocked(p) \/ Unlock(p)
HubStep(p)  == ReadLog(p) \/ WriteLog(p) \/ CheckVersion(p) \/ Copy(p) \/ Record(p) \/ Stage(p)
               \/ ReadProposal(p) \/ Finish(p) \/ CopyArtifact(p) \/ RecordArtifact(p)

Next == \/ \E p \in Procs : Begin(p) \/ LockStep(p) \/ HubStep(p) \/ Crash(p)
        \/ \E f \in Locked : GrowOld(f)

Fairness == /\ \A p \in Procs : WF_vars(LockStep(p)) /\ WF_vars(HubStep(p))
            /\ \A f \in Locked : WF_vars(GrowOld(f))

Spec == Init /\ [][Next]_vars /\ Fairness

Done(f) == {a \in answers : a[2] \notin HubCalls \cup {"artifact"} /\ FileOf(a[2]) = f}
Whole(f) == Done(f) \subseteq file[f].entries /\ file[f].revision = Cardinality(file[f].entries)

(***************************************************************************)
(* A file whose lock nobody took from a living server has every call that  *)
(* was answered ok, and its revision counts them all, whatever servers die *)
(* with the lock and however often it is reclaimed.                        *)
(***************************************************************************)
UpdatesAreKept == \A f \in Locked \ robbed : Whole(f)

(***************************************************************************)
(* What the code does not keep ("Serialise read-modify-write on the shared *)
(* task file ... the loser retries rather than clobbering").  Two waiters  *)
(* see one stale lock; the first removes it and makes its own, the second  *)
(* removes that.                                                           *)
(***************************************************************************)
UpdatesAreSerial == \A f \in Locked : Whole(f)
=============================================================================
