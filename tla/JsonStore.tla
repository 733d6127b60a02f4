------------------------------ MODULE JsonStore ------------------------------
(* The database of the launchpad (store.ts): one file, replaced as a whole by  *)
(* every mutation, and its copy in memory.  Mutations wait for each other; a   *)
(* mutation works on a copy of its own, which is checked, written beside the   *)
(* file and renamed over it, and only then shown.  A start first moves the     *)
(* parts of an earlier layout to their places (storage-layout.ts), and brings  *)
(* the records of an earlier version to the present form.                      *)
EXTENDS Naturals, Sequences, SequencesExt

CONSTANTS
    Callers,    \* calls of mutate
    Parts,      \* what the data directory holds, a sequence that starts with "database"
    None,       \* no such file
    Sites       \* the data directory a server finds, the mutations it is to make,
                \* and how many troubles and crashes there are

VARIABLES
    site,
    disk,       \* what is at the old and at the new place of each part
    temp,       \* the file beside the database
    data,       \* the database in memory
    queue,      \* mutations in the order of their calls; the first one is at work
    task,       \* where each mutation is, and its copy of the database
    phase,      \* "start", "create", "created", "serving" or "refused"
    moved,      \* parts that this start has looked at
    order,      \* every mutation called so far, in order
    used        \* troubles and crashes so far

diskVars == <<disk, temp>>
bootVars == <<phase, moved>>
vars == <<site, diskVars, data, queue, task, bootVars, order, used>>

(* A database: its records with their forms, and the mutations made since.   *)
(* A write that is cut off leaves text that is none.                         *)
Torn          == [version |-> 0, records |-> {}, log |-> <<>>]
EmptyDatabase == [version |-> 1, records |-> {}, log |-> <<>>]
Idle == [at |-> "idle", next |-> EmptyDatabase]

(* Forms of a record: "current"; "old", with fields missing, which are filled *)
(* in; "worn", an attempt with an impossible revision or owner, repaired;     *)
(* "broken", a project, a transition, a fence or an outbox that is not one.   *)
(* A list that is none counts as empty, but for the agents.                   *)
Current(r)    == [r EXCEPT !.form = "current"]
Normalized(d) == [d EXCEPT !.records = {Current(r) : r \in d.records}]
Changed(d, c) == [d EXCEPT !.log = Append(@, c)]
Loadable(d)   == d.version = 1 /\ \A r \in d.records : r.form # "broken"

Init ==
    /\ site \in Sites
    /\ disk = site.disk /\ temp = None
    /\ data = EmptyDatabase /\ queue = <<>> /\ task = [c \in Callers |-> Idle]
    /\ phase = "start" /\ moved = 0
    /\ order = <<>> /\ used = [troubles |-> 0, crashes |-> 0]

File == disk["database"].new

Spend(kind) == used[kind] < site[kind] /\ used' = [used EXCEPT ![kind] = @ + 1]

(***************************************************************************)
(* The start.                                                              *)
(***************************************************************************)

(* A part of the earlier layout is moved unless its place is taken. *)
MoveIfTargetMissing ==
    /\ phase = "start" /\ moved < Len(Parts)
    /\ LET part == Parts[moved + 1]
       IN  disk' = IF disk[part].old # None /\ disk[part].new = None
                   THEN [disk EXCEPT ![part] = [old |-> None, new |-> disk[part].old]]
                   ELSE disk
    /\ moved' = moved + 1
    /\ UNCHANGED <<site, temp, data, queue, task, phase, order, used>>

(* A file that cannot be taken for a database stops the start. *)
Initialize ==
    /\ phase = "start" /\ moved = Len(Parts)
    /\ IF File = None THEN phase' = "create" /\ UNCHANGED data
       ELSE IF Loadable(File) THEN phase' = "serving" /\ data' = Normalized(File)
       ELSE phase' = "refused" /\ UNCHANGED data
    /\ UNCHANGED <<site, diskVars, queue, task, moved, order, used>>

(* The first database is written like any other; a failure ends the start. *)
Create ==
    /\ \/ phase = "create" /\ temp' = EmptyDatabase /\ phase' = "created" /\ UNCHANGED disk
       \/ /\ phase = "created" /\ temp' = None /\ phase' = "serving"
          /\ disk' = [disk EXCEPT !["database"].new = temp]
    /\ UNCHANGED <<site, data, queue, task, moved, order, used>>

(***************************************************************************)
(* A mutation.                                                             *)
(***************************************************************************)

Mutate(c) ==
    /\ phase = "serving" /\ c \in site.calls /\ task[c].at = "idle"
    /\ queue' = Append(queue, c) /\ order' = Append(order, c)
    /\ task' = [task EXCEPT ![c].at = "queued"]
    /\ UNCHANGED <<site, diskVars, data, bootVars, used>>

AtWork(c, place) ==
    phase = "serving" /\ queue # <<>> /\ Head(queue) = c /\ task[c].at = place

Ends(c, place) ==
    /\ task' = [task EXCEPT ![c] = [Idle EXCEPT !.at = place]]
    /\ queue' = Tail(queue)

(* Its copy is taken when its turn comes, ... *)
Clone(c) ==
    /\ AtWork(c, "queued")
    /\ task' = [task EXCEPT ![c] = [at |-> "cloned", next |-> data]]
    /\ UNCHANGED <<site, diskVars, data, queue, bootVars, order, used>>

(* ... changed, or not when the mutation throws, and checked: an outbox that *)
(* has grown too large or an entry that is none rejects the mutation.        *)
Apply(c) ==
    /\ AtWork(c, "cloned")
    /\ IF c \in site.throws THEN Ends(c, "failed")
       ELSE /\ task' = [task EXCEPT ![c] = [at |-> "applied", next |-> Changed(@.next, c)]]
            /\ UNCHANGED queue
    /\ UNCHANGED <<site, diskVars, data, bootVars, order, used>>

Write(c) ==
    /\ AtWork(c, "applied")
    /\ \/ /\ temp' = task[c].next /\ task' = [task EXCEPT ![c].at = "written"]
          /\ UNCHANGED <<queue, used>>
       \/ temp' = Torn /\ Ends(c, "failed") /\ Spend("troubles")
    /\ UNCHANGED <<site, disk, data, bootVars, order>>

Rename(c) ==
    /\ AtWork(c, "written")
    /\ \/ /\ disk' = [disk EXCEPT !["database"].new = temp] /\ temp' = None
          /\ task' = [task EXCEPT ![c].at = "renamed"]
          /\ UNCHANGED <<queue, used>>
       \/ Ends(c, "failed") /\ Spend("troubles") /\ UNCHANGED diskVars
    /\ UNCHANGED <<site, data, bootVars, order>>

Show(c) ==
    /\ AtWork(c, "renamed")
    /\ data' = task[c].next /\ Ends(c, "done")
    /\ UNCHANGED <<site, diskVars, bootVars, order, used>>

(* The server dies, in the middle of a write perhaps, and is started again.  *)
Crash ==
    /\ phase # "refused" /\ Spend("crashes")
    /\ phase' = "start" /\ moved' = 0 /\ data' = EmptyDatabase /\ queue' = <<>>
    /\ temp' \in {temp} \cup (IF phase = "create" \/ \E c \in Callers : AtWork(c, "applied")
                              THEN {Torn} ELSE {})
    /\ task' = [c \in Callers |-> IF c \in ToSet(queue) THEN [Idle EXCEPT !.at = "lost"] ELSE task[c]]
    /\ UNCHANGED <<site, disk, order>>

Next ==
    \/ MoveIfTargetMissing \/ Initialize \/ Create \/ Crash
    \/ \E c \in Callers :
         Mutate(c) \/ Clone(c) \/ Apply(c) \/ Write(c) \/ Rename(c) \/ Show(c)

Spec == Init /\ [][Next]_vars

(***************************************************************************)
(* Properties.                                                             *)
(***************************************************************************)

Found(part) == LET d == site.disk[part] IN IF d.new = None THEN d.old ELSE d.new
Names(d) == IF d = None THEN {} ELSE {r.name : r \in d.records}

Records   == [name : STRING, form : {"current", "old", "worn", "broken"}]
Databases == [version : Nat, records : SUBSET Records, log : Seq(Callers)]
Places    == [old : Databases \cup {None}, new : Databases \cup {None}]
Tasks     == [at : {"idle", "queued", "cloned", "applied", "written", "renamed", "done", "failed", "lost"},
              next : Databases]

(* The sites and parts that the constants may give. *)
SiteAssumption ==
    /\ None \notin Databases
    /\ Parts \in Seq(STRING) /\ "database" \in ToSet(Parts)
    /\ \A s \in Sites :
         /\ DOMAIN s.disk = ToSet(Parts)
         /\ s.disk["database"] \in Places
         /\ \A d \in {s.disk["database"].old, s.disk["database"].new} \ {None} : d.log = <<>>

TypeOK ==
    /\ site \in Sites
    /\ DOMAIN disk = ToSet(Parts) /\ disk["database"] \in Places
    /\ temp \in Databases \cup {None} /\ data \in Databases
    /\ queue \in Seq(Callers) /\ task \in [Callers -> Tasks]
    /\ phase \in {"start", "create", "created", "serving", "refused"} /\ moved \in 0..Len(Parts)

(* The elements of s stand in t in the same order. *)
Within(s, t) ==
    \E f \in [1..Len(s) -> 1..Len(t)] :
        /\ \A i, j \in 1..Len(s) : i < j => f[i] < f[j]
        /\ \A i \in 1..Len(s) : s[i] = t[f[i]]

(* What was answered is in the file, whatever has happened since. *)
AnsweredIsKept ==
    \A c \in Callers : task[c].at = "done" => File # None /\ c \in ToSet(File.log)

(* The mutations in the file are those that were answered, and perhaps some    *)
(* that were cut off after their rename; none that failed, in the order of     *)
(* their calls, and each on top of the one before: what is shown lacks at most *)
(* the one that is at work (JsonStore.mutate, persist).                        *)
StoreIsSerial ==
    File # None =>
        LET log == File.log
        IN  /\ AnsweredIsKept
            /\ \A c \in ToSet(log) : task[c].at \in {"renamed", "done", "lost"}
            /\ Within(log, order)
            /\ phase = "serving" =>
                 \/ data.log = log
                 \/ data.log = Front(log) /\ AtWork(Last(log), "renamed")

(* A start serves all that it found, in its present form, or refuses and       *)
(* leaves the file as it is; nothing of the earlier layout stays behind unless *)
(* its place was taken (initialize, normalizeDatabase, migrateServerDataLayout). *)
StartKeepsAll ==
    /\ phase \in {"serving", "refused", "create"} =>
         \A p \in ToSet(Parts) \ {"database"} : disk[p].new = Found(p)
    /\ phase = "serving" =>
         /\ {Names(data), Names(File)} = {Names(Found("database"))}
         /\ \A r \in data.records : r.form = "current"
    /\ phase = "refused" => File = Found("database")

(* No write takes back a mutation or a record that is in the file. *)
FileGrows ==
    File # None => /\ File' # None
                   /\ IsPrefix(File.log, File'.log)
                   /\ Names(File) = Names(File')

FileOnlyGrows == [][FileGrows]_vars
=============================================================================
