---------------------------- MODULE ProjectCatalog ----------------------------
(* The projects of the launchpad (project-registry.ts): managed ones with a    *)
(* repository of the launchpad's own making (project-repository-manager.ts),   *)
(* and opened ones that point at somebody's checkout; their chats, deleted     *)
(* with them (agent-service.ts); and the chats of old that a start moves into  *)
(* projects (project-migration.ts).  Calls of all these overlap.               *)
EXTENDS Naturals, FiniteSetsExt

CONSTANTS
    Creates,    \* calls of createManaged: each names its project
    Opens,      \* calls of openExternal, likewise
    Deletes,    \* calls of deleteProject
    Chats,
    Slugs,      \* directories of managed repositories, in the order they are tried
    Source,     \* somebody's checkout
    Nowhere,    \* no place: no such project
    NoProject,
    Setups      \* which calls there are, and how many troubles and crashes

VARIABLES
    setup,
    projects,   \* where each project's repository is: the records in the store
    chats,      \* each chat: whether it exists, is busy, and its project
    dirs,       \* whose repository is in each directory, and how much of it
    clean,      \* the checkout is clean
    call,       \* where each call is, for which project and directory
    up,         \* "starting" or "serving"
    legacy,     \* chats that the start has still to look at
    moving,     \* where it is with the first of them
    stale,      \* projects whose repository was taken for another's when removed
    killed,     \* chats that were busy when a deletion reached them
    spent       \* troubles and crashes so far

storeVars == <<projects, chats>>
startVars == <<up, legacy, moving>>
history   == <<stale, killed>>
vars == <<setup, storeVars, dirs, clean, call, startVars, history, spent>>

Ids   == Creates \cup Opens \cup Chats
Calls == Creates \cup Opens \cup Deletes \cup Chats

NoChat == [there |-> FALSE, busy |-> FALSE, project |-> NoProject]
Empty  == [of |-> NoProject, body |-> "none"]
Idle   == [at |-> "idle", of |-> NoProject, slug |-> Nowhere, seen |-> NoProject, todo |-> {}]

(* A server with the chats of an earlier version, none of them in a project. *)
Init ==
    /\ setup \in Setups
    /\ projects = [p \in Ids |-> Nowhere]
    /\ chats = [k \in Chats |-> IF k \in setup.legacy THEN [NoChat EXCEPT !.there = TRUE] ELSE NoChat]
    /\ dirs = [s \in Slugs |-> Empty] /\ clean = TRUE
    /\ call = [c \in Calls |-> Idle]
    /\ up = "starting" /\ legacy = setup.legacy /\ moving = "look"
    /\ stale = {} /\ killed = {}
    /\ spent = [troubles |-> 0, crashes |-> 0]

Spend(kind) == spent[kind] < setup[kind] /\ spent' = [spent EXCEPT ![kind] = @ + 1]
Trouble == Spend("troubles")

At(c, place) == up = "serving" /\ call[c].at = place
Goes(c, place) == call' = [call EXCEPT ![c].at = place]

(* Any call of git, of the file system or of the store may fail. *)
GoesOrFails(c, place, otherwise) ==
    \/ Goes(c, place) /\ UNCHANGED spent
    \/ Goes(c, otherwise) /\ Trouble

(* A directory has the repository of p, with the identity that was recorded. *)
Intact(p, s) == dirs[s] = [of |-> p, body |-> "whole"]

(* The checkout can be opened: a clean repository under the allowed roots, the *)
(* same after its revision is resolved as before.                              *)
Verifiable == clean

IsOpen == \E p \in Ids : projects[p] = Source

(***************************************************************************)
(* A managed repository is made.                                           *)
(***************************************************************************)

(* Seeded in a staging directory, which goes when that fails. *)
Stage(c) ==
    /\ At(c, "idle") /\ c \in setup.calls
    /\ \/ /\ call' = [call EXCEPT ![c] = [Idle EXCEPT !.at = "staged", !.of = c, !.slug = Min(Slugs)]]
          /\ UNCHANGED spent
       \/ Goes(c, "failed") /\ Trouble
    /\ UNCHANGED <<setup, storeVars, dirs, clean, startVars, history>>

(* It is renamed to the first name that is free, or whose directory is empty. *)
Publish(c) ==
    /\ At(c, "staged")
    /\ LET s == call[c].slug
       IN  IF dirs[s].body \in {"none", "empty"}
           THEN /\ dirs' = [dirs EXCEPT ![s] = [of |-> c, body |-> "whole"]]
                /\ Goes(c, "published")
           ELSE /\ call' = [call EXCEPT ![c] = IF s + 1 \in Slugs THEN [@ EXCEPT !.slug = s + 1]
                                               ELSE [@ EXCEPT !.at = "failed"]]
                /\ UNCHANGED dirs
    /\ UNCHANGED <<setup, storeVars, clean, startVars, history, spent>>

(* Its identity is captured; if that fails it is removed by its path alone. *)
Identify(c) ==
    /\ At(c, "published")
    /\ \/ Goes(c, "identified") /\ UNCHANGED spent
       \/ call' = [call EXCEPT ![c] = [@ EXCEPT !.at = "sweep", !.seen = c]] /\ Trouble
    /\ UNCHANGED <<setup, storeVars, dirs, clean, startVars, history>>

(* Its branch is made, and then its record; if either fails it is removed. *)
Branch(c) ==
    /\ At(c, "identified") /\ GoesOrFails(c, "branched", "inspect")
    /\ UNCHANGED <<setup, storeVars, dirs, clean, startVars, history>>

Record(c) ==
    /\ At(c, "branched") /\ GoesOrFails(c, "done", "inspect")
    /\ projects' = IF call'[c].at = "done" THEN [projects EXCEPT ![c] = call[c].slug] ELSE projects
    /\ UNCHANGED <<setup, chats, dirs, clean, startVars, history>>

(***************************************************************************)
(* A managed repository is removed.                                        *)
(***************************************************************************)

(* Its identity is the recorded one, in one of the roots of managed projects. *)
Owned(c) == Intact(call[c].of, call[c].slug)

Inspect(c) ==
    /\ At(c, "inspect")
    /\ \/ /\ Owned(c) /\ UNCHANGED spent
          /\ call' = [call EXCEPT ![c] = [@ EXCEPT !.at = "sweep", !.seen = dirs[call[c].slug].of]]
       \/ ~Owned(c) /\ Goes(c, "kept") /\ UNCHANGED spent
       \/ Goes(c, "kept") /\ Trouble
    /\ UNCHANGED <<setup, storeVars, dirs, clean, startVars, history>>

(* rm goes by the path: first the content, whosever it is by then ... *)
Sweep(c) ==
    /\ At(c, "sweep")
    /\ LET s == call[c].slug
           d == dirs[s]
       IN  \/ /\ d.body = "whole" /\ UNCHANGED call
              /\ dirs' = [dirs EXCEPT ![s].body = "partial"]
              /\ stale' = IF d.of # call[c].seen THEN stale \cup {d.of} ELSE stale
           \/ /\ d.body \in {"partial", "empty"} /\ Goes(c, "rmdir")
              /\ dirs' = [dirs EXCEPT ![s].body = "empty"]
              /\ UNCHANGED stale
           \/ d.body = "none" /\ Goes(c, "gone") /\ UNCHANGED <<dirs, stale>>
    /\ UNCHANGED <<setup, storeVars, clean, startVars, killed, spent>>

(* ... then the directory, unless it has been filled again. *)
Rmdir(c) ==
    /\ At(c, "rmdir")
    /\ LET s == call[c].slug
       IN  IF dirs[s].body \in {"empty", "none"}
           THEN dirs' = [dirs EXCEPT ![s] = Empty] /\ Goes(c, "gone")
           ELSE UNCHANGED dirs /\ Goes(c, "kept")
    /\ UNCHANGED <<setup, storeVars, clean, startVars, history, spent>>

SweepFails(c) ==
    /\ At(c, "sweep") \/ At(c, "rmdir")
    /\ Goes(c, "kept") /\ Trouble
    /\ UNCHANGED <<setup, storeVars, dirs, clean, startVars, history>>

(***************************************************************************)
(* A checkout is opened.                                                   *)
(***************************************************************************)

(* One project for a repository: the record that is there, or a new one. *)
Opened(p) ==
    IF IsOpen THEN projects ELSE [projects EXCEPT ![p] = Source]

Look(o) ==
    /\ At(o, "idle") /\ o \in setup.calls
    /\ \/ /\ Verifiable /\ UNCHANGED spent
          /\ Goes(o, IF IsOpen THEN "done" ELSE "looked")
       \/ ~Verifiable /\ Goes(o, "failed") /\ UNCHANGED spent
       \/ Goes(o, "failed") /\ Trouble
    /\ UNCHANGED <<setup, storeVars, dirs, clean, startVars, history>>

Open(o) ==
    /\ At(o, "looked") /\ GoesOrFails(o, "done", "failed")
    /\ projects' = IF call'[o].at = "done" THEN Opened(o) ELSE projects
    /\ UNCHANGED <<setup, chats, dirs, clean, startVars, history>>

(* Its owner goes on working in it. *)
Work ==
    /\ Trouble /\ clean' = ~clean
    /\ UNCHANGED <<setup, storeVars, dirs, call, startVars, history>>

(***************************************************************************)
(* The chats of a project, and its deletion.                               *)
(***************************************************************************)

(* admit: the record is there, and its repository with that identity. *)
Available(p) ==
    /\ p # NoProject /\ projects[p] # Nowhere
    /\ projects[p] \in Slugs => Intact(p, projects[p])

Admit(k, p) ==
    /\ At(k, "idle") /\ k \in setup.calls /\ ~chats[k].there
    /\ Available(p)
    /\ call' = [call EXCEPT ![k] = [Idle EXCEPT !.at = "admitted", !.of = p]]
    /\ UNCHANGED <<setup, storeVars, dirs, clean, startVars, history, spent>>

(* The store has the last word on whether the project is still there. *)
AddChat(k) ==
    /\ At(k, "admitted")
    /\ IF projects[call[k].of] # Nowhere
       THEN /\ GoesOrFails(k, "done", "failed")
            /\ chats' = IF call'[k].at = "done"
                        THEN [chats EXCEPT ![k] = [there |-> TRUE, busy |-> FALSE, project |-> call[k].of]]
                        ELSE chats
       ELSE Goes(k, "failed") /\ UNCHANGED <<chats, spent>>
    /\ UNCHANGED <<setup, projects, dirs, clean, startVars, history>>

Message(k) ==
    /\ up = "serving" /\ chats[k].there /\ ~chats[k].busy /\ Available(chats[k].project)
    /\ chats' = [chats EXCEPT ![k].busy = TRUE]
    /\ UNCHANGED <<setup, projects, dirs, clean, call, startVars, history, spent>>

RunEnds(k) ==
    /\ up = "serving" /\ chats[k].busy
    /\ chats' = [chats EXCEPT ![k].busy = FALSE]
    /\ UNCHANGED <<setup, projects, dirs, clean, call, startVars, history, spent>>

(* deleteProject: the chats it has now go first, unless one of them is busy. *)
Ask(d, p) ==
    /\ At(d, "idle") /\ d \in setup.calls /\ projects[p] # Nowhere
    /\ LET its == {k \in Chats : chats[k].there /\ chats[k].project = p}
       IN  call' = [call EXCEPT ![d] = [Idle EXCEPT !.of = p, !.todo = its,
                                                    !.at = IF \E k \in its : chats[k].busy THEN "failed"
                                                           ELSE "chats"]]
    /\ UNCHANGED <<setup, storeVars, dirs, clean, startVars, history, spent>>

(* deleteAgent: its run is cancelled, its workspace archived, then it goes.   *)
(* A chat that is gone already ends the deletion.                             *)
DeleteChat(d, k) ==
    /\ At(d, "chats") /\ k \in call[d].todo
    /\ \/ /\ chats[k].there /\ UNCHANGED spent
          /\ chats' = [chats EXCEPT ![k] = NoChat]
          /\ killed' = IF chats[k].busy THEN killed \cup {k} ELSE killed
          /\ call' = [call EXCEPT ![d].todo = @ \ {k}]
       \/ ~chats[k].there /\ Goes(d, "failed") /\ UNCHANGED <<chats, killed, spent>>
       \/ Goes(d, "failed") /\ Trouble /\ UNCHANGED <<chats, killed>>
    /\ UNCHANGED <<setup, projects, dirs, clean, startVars, stale>>

(* ProjectRegistry.delete finds the record ... *)
Find(d) ==
    /\ At(d, "chats") /\ call[d].todo = {}
    /\ LET s == projects[call[d].of]
       IN  call' = [call EXCEPT ![d] = [@ EXCEPT !.at = IF s = Nowhere THEN "failed" ELSE "found", !.slug = s]]
    /\ UNCHANGED <<setup, storeVars, dirs, clean, startVars, history, spent>>

(* ... and drops it, and then removes a repository of the launchpad's making. *)
Forget(d) ==
    /\ At(d, "found") /\ GoesOrFails(d, IF call[d].slug \in Slugs THEN "inspect" ELSE "done", "failed")
    /\ projects' = IF call'[d].at = "failed" THEN projects ELSE [projects EXCEPT ![call[d].of] = Nowhere]
    /\ UNCHANGED <<setup, chats, dirs, clean, startVars, history>>

(***************************************************************************)
(* The start.                                                              *)
(***************************************************************************)

(* migrateLegacyChats: a chat whose runs worked in one repository that can be  *)
(* verified is moved into its project, and any other stays where it is.        *)
MoveChat(k) ==
    /\ up = "starting" /\ k \in legacy /\ k = CHOOSE j \in legacy : TRUE
    /\ \/ /\ moving = "look" /\ UNCHANGED <<storeVars, spent>>
          /\ IF Verifiable THEN moving' = "open" /\ UNCHANGED legacy
             ELSE legacy' = legacy \ {k} /\ UNCHANGED moving
       \/ /\ moving = "open" /\ Verifiable /\ moving' = "assign"
          /\ projects' = Opened(k)
          /\ UNCHANGED <<chats, legacy, spent>>
       \/ /\ moving = "assign" /\ moving' = "look" /\ legacy' = legacy \ {k}
          /\ chats' = [chats EXCEPT ![k].project = CHOOSE p \in Ids : projects[p] = Source]
          /\ UNCHANGED <<projects, spent>>
    /\ UNCHANGED <<setup, dirs, clean, call, up, history>>

Serve ==
    /\ up = "starting" /\ legacy = {} /\ up' = "serving"
    /\ UNCHANGED <<setup, storeVars, dirs, clean, call, legacy, moving, history, spent>>

(* The server dies, or its start fails; calls are lost, and the runs end.      *)
Crash ==
    /\ Spend("crashes")
    /\ call' = [c \in Calls |-> IF call[c].at = "idle" THEN Idle ELSE [Idle EXCEPT !.at = "lost"]]
    /\ chats' = [k \in Chats |-> [chats[k] EXCEPT !.busy = FALSE]]
    /\ up' = "starting" /\ moving' = "look"
    /\ legacy' = {k \in Chats : chats[k].there /\ chats[k].project = NoProject}
    /\ UNCHANGED <<setup, projects, dirs, clean, history>>

-----------------------------------------------------------------------------

Removes(c) == Inspect(c) \/ Sweep(c) \/ Rmdir(c) \/ SweepFails(c)

Next ==
    \/ \E c \in Creates : Stage(c) \/ Publish(c) \/ Identify(c) \/ Branch(c) \/ Record(c) \/ Removes(c)
    \/ \E o \in Opens : Look(o) \/ Open(o)
    \/ \E d \in Deletes : \/ \E p \in Ids : Ask(d, p)
                          \/ \E k \in Chats : DeleteChat(d, k)
                          \/ Find(d) \/ Forget(d) \/ Removes(d)
    \/ \E k \in Chats : \/ \E p \in Ids : Admit(k, p)
                        \/ AddChat(k) \/ Message(k) \/ RunEnds(k) \/ MoveChat(k)
    \/ Work \/ Serve \/ Crash

Spec == Init /\ [][Next]_vars

-----------------------------------------------------------------------------

(* The constants: a repository that is made is of a new project, directories   *)
(* have a first name, and a checkout is none of them.                          *)
CatalogAssumption ==
    /\ Creates \cap (Opens \cup Deletes \cup Chats) = {}
    /\ Slugs \subseteq Nat /\ \E s \in Slugs : \A t \in Slugs : s <= t
    /\ Source \notin Slugs /\ Nowhere \notin Slugs \cup {Source}
    /\ NoProject \notin Ids

(* A managed project has the repository that was made for it: whatever fails,  *)
(* is deleted twice, or takes a directory that another has left.  Not when its *)
(* directory was inspected while another project's repository was in it.       *)
RepositoriesStay ==
    \A p \in Ids : projects[p] \in Slugs =>
        Intact(p, projects[p]) \/ p \in stale

(* A checkout has one project, however many open it at once, from whichever of *)
(* its chats a start comes to it, and wherever an earlier start was cut off.   *)
OneProjectEach == \A p, q \in Ids : projects[p] = Source /\ projects[q] = Source => p = q

CatalogIsSound == RepositoriesStay /\ OneProjectEach

(* What the code does not keep: two deletions of one project may remove the    *)
(* repository of the next one of that name, between inspection and removal ... *)
OnlyItsOwn == stale = {}

(* ... a chat that is being made outlives its project (deleteProject's comment *)
(* wants none to) ...                                                          *)
ChatsResolve == \A k \in Chats : chats[k].project # NoProject => projects[chats[k].project] # Nowhere

(* ... and a run is killed that began after the chats were looked at, where    *)
(* "a busy chat refuses the whole delete".                                     *)
BusyRefuses == killed = {}
=============================================================================
