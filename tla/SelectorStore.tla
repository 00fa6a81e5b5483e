---------------------------- MODULE SelectorStore ----------------------------
(***************************************************************************)
(* The picks of selector groups and their file (meow-proxy:                *)
(* group/selector.rs, group/selector_store.rs).  A pick is written to the  *)
(* group, then to the map, and the whole map to a temporary file that is   *)
(* renamed over the old one, after the lock on the map is released.  The   *)
(* process may stop at any step.                                           *)
(***************************************************************************)
EXTENDS Naturals, FiniteSets

CONSTANTS Tasks,            \* API requests served at once
          Groups, Names,    \* selector groups, and the members each has
          Inodes,           \* files that exist under the two names or are open
          MayFail,          \* whether file operations may fail
          None, Torn

StoreAssumption == Cardinality(Inodes) >= Cardinality(Tasks) + 2 /\ MayFail \in BOOLEAN

VARIABLES selected, map,    \* the groups' picks, and the store's map
  path, tmp, content,       \* the two directory entries, and what each file holds
  task,                     \* [task -> its select]
  lost                      \* history: a file operation has failed since the last whole write

vars == <<selected, map, path, tmp, content, task, lost>>

Maps == [Groups -> Names \cup {None}]
Empty == [g \in Groups |-> None]
Idle == [at |-> "idle", g |-> None, name |-> None, snap |-> Empty, fd |-> None]

\* Types; the temporary file is never the inode that the path already names.
TypeOK ==
  /\ selected \in Maps /\ map \in Maps
  /\ {path, tmp} \subseteq Inodes \cup {None} /\ (path # None => path # tmp)
  /\ content \in [Inodes -> Maps \cup {Torn}]
  /\ lost \in BOOLEAN
  /\ \A t \in Tasks : task[t].at \in {"idle", "set", "open", "write", "rename"}

\* What open reads: a file that is missing or not JSON is an empty map
Loaded == IF path = None THEN Empty ELSE IF content[path] = Torn THEN Empty ELSE content[path]

Init ==
  /\ selected = Empty /\ map = Empty /\ path = None /\ tmp = None
  /\ content = [i \in Inodes |-> Torn]
  /\ task = [t \in Tasks |-> Idle] /\ lost = FALSE

\* select, or force_set with a name: the group first
Select(t, g, n) ==
  /\ task[t].at = "idle"
  /\ selected' = [selected EXCEPT ![g] = n]
  /\ task' = [task EXCEPT ![t] = [Idle EXCEPT !.at = "set", !.g = g, !.name = n]]
  /\ UNCHANGED <<map, path, tmp, content, lost>>


Snapshot(g, n) == [map EXCEPT ![g] = n]

\* SelectorStore::set under the lock; a pick the map already has is not written again
Set(t) ==
  /\ task[t].at = "set"
  /\ LET g == task[t].g  n == task[t].name IN
     \/ /\ map[g] = n /\ task' = [task EXCEPT ![t] = Idle] /\ UNCHANGED map
     \/ /\ map[g] # n /\ map' = [map EXCEPT ![g] = n]
        /\ task' = [task EXCEPT ![t] = [@ EXCEPT !.at = "open", !.snap = Snapshot(g, n)]]
  /\ UNCHANGED <<selected, path, tmp, content, lost>>

\* The file a write goes to, if it exists
Target == tmp

\* write_atomic opens the temporary file: an existing one is truncated
Open(t) ==
  /\ task[t].at = "open"
  /\ \E i \in Inodes :
       /\ IF Target # None THEN i = Target
          ELSE i \notin {path, tmp} /\ \A u \in Tasks : task[u].fd # i
       /\ tmp' = IF Target # None THEN tmp ELSE i
       /\ content' = [content EXCEPT ![i] = Torn]
       /\ task' = [task EXCEPT ![t] = [@ EXCEPT !.at = "write", !.fd = i]]
  /\ UNCHANGED <<selected, map, path, lost>>

\* The JSON is written; over what another request wrote meanwhile, the longer text keeps its tail
Write(t) ==
  /\ task[t].at = "write"
  /\ \E c \in {task[t].snap} \cup (IF content[task[t].fd] = Torn THEN {} ELSE {Torn}) :
       content' = [content EXCEPT ![task[t].fd] = c]
  /\ task' = [task EXCEPT ![t].at = "rename"]
  /\ UNCHANGED <<selected, map, path, tmp, lost>>

\* The rename fails if another request has taken the temporary file away
Rename(t) ==
  /\ task[t].at = "rename"
  /\ IF tmp # None THEN path' = tmp /\ tmp' = None /\ lost' = FALSE ELSE UNCHANGED <<path, tmp, lost>>
  /\ task' = [task EXCEPT ![t] = Idle]
  /\ UNCHANGED <<selected, map, content>>

\* Any of the three fails; set only warns
Fail(t) ==
  /\ MayFail /\ task[t].at \in {"open", "write", "rename"}
  /\ task' = [task EXCEPT ![t] = Idle] /\ lost' = TRUE
  /\ UNCHANGED <<selected, map, path, tmp, content>>

\* The process stops; open and with_store load what is there
Restart ==
  /\ map' = Loaded /\ selected' = Loaded /\ lost' = FALSE
  /\ task' = [t \in Tasks |-> Idle]
  /\ UNCHANGED <<path, tmp, content>>

Next ==
  \/ \E t \in Tasks :
       \/ \E g \in Groups, n \in Names : Select(t, g, n)
       \/ Set(t) \/ Open(t) \/ Write(t) \/ Rename(t) \/ Fail(t)
  \/ Restart

Spec == Init /\ [][Next]_vars

---------------------------------------------------------------------------
\* The file under the store's name is always a whole map, whenever the process stops and
\* whichever write failed: "flush the whole file atomically" (SelectorStore::set).
WholeFile == path # None => content[path] # Torn

\* "written through on every successful select(), so the user's pick survives process
\* restart": once no request is under way the group, the map and the file agree.
PickSurvives ==
  (\A t \in Tasks : task[t].at = "idle") /\ ~lost => selected = map /\ Loaded = map

\* A restart gives every group the pick it had, or, for the group being changed, the one
\* before: no other group's pick is undone by a write that was interrupted or failed.
OthersUndisturbed ==
  ~lost => \A g \in Groups : Loaded[g] # selected[g] => \E t \in Tasks : task[t].g = g
=============================================================================
