------------------------------ MODULE PathLock ------------------------------
(***************************************************************************)
(* The file-based path locks of OpenViking                                 *)
(* (openviking/storage/transaction/path_lock.py, class PathLockEngine).    *)
(*                                                                         *)
(* A lock is a small file in AGFS that holds a fencing token               *)
(* owner:timestamp:type.  AGFS has no create-if-absent: a lock file is     *)
(* read, written and removed by separate calls, every call is awaited      *)
(* (asyncio.to_thread) and other owners run between any two of them.  One  *)
(* action below is one AGFS call, together with the local computation that *)
(* follows it up to the next call.                                         *)
(*                                                                         *)
(* A path p has two lock files: Dir(p), the file .path.ovlock inside p,    *)
(* and Pre(p), the prefixed file .exact.ovlock.<name> beside p.            *)
(***************************************************************************)
EXTENDS Integers, FiniteSets

CONSTANTS
  Owners,      \* lock handles (LockHandle.id); numbers, because ids are compared
  Paths,       \* the paths that locks are asked for
  Anc,         \* Anc[p]: the proper ancestors of p among Paths
  Asks,        \* Asks[o]: the calls owner o may make, pairs <<type, path>>
  Refreshers,  \* owners whose lease runs the refresh loop
  Crashers,    \* owners whose process may die
  Expire,      \* lock_expire
  MaxClock,    \* bound on the clock
  Kinds        \* the kinds paths may have initially: functions of Paths

Types == {"E", "T"}                       \* LOCK_TYPE_EXACT, LOCK_TYPE_TREE
PathKinds == {"missing", "dir", "file"}

ASSUME OwnersAssumption == Owners \subseteq Nat \ {0}
ASSUME PathsAssumption == Paths # {}
ASSUME AncAssumption ==
  /\ Anc \in [Paths -> SUBSET Paths]
  /\ \A p \in Paths : p \notin Anc[p]
  /\ \A p \in Paths : \A q \in Anc[p] : Anc[q] \subseteq Anc[p]
ASSUME AsksAssumption == Asks \in [Owners -> SUBSET (Types \X Paths)]
ASSUME RolesAssumption == Refreshers \subseteq Owners /\ Crashers \subseteq Owners
ASSUME TimeAssumption == Expire \in Nat /\ MaxClock \in Nat
ASSUME KindsAssumption ==
  /\ Kinds \subseteq [Paths -> PathKinds]
  /\ \A k \in Kinds : \A p \in Paths :
        k[p] # "missing" => \A a \in Anc[p] : k[a] = "dir"

VARIABLES
  files,   \* content of every lock file: a token, or NoToken
  kind,    \* what AGFS stat says of every path
  clock,   \* time.time_ns()
  pc,      \* where each owner's current call is
  req,     \* the call: type, path and the lock file chosen for it
  todo,    \* <<stage, file>>: lock files the current scan still has to read
  cf,      \* the lock file of another owner that the last scan found
  seen,    \* the token of cf, as read for the livelock guard
  late,    \* the deadline of the current call has passed
  held,    \* LockHandle.locks, with the type each was acquired with
  rw,      \* the refresh write in flight: at most one <<file, type>>
  lost     \* history: <<o, f>>, o's token in f was destroyed under it

vars == <<files, kind, clock, pc, req, todo, cf, seen, late, held, rw, lost>>
-----------------------------------------------------------------------------
Dir(p) == <<"dir", p>>
Pre(p) == <<"pre", p>>
LockFiles == {"dir", "pre"} \X Paths
PathOf(f) == f[2]

Nobody == 0
NoToken == [owner |-> Nobody, ts |-> 0, type |-> "E"]
(* Mutant: the token carries the time before the write.                     *)
BackdatedToken(o, t) == [owner |-> o, ts |-> clock - 1, type |-> t]
Token(o, t) == [owner |-> o, ts |-> clock, type |-> t]
Tokens == [owner : Owners \cup {Nobody}, ts : Nat, type : Types]

Desc(p) == {q \in Paths : p \in Anc[q]}
AncFiles(p) == {Dir(a) : a \in Anc[p]}
ExactFiles(p) == {Dir(p), Pre(p)}
DescFiles(p) == {Dir(q) : q \in Desc(p)} \cup {Pre(q) : q \in Desc(p)}

(* The lock file of an exact lock depends on what stat says of the path;    *)
(* a tree lock uses the prefixed file only for an existing regular file.    *)
ExactLockPath(p) == IF kind[p] = "dir" THEN Dir(p) ELSE Pre(p)
TreeLockPath(p) == IF kind[p] = "file" THEN Pre(p) ELSE Dir(p)
LockPath(t, p) == IF t = "E" THEN ExactLockPath(p) ELSE TreeLockPath(p)

OwnedBy(o, f) == files[f].owner = o
LockedByOther(o, f) == files[f].owner \notin {o, Nobody}
(* Mutant: a token never expires.                                           *)
StaleIfUnowned(tk) == tk.owner = Nobody
Stale(tk) == tk.owner = Nobody \/ clock - tk.ts > Expire

(* owner.locks and _owned_lock_type                                         *)
HeldFiles(o) == {h[1] : h \in held[o]}
OwnedTree(o, f) == f \in HeldFiles(o) /\ OwnedBy(o, f) /\ files[f].type = "T"
OwnedAncestorTree(o, p) == \E a \in Anc[p] \cup {p} : OwnedTree(o, Dir(a))

(* Stages of a scan are numbered in the order the code runs them.  In an    *)
(* ancestor stage only a TREE token is a conflict.                          *)
AncStage == 2
PreScan(t, p, f) ==
  IF t = "E"
  THEN ({1} \X ExactFiles(p)) \cup ({AncStage} \X AncFiles(p))
  ELSE ({1} \X {f}) \cup ({AncStage} \X AncFiles(p))
         \cup ({3} \X ExactFiles(p)) \cup ({4} \X DescFiles(p))
(* Mutant: the double-check of an exact lock forgets the ancestors.         *)
PostScanNoAncestors(t, p, f) ==
  IF t = "E"
  THEN {1} \X ({Dir(p)} \ {f})
  ELSE ({0} \X DescFiles(p)) \cup ({1} \X ExactFiles(p))
         \cup ({AncStage} \X AncFiles(p))
PostScan(t, p, f) ==
  IF t = "E"
  THEN ({1} \X ({Dir(p)} \ {f})) \cup ({AncStage} \X AncFiles(p))
  ELSE ({0} \X DescFiles(p)) \cup ({1} \X ExactFiles(p))
         \cup ({AncStage} \X AncFiles(p))
Conflicting(o, s, f) ==
  LockedByOther(o, f) /\ (s = AncStage => files[f].type = "T")

(* (my_ts, owner_id) > (their_ts, their_owner_id)                           *)
Younger(o, mine, theirs) ==
  mine.ts > theirs.ts \/ (mine.ts = theirs.ts /\ o > theirs.owner)

(* A lock file can be written when its directory exists.                    *)
Writable(f) ==
  /\ \A a \in Anc[PathOf(f)] : kind[a] = "dir"
  /\ f[1] = "dir" => kind[PathOf(f)] = "dir"

(* History: whose token is destroyed when o changes f.                      *)
Clobbered(o, f) == {<<u, f>> : u \in {v \in Owners \ {o} : OwnedBy(v, f)}}
-----------------------------------------------------------------------------
NoReq == [type |-> "E", path |-> CHOOSE p \in Paths : TRUE,
          file |-> Dir(CHOOSE p \in Paths : TRUE)]

Init ==
  /\ files = [f \in LockFiles |-> NoToken]
  /\ kind \in Kinds
  /\ clock = 0
  /\ pc = [o \in Owners |-> "idle"]
  /\ req = [o \in Owners |-> NoReq]
  /\ todo = [o \in Owners |-> {}]
  /\ cf = [o \in Owners |-> NoReq.file]
  /\ seen = [o \in Owners |-> NoToken]
  /\ late = [o \in Owners |-> FALSE]
  /\ held = [o \in Owners |-> {}]
  /\ rw = [o \in Owners |-> {}]
  /\ lost = {}

shared == <<files, kind, clock, rw, lost>>
locals == <<req, todo, cf, seen, late>>

Goto(o, l) == pc' = [pc EXCEPT ![o] = l]

(* The acquire call of o returns; its local variables die.                  *)
Return(o) ==
  /\ Goto(o, "idle")
  /\ req' = [req EXCEPT ![o] = NoReq]
  /\ todo' = [todo EXCEPT ![o] = {}]
  /\ cf' = [cf EXCEPT ![o] = NoReq.file]
  /\ seen' = [seen EXCEPT ![o] = NoToken]
  /\ late' = [late EXCEPT ![o] = FALSE]

(* Back to the head of the acquire loop ("continue").                       *)
Again(o) ==
  /\ Goto(o, "check")
  /\ todo' = [todo EXCEPT ![o] = PreScan(req[o].type, req[o].path, req[o].file)]
  /\ cf' = [cf EXCEPT ![o] = NoReq.file]
  /\ seen' = [seen EXCEPT ![o] = NoToken]
  /\ UNCHANGED <<req, late>>

(* Mutant: the loop does not look at its deadline.                          *)
RetryForever(o) == Again(o)

(* "if time() >= deadline: return False", else sleep and "continue".        *)
ReturnIfLate(o) == IF late[o] THEN Return(o) ELSE Again(o)

(* _remove_lock_file and _create_lock_file: neither looks at the content.   *)
Remove(o, f) ==
  /\ files' = [files EXCEPT ![f] = NoToken]
  /\ lost' = lost \cup Clobbered(o, f)
               \cup (IF f \in HeldFiles(o) THEN {<<o, f>>} ELSE {})

WriteToken(o, f, t) ==
  /\ files' = [files EXCEPT ![f] = Token(o, t)]
  /\ lost' = lost \cup Clobbered(o, f)
               \cup (IF t = "E" /\ OwnedBy(o, f) /\ files[f].type = "T"
                     THEN {<<o, f>>} ELSE {})
-----------------------------------------------------------------------------
(* acquire_exact_path and acquire_tree.  A call that finds its lock already *)
(* held by the same handle returns True at once and changes nothing.        *)
Reusable(o, t, p) ==
  \/ LET f == LockPath(t, p)
     IN  f \in HeldFiles(o) /\ OwnedBy(o, f) /\ (t = "T" => files[f].type = "T")
  \/ OwnedAncestorTree(o, p)

Acquire(o, t, p) ==
  /\ pc[o] = "idle"
  /\ <<t, p>> \in Asks[o]
  /\ ~Reusable(o, t, p)
  /\ Goto(o, "check")
  /\ req' = [req EXCEPT ![o] = [type |-> t, path |-> p, file |-> LockPath(t, p)]]
  /\ todo' = [todo EXCEPT ![o] = PreScan(t, p, LockPath(t, p))]
  /\ UNCHANGED <<cf, seen, late, held, shared>>

Deadline(o) ==
  /\ pc[o] \notin {"idle", "release", "relrm", "done", "dead"}
  /\ ~late[o]
  /\ late' = [late EXCEPT ![o] = TRUE]
  /\ UNCHANGED <<pc, req, todo, cf, seen, held, shared>>

(* One read of a scan, in the order of its stages.  The first conflict ends *)
(* the scan and control goes on at `found'; a scan that finds none goes on  *)
(* at `clean'.                                                              *)
ReadOne(o, found, clean) ==
  \E r \in todo[o] :
    /\ \A r2 \in todo[o] : r[1] <= r2[1]
    /\ IF Conflicting(o, r[1], r[2])
       THEN /\ Goto(o, found)
            /\ cf' = [cf EXCEPT ![o] = r[2]]
            /\ todo' = [todo EXCEPT ![o] = {}]
       ELSE /\ Goto(o, IF todo[o] = {r} THEN clean ELSE pc[o])
            /\ todo' = [todo EXCEPT ![o] = @ \ {r}]
            /\ UNCHANGED cf
    /\ UNCHANGED <<req, seen, late, held, shared>>

(* The directory of the lock file has to be made unless the lock is an      *)
(* exact one inside the existing directory it protects.                     *)
PreCheck(o) ==
  /\ pc[o] = "check"
  /\ ReadOne(o, "stale", IF req[o].type = "E" /\ req[o].file = Dir(req[o].path)
                         THEN "write" ELSE "mkdir")

(* The token is read once more to see whether it expired.                   *)
StaleCheck(o) ==
  /\ pc[o] = "stale"
  /\ IF Stale(files[cf[o]])
     THEN Goto(o, "rmstale") /\ UNCHANGED locals
     ELSE ReturnIfLate(o)
  /\ UNCHANGED <<held, shared>>

RemoveStale(o) ==
  /\ pc[o] = "rmstale"
  /\ Remove(o, cf[o])
  /\ Again(o)
  /\ UNCHANGED <<kind, clock, held, rw>>

(* _ensure_directory_exists_async: of the path itself for a tree lock, of   *)
(* its parent for an exact lock.  It fails below a regular file.            *)
Mkdir(o) ==
  LET p == req[o].path
      need == IF req[o].type = "T" THEN Anc[p] \cup {p} ELSE Anc[p]
  IN
  /\ pc[o] = "mkdir"
  /\ IF \E a \in Anc[p] : kind[a] = "file"
     THEN Return(o) /\ UNCHANGED kind
     ELSE /\ kind' = [q \in Paths |-> IF q \in need /\ kind[q] = "missing"
                                      THEN "dir" ELSE kind[q]]
          /\ Goto(o, "write")
          /\ UNCHANGED locals
  /\ UNCHANGED <<files, clock, held, rw, lost>>

PostScanOf(o) == PostScan(req[o].type, req[o].path, req[o].file)

(* An exact lock re-reads its token before the double-check, a tree lock    *)
(* does not.  A write that fails ends the call.                             *)
Write(o) ==
  LET f == req[o].file
      t == req[o].type
  IN
  /\ pc[o] = "write"
  /\ IF Writable(f)
     THEN /\ WriteToken(o, f, t)
          /\ Goto(o, IF t = "E" THEN "verify1" ELSE "post")
          /\ todo' = [todo EXCEPT ![o] = PostScanOf(o)]
          /\ UNCHANGED <<req, cf, seen, late>>
     ELSE Return(o) /\ UNCHANGED <<files, lost>>
  /\ UNCHANGED <<kind, clock, held, rw>>

VerifyWrite(o) ==
  /\ pc[o] = "verify1"
  /\ IF OwnedBy(o, req[o].file)
     THEN Goto(o, IF todo[o] = {} THEN "verify" ELSE "post") /\ UNCHANGED locals
     ELSE ReturnIfLate(o)
  /\ UNCHANGED <<held, shared>>

(* The double-check after the write.                                        *)
PostCheck(o) == pc[o] = "post" /\ ReadOne(o, "theirs", "verify")

(* After a conflict: retry, or give the lock up at the deadline; a tree     *)
(* lock that backed off has nothing left to remove.                         *)
AfterConflict(o, backedOff) ==
  IF ~late[o] THEN Again(o)
  ELSE IF backedOff /\ req[o].type = "T" THEN Return(o)
  ELSE Goto(o, IF req[o].type = "E" THEN "quitown" ELSE "quitrm") /\ UNCHANGED locals

(* The livelock guard: read their token, then mine; the younger backs off.  *)
ReadTheirs(o) ==
  /\ pc[o] = "theirs"
  /\ IF files[cf[o]] = NoToken
     THEN AfterConflict(o, FALSE)
     ELSE /\ seen' = [seen EXCEPT ![o] = files[cf[o]]]
          /\ Goto(o, "mine")
          /\ UNCHANGED <<req, todo, cf, late>>
  /\ UNCHANGED <<held, shared>>

ReadMine(o) ==
  /\ pc[o] = "mine"
  /\ IF Younger(o, files[req[o].file], seen[o])
     THEN Goto(o, IF req[o].type = "E" THEN "backown" ELSE "backrm") /\ UNCHANGED locals
     ELSE AfterConflict(o, FALSE)
  /\ UNCHANGED <<held, shared>>

(* An exact lock asks for ownership before it removes its file, a tree lock *)
(* removes whatever is there.                                               *)
BackOffCheck(o) ==
  /\ pc[o] = "backown"
  /\ IF OwnedBy(o, req[o].file)
     THEN Goto(o, "backrm") /\ UNCHANGED locals
     ELSE AfterConflict(o, FALSE)
  /\ UNCHANGED <<held, shared>>

BackOff(o) ==
  /\ pc[o] = "backrm"
  /\ Remove(o, req[o].file)
  /\ AfterConflict(o, TRUE)
  /\ UNCHANGED <<kind, clock, held, rw>>

QuitCheck(o) ==
  /\ pc[o] = "quitown"
  /\ IF OwnedBy(o, req[o].file)
     THEN Goto(o, "quitrm") /\ UNCHANGED locals
     ELSE Return(o)
  /\ UNCHANGED <<held, shared>>

Quit(o) ==
  /\ pc[o] = "quitrm"
  /\ Remove(o, req[o].file)
  /\ Return(o)
  /\ UNCHANGED <<kind, clock, held, rw>>

(* The final ownership check; owner.add_lock, return True.                  *)
Verify(o) ==
  LET f == req[o].file
      t == req[o].type
  IN
  /\ pc[o] = "verify"
  /\ IF OwnedBy(o, f)
     THEN /\ held' = [held EXCEPT ![o] = (@ \ {<<f, "E">>}) \cup {<<f, t>>}]
          /\ Return(o)
     ELSE ReturnIfLate(o) /\ UNCHANGED held
  /\ UNCHANGED shared
-----------------------------------------------------------------------------
(* release: per lock file, read the owner, then remove the file.            *)
StartRelease(o) ==
  /\ pc[o] = "idle"
  /\ Goto(o, "release")
  /\ UNCHANGED <<locals, held, shared>>

Drop(o, f) == held' = [held EXCEPT ![o] = {h \in @ : h[1] # f}]

ReleaseCheck(o) ==
  /\ pc[o] = "release"
  /\ \/ \E f \in HeldFiles(o) :
          IF OwnedBy(o, f)
          THEN /\ Goto(o, "relrm")
               /\ cf' = [cf EXCEPT ![o] = f]
               /\ UNCHANGED held
          ELSE Drop(o, f) /\ UNCHANGED <<pc, cf>>
     \/ held[o] = {} /\ Goto(o, "done") /\ UNCHANGED <<cf, held>>
  /\ UNCHANGED <<req, todo, seen, late, shared>>

(* Mutant: release removes the file and keeps it in the handle.             *)
ReleaseRemoveKeepsLock(o) ==
  /\ pc[o] = "relrm"
  /\ files' = [files EXCEPT ![cf[o]] = NoToken]
  /\ lost' = lost \cup Clobbered(o, cf[o])
  /\ Goto(o, "release")
  /\ cf' = [cf EXCEPT ![o] = NoReq.file]
  /\ UNCHANGED <<kind, clock, req, todo, seen, late, held, rw>>

ReleaseRemove(o) ==
  /\ pc[o] = "relrm"
  /\ files' = [files EXCEPT ![cf[o]] = NoToken]
  /\ lost' = lost \cup Clobbered(o, cf[o])
  /\ Drop(o, cf[o])
  /\ Goto(o, "release")
  /\ cf' = [cf EXCEPT ![o] = NoReq.file]
  /\ UNCHANGED <<kind, clock, req, todo, seen, late, rw>>

(* refresh: read the token, rewrite it with a new timestamp.  The lease's   *)
(* loop runs beside the calls of the handle and is cancelled before the     *)
(* release, but a write that is already in its thread still lands.          *)
RefreshRead(o) ==
  /\ o \in Refreshers
  /\ pc[o] \notin {"release", "relrm", "done", "dead"}
  /\ rw[o] = {}
  /\ \E f \in HeldFiles(o) :
       IF OwnedBy(o, f)
       THEN rw' = [rw EXCEPT ![o] = {<<f, files[f].type>>}] /\ UNCHANGED held
       ELSE Drop(o, f) /\ UNCHANGED rw
  /\ UNCHANGED <<files, kind, clock, lost, pc, locals>>

RefreshWrite(o) ==
  \E w \in rw[o] :
    /\ WriteToken(o, w[1], w[2])
    /\ rw' = [rw EXCEPT ![o] = {}]
    /\ UNCHANGED <<kind, clock, pc, locals, held>>

(* The process of o dies; its lock files stay.  Bound: early enough for the *)
(* clock to outlive them.                                                   *)
Crash(o) ==
  /\ o \in Crashers
  /\ clock + Expire < MaxClock
  /\ pc[o] \notin {"done", "dead"}
  /\ Goto(o, "dead")
  /\ req' = [req EXCEPT ![o] = NoReq]
  /\ todo' = [todo EXCEPT ![o] = {}]
  /\ cf' = [cf EXCEPT ![o] = NoReq.file]
  /\ seen' = [seen EXCEPT ![o] = NoToken]
  /\ late' = [late EXCEPT ![o] = FALSE]
  /\ held' = [held EXCEPT ![o] = {}]
  /\ rw' = [rw EXCEPT ![o] = {}]
  /\ UNCHANGED <<files, kind, clock, lost>>

(* The environment: the holder of a lock creates a path it protects.        *)
CreatePath(o, p, k) ==
  /\ pc[o] = "idle"
  /\ kind[p] = "missing"
  /\ \A a \in Anc[p] : kind[a] = "dir"
  /\ \E h \in held[o] : PathOf(h[1]) = p \/ (h[2] = "T" /\ PathOf(h[1]) \in Anc[p])
  /\ kind' = [kind EXCEPT ![p] = k]
  /\ UNCHANGED <<files, clock, pc, locals, held, rw, lost>>

Tick ==
  /\ clock < MaxClock
  /\ clock' = clock + 1
  /\ UNCHANGED <<files, kind, pc, locals, held, rw, lost>>

(* Every handle is released or its process gone, and nothing is in flight.  *)
Finished ==
  /\ \A o \in Owners : pc[o] \in {"done", "dead"} /\ rw[o] = {}
  /\ UNCHANGED vars

AcquireStep(o) ==
  \/ PreCheck(o) \/ StaleCheck(o) \/ RemoveStale(o) \/ Mkdir(o) \/ Write(o)
  \/ VerifyWrite(o) \/ PostCheck(o) \/ ReadTheirs(o) \/ ReadMine(o)
  \/ BackOffCheck(o) \/ BackOff(o) \/ QuitCheck(o) \/ Quit(o) \/ Verify(o)

ReleaseStep(o) == ReleaseCheck(o) \/ ReleaseRemove(o)

Call(o) ==
  \/ \E t \in Types, p \in Paths : Acquire(o, t, p)
  \/ StartRelease(o)
  \/ \E p \in Paths, k \in {"dir", "file"} : CreatePath(o, p, k)

Next ==
  \/ \E o \in Owners :
       \/ Call(o) \/ AcquireStep(o) \/ ReleaseStep(o) \/ Deadline(o)
       \/ RefreshRead(o) \/ RefreshWrite(o) \/ Crash(o)
  \/ Tick
  \/ Finished

Spec == Init /\ [][Next]_vars

(* A call in progress goes on, a write in flight lands, time passes; nobody *)
(* has to make a call, to release a lock or to give up waiting.             *)
FairSpec ==
  /\ Spec
  /\ WF_vars(Tick)
  /\ \A o \in Owners : WF_vars(AcquireStep(o)) /\ WF_vars(RefreshWrite(o))
-----------------------------------------------------------------------------
Acquiring == {"check", "stale", "rmstale", "mkdir", "write", "verify1", "post",
              "theirs", "mine", "backown", "backrm", "quitown", "quitrm", "verify"}
PCs == Acquiring \cup {"idle", "release", "relrm", "done", "dead"}

TypeOK ==
  /\ files \in [LockFiles -> Tokens]
  /\ kind \in [Paths -> PathKinds]
  /\ clock \in Nat
  /\ pc \in [Owners -> PCs]
  /\ req \in [Owners -> [type : Types, path : Paths, file : LockFiles]]
  /\ todo \in [Owners -> SUBSET ((0 .. 4) \X LockFiles)]
  /\ cf \in [Owners -> LockFiles]
  /\ seen \in [Owners -> Tokens]
  /\ late \in [Owners -> BOOLEAN]
  /\ held \in [Owners -> SUBSET (LockFiles \X Types)]
  /\ rw \in [Owners -> SUBSET (LockFiles \X Types)]
  /\ lost \subseteq Owners \X LockFiles

(* Two locks that must not be held together: on the same path, or a tree    *)
(* lock above the other one.                                                *)
Overlap(h1, h2) ==
  LET p1 == PathOf(h1[1])
      p2 == PathOf(h2[1])
  IN  \/ p1 = p2
      \/ h1[2] = "T" /\ p1 \in Anc[p2]
      \/ h2[2] = "T" /\ p2 \in Anc[p1]

(* The one overlap the double-check does not look for: two exact locks on   *)
(* one path, taken before and after the path became a directory.            *)
TwoExactFiles(h1, h2) == h1[2] = "E" /\ h2[2] = "E" /\ h1[1] # h2[1]

(* The intact locks of o: those whose token no step of the protocol has     *)
(* destroyed.                                                               *)
Intact(o) == {h \in held[o] : <<o, h[1]>> \notin lost}

(* Two owners never hold overlapping locks, as long as the tokens of both   *)
(* are intact: the write-then-check order of acquire_exact_path and         *)
(* acquire_tree excludes an ancestor tree lock and any lock below it, and a *)
(* tree lock and an exact lock on one path, whatever the interleaving.      *)
GuardedExclusion ==
  \A o1, o2 \in Owners : o1 # o2 =>
    \A h1 \in Intact(o1), h2 \in Intact(o2) :
      Overlap(h1, h2) => TwoExactFiles(h1, h2) /\ PathOf(h1[1]) = PathOf(h2[1])

(* "Write-exclusive: only one write operation can operate on a path at a    *)
(* time" (docs/en/concepts/09-transaction.md), for every lock a handle      *)
(* lists, intact or not.                                                    *)
MutualExclusion ==
  \A o1, o2 \in Owners : o1 # o2 =>
    \A h1 \in held[o1], h2 \in held[o2] : ~Overlap(h1, h2)

(* An acquire call returns once its deadline has passed: no chain of        *)
(* conflicts, back-offs and stale locks keeps it in the loop for ever.      *)
AcquireReturns == \A o \in Owners : late[o] ~> ~late[o]

(* What the others left behind does not keep a call out for ever, be they   *)
(* dead or their handles released: the tokens of a crashed process and the  *)
(* orphans of calls that timed out, were overwritten or were refreshed too  *)
(* late expire, and the stale checks of the acquire loop remove them.       *)
(* Bound: tokens old enough for the clock to outlive them.                  *)
OrphanReclaimed ==
  \A o \in Owners :
    (/\ pc[o] \in Acquiring
     /\ \A u \in Owners \ {o} : pc[u] \in {"dead", "done"} /\ rw[u] = {}
     /\ \A f \in LockFiles : LockedByOther(o, f) => files[f].ts + Expire < MaxClock)
      ~> (late[o] \/ held[o] # {} \/ pc[o] = "dead")
-----------------------------------------------------------------------------
(* The inductive invariant behind GuardedExclusion.                         *)

(* A claim of o: a lock it holds, or the one whose token it has written and *)
(* is double-checking.                                                      *)
Pending(o) == {h \in LockFiles \X Types :
                 /\ pc[o] \in {"verify1", "post", "verify"}
                 /\ h[1] = req[o].file /\ h[2] = req[o].type}
Claims(o) == held[o] \cup Pending(o)
IntactClaims(o) == {h \in Claims(o) : <<o, h[1]>> \notin lost}

(* The token of an intact claim is in its file.                             *)
TokenPresent ==
  \A o \in Owners : \A h \in IntactClaims(o) :
    OwnedBy(o, h[1]) /\ (h[2] = "T" => files[h[1]].type = "T")

(* The double-check of h1 reads the file of h2 and would see a conflict.    *)
Sees(h1, h2) ==
  \E s \in 0 .. 4 :
    /\ <<s, h2[1]>> \in PostScan(h1[2], PathOf(h1[1]), h1[1])
    /\ s = AncStage => h2[2] = "T"

(* o has not come to h yet in the double-check of its pending claim.        *)
Unread(o, h) ==
  /\ pc[o] \in {"verify1", "post"}
  /\ \E s \in 0 .. 4 : <<s, h[1]>> \in todo[o] /\ (s = AncStage => h[2] = "T")

(* Of two intact claims that see each other at least one is still open.     *)
OneStillOpen ==
  \A o1, o2 \in Owners : o1 # o2 =>
    \A h1 \in IntactClaims(o1), h2 \in IntactClaims(o2) :
      Sees(h1, h2) /\ Sees(h2, h1) =>
        \/ h1 \notin held[o1] /\ Unread(o1, h2)
        \/ h2 \notin held[o2] /\ Unread(o2, h1)

(* A lock file lies in a directory; a tree lock uses the prefixed file for  *)
(* a regular file only.                                                     *)
Placed(h) ==
  /\ Writable(h[1])
  /\ h[1][1] = "pre" /\ h[2] = "T" => kind[PathOf(h[1])] = "file"
ClaimsPlaced == \A o \in Owners : \A h \in Claims(o) : Placed(h)
RequestPlaced ==
  \A o \in Owners : pc[o] \in Acquiring =>
    /\ req[o].file \in ExactFiles(req[o].path)
    /\ req[o].type = "T" /\ req[o].file = Pre(req[o].path)
         => kind[req[o].path] = "file"

(* A lock is asked for again only after its token was destroyed.            *)
AskedAgain ==
  \A o \in Owners :
    pc[o] \in Acquiring /\ <<req[o].file, req[o].type>> \in held[o]
    => <<o, req[o].file>> \in lost

IInv == TypeOK /\ RequestPlaced /\ AskedAgain /\ ClaimsPlaced /\ TokenPresent /\ OneStillOpen
=============================================================================
