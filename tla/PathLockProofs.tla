--------------------------- MODULE PathLockProofs ---------------------------
(* Proofs about PathLock, for any set of owners, any tree of paths and any  *)
(* lock_expire: type correctness and the exclusion of intact locks.         *)
EXTENDS PathLock, TLAPS

ReqType == [type : Types, path : Paths, file : LockFiles]

(* The placeholder request and its lock file are well typed.               *)
LEMMA NoReqType == NoReq \in ReqType /\ NoReq.file \in LockFiles
<1>1. (CHOOSE p \in Paths : TRUE) \in Paths
  BY PathsAssumption
<1> QED
  BY <1>1 DEF NoReq, ReqType, Types, LockFiles, Dir

(* An absent lock file is well typed.                                      *)
LEMMA NoTokenType == NoToken \in Tokens
BY DEF NoToken, Tokens, Types, Nobody

(* The lock files of a path, its ancestors and descendants exist.          *)
LEMMA FilesOfPaths ==
  ASSUME NEW p \in Paths
  PROVE  /\ Dir(p) \in LockFiles /\ Pre(p) \in LockFiles
         /\ AncFiles(p) \subseteq LockFiles
         /\ ExactFiles(p) \subseteq LockFiles
         /\ DescFiles(p) \subseteq LockFiles
BY AncAssumption DEF Dir, Pre, LockFiles, AncFiles, ExactFiles, DescFiles, Desc

(* A scan reads lock files of the model in stages 0 to 4.                   *)
LEMMA ScanType ==
  ASSUME NEW t, NEW p \in Paths, NEW f \in LockFiles
  PROVE  /\ PreScan(t, p, f) \subseteq (0 .. 4) \X LockFiles
         /\ PostScan(t, p, f) \subseteq (0 .. 4) \X LockFiles
BY FilesOfPaths DEF PreScan, PostScan, AncStage

(* The lock file chosen for a call is one of the model.                    *)
LEMMA LockPathType ==
  ASSUME NEW t, NEW p \in Paths
  PROVE  LockPath(t, p) \in LockFiles
BY FilesOfPaths DEF LockPath, ExactLockPath, TreeLockPath

(* A token written now is well typed.                                      *)
LEMMA TokenType ==
  ASSUME TypeOK, NEW o \in Owners, NEW t \in Types
  PROVE  Token(o, t) \in Tokens
BY DEF TypeOK, Token, Tokens

(* The end of an acquire call keeps the types.                             *)
LEMMA ReturnType ==
  ASSUME TypeOK, NEW o \in Owners, Return(o)
  PROVE  /\ pc' \in [Owners -> PCs] /\ req' \in [Owners -> ReqType]
         /\ todo' \in [Owners -> SUBSET ((0 .. 4) \X LockFiles)]
         /\ cf' \in [Owners -> LockFiles] /\ seen' \in [Owners -> Tokens]
         /\ late' \in [Owners -> BOOLEAN]
BY NoReqType, NoTokenType DEF TypeOK, Return, Goto, PCs, Acquiring, ReqType

(* The retry of an acquire call keeps the types.                           *)
LEMMA AgainType ==
  ASSUME TypeOK, NEW o \in Owners, Again(o)
  PROVE  /\ pc' \in [Owners -> PCs] /\ req' \in [Owners -> ReqType]
         /\ todo' \in [Owners -> SUBSET ((0 .. 4) \X LockFiles)]
         /\ cf' \in [Owners -> LockFiles] /\ seen' \in [Owners -> Tokens]
         /\ late' \in [Owners -> BOOLEAN]
<1>1. PreScan(req[o].type, req[o].path, req[o].file) \in SUBSET ((0 .. 4) \X LockFiles)
  BY ScanType DEF TypeOK
<1> QED
  BY <1>1, NoReqType, NoTokenType DEF TypeOK, Again, Goto, PCs, Acquiring, ReqType

(* The deadline test keeps the types.                                      *)
LEMMA ReturnIfLateType ==
  ASSUME TypeOK, NEW o \in Owners, ReturnIfLate(o)
  PROVE  /\ pc' \in [Owners -> PCs] /\ req' \in [Owners -> ReqType]
         /\ todo' \in [Owners -> SUBSET ((0 .. 4) \X LockFiles)]
         /\ cf' \in [Owners -> LockFiles] /\ seen' \in [Owners -> Tokens]
         /\ late' \in [Owners -> BOOLEAN]
BY ReturnType, AgainType DEF ReturnIfLate

(* What follows a conflict keeps the types.                                *)
LEMMA AfterConflictType ==
  ASSUME TypeOK, NEW o \in Owners, NEW b, AfterConflict(o, b)
  PROVE  /\ pc' \in [Owners -> PCs] /\ req' \in [Owners -> ReqType]
         /\ todo' \in [Owners -> SUBSET ((0 .. 4) \X LockFiles)]
         /\ cf' \in [Owners -> LockFiles] /\ seen' \in [Owners -> Tokens]
         /\ late' \in [Owners -> BOOLEAN]
BY ReturnType, AgainType
   DEF AfterConflict, TypeOK, Goto, locals, PCs, Acquiring, ReqType

(* One read of a scan keeps the types.                                     *)
LEMMA ReadOneType ==
  ASSUME TypeOK, NEW o \in Owners, NEW found \in PCs, NEW clean \in PCs,
         ReadOne(o, found, clean)
  PROVE  TypeOK'
<1>1. PICK r \in todo[o] :
        /\ IF Conflicting(o, r[1], r[2])
           THEN /\ Goto(o, found)
                /\ cf' = [cf EXCEPT ![o] = r[2]]
                /\ todo' = [todo EXCEPT ![o] = {}]
           ELSE /\ Goto(o, IF todo[o] = {r} THEN clean ELSE pc[o])
                /\ todo' = [todo EXCEPT ![o] = @ \ {r}]
                /\ UNCHANGED cf
        /\ UNCHANGED <<req, seen, late, held, shared>>
  BY DEF ReadOne
<1>2. r[2] \in LockFiles
  BY DEF TypeOK
<1>3. /\ pc' \in [Owners -> PCs] /\ cf' \in [Owners -> LockFiles]
      /\ todo' \in [Owners -> SUBSET ((0 .. 4) \X LockFiles)]
  <2>0. /\ pc \in [Owners -> PCs] /\ cf \in [Owners -> LockFiles]
        /\ todo \in [Owners -> SUBSET ((0 .. 4) \X LockFiles)]
    BY DEF TypeOK
  <2>1. CASE Conflicting(o, r[1], r[2])
    <3>1. /\ pc' = [pc EXCEPT ![o] = found] /\ cf' = [cf EXCEPT ![o] = r[2]]
          /\ todo' = [todo EXCEPT ![o] = {}]
      BY <1>1, <2>1, Zenon DEF Goto
    <3>2. {} \in SUBSET ((0 .. 4) \X LockFiles)
      OBVIOUS
    <3> QED
      BY <1>2, <2>0, <3>1, <3>2
  <2>2. CASE ~Conflicting(o, r[1], r[2])
    <3> DEFINE x == IF todo[o] = {r} THEN clean ELSE pc[o]
               y == todo[o] \ {r}
    <3>1. x \in PCs
      BY <2>0
    <3>2. y \in SUBSET ((0 .. 4) \X LockFiles)
      BY <2>0
    <3>3. pc' = [pc EXCEPT ![o] = x] /\ cf' = cf /\ todo' = [todo EXCEPT ![o] = y]
      BY <1>1, <2>2, Zenon DEF Goto
    <3> HIDE DEF x, y
    <3> QED
      BY <2>0, <3>1, <3>2, <3>3
  <2> QED
    BY <2>1, <2>2
<1> QED
  BY <1>1, <1>3 DEF TypeOK, shared

(* _remove_lock_file keeps the types.                                      *)
LEMMA RemoveType ==
  ASSUME TypeOK, NEW o \in Owners, NEW f \in LockFiles, Remove(o, f)
  PROVE  files' \in [LockFiles -> Tokens] /\ lost' \subseteq Owners \X LockFiles
BY NoTokenType DEF TypeOK, Remove, Clobbered

(* _create_lock_file keeps the types.                                      *)
LEMMA WriteTokenType ==
  ASSUME TypeOK, NEW o \in Owners, NEW f \in LockFiles, NEW t \in Types,
         WriteToken(o, f, t)
  PROVE  files' \in [LockFiles -> Tokens] /\ lost' \subseteq Owners \X LockFiles
BY TokenType DEF TypeOK, WriteToken, Clobbered

(* A handle lists lock files of the model.                                 *)
LEMMA HeldFilesType ==
  ASSUME TypeOK, NEW o \in Owners
  PROVE  HeldFiles(o) \subseteq LockFiles
BY DEF TypeOK, HeldFiles

(* Every step keeps the types; one case per action.                        *)
LEMMA TypeStep == TypeOK /\ [Next]_vars => TypeOK'
<1> SUFFICES ASSUME TypeOK, [Next]_vars PROVE TypeOK'
  OBVIOUS
<1>1. ASSUME NEW o \in Owners, NEW t \in Types, NEW p \in Paths, Acquire(o, t, p)
      PROVE  TypeOK'
  <2>1. PreScan(t, p, LockPath(t, p)) \in SUBSET ((0 .. 4) \X LockFiles)
    BY ScanType, LockPathType
  <2> QED
    BY <1>1, <2>1, LockPathType DEF Acquire, TypeOK, Goto, shared, PCs, Acquiring
<1>2. ASSUME NEW o \in Owners, StartRelease(o) PROVE TypeOK'
  BY <1>2 DEF StartRelease, TypeOK, Goto, shared, locals, PCs
<1>3. ASSUME NEW o \in Owners, NEW p \in Paths, NEW k \in {"dir", "file"},
             CreatePath(o, p, k)
      PROVE  TypeOK'
  <2>1. kind' \in [Paths -> PathKinds]
    BY <1>3 DEF CreatePath, TypeOK, PathKinds
  <2>2. UNCHANGED <<files, clock, pc, req, todo, cf, seen, late, held, rw, lost>>
    BY <1>3 DEF CreatePath, locals
  <2> QED
    BY <2>1, <2>2 DEF TypeOK
<1>4. ASSUME NEW o \in Owners, PreCheck(o) PROVE TypeOK'
  BY <1>4, ReadOneType DEF PreCheck, PCs, Acquiring
<1>5. ASSUME NEW o \in Owners, StaleCheck(o) PROVE TypeOK'
  <2>1. /\ pc' \in [Owners -> PCs] /\ req' \in [Owners -> ReqType]
        /\ todo' \in [Owners -> SUBSET ((0 .. 4) \X LockFiles)]
        /\ cf' \in [Owners -> LockFiles] /\ seen' \in [Owners -> Tokens]
        /\ late' \in [Owners -> BOOLEAN]
    <3>1. CASE ReturnIfLate(o)
      BY <3>1, ReturnIfLateType
    <3>2. CASE Goto(o, "rmstale") /\ UNCHANGED locals
      BY <3>2 DEF Goto, TypeOK, locals, PCs, Acquiring, ReqType
    <3> QED
      BY <1>5, <3>1, <3>2, Zenon DEF StaleCheck
  <2>2. UNCHANGED <<held, shared>>
    BY <1>5 DEF StaleCheck
  <2> QED
    BY <2>1, <2>2 DEF TypeOK, shared, ReqType
<1>6. ASSUME NEW o \in Owners, RemoveStale(o) PROVE TypeOK'
  BY <1>6, RemoveType, AgainType DEF RemoveStale, TypeOK, ReqType
<1>7. ASSUME NEW o \in Owners, Mkdir(o) PROVE TypeOK'
  <2>1. CASE Return(o) /\ UNCHANGED <<kind, files, clock, held, rw, lost>>
    BY <2>1, ReturnType DEF TypeOK, ReqType
  <2>2. CASE /\ kind' \in [Paths -> PathKinds] /\ Goto(o, "write")
             /\ UNCHANGED <<locals, files, clock, held, rw, lost>>
    BY <2>2 DEF TypeOK, Goto, locals, PCs, Acquiring
  <2>3. ASSUME NEW need,
               kind' = [q \in Paths |-> IF q \in need /\ kind[q] = "missing" THEN "dir" ELSE kind[q]]
        PROVE  kind' \in [Paths -> PathKinds]
    BY <2>3 DEF TypeOK, PathKinds
  <2> QED
    BY <1>7, <2>1, <2>2, <2>3 DEF Mkdir
<1>8. ASSUME NEW o \in Owners, Write(o) PROVE TypeOK'
  <2>1. PostScanOf(o) \in SUBSET ((0 .. 4) \X LockFiles)
    BY ScanType DEF TypeOK, PostScanOf
  <2>2. req[o].file \in LockFiles /\ req[o].type \in Types
    BY DEF TypeOK
  <2>3. CASE Writable(req[o].file)
    BY <1>8, <2>1, <2>2, <2>3, WriteTokenType
       DEF Write, TypeOK, Goto, PCs, Acquiring
  <2>4. CASE ~Writable(req[o].file)
    BY <1>8, <2>4, ReturnType DEF Write, TypeOK, ReqType
  <2> QED
    BY <2>3, <2>4
<1>9. ASSUME NEW o \in Owners, VerifyWrite(o) PROVE TypeOK'
  BY <1>9, ReturnIfLateType
     DEF VerifyWrite, TypeOK, Goto, shared, locals, PCs, Acquiring, ReqType
<1>10. ASSUME NEW o \in Owners, PostCheck(o) PROVE TypeOK'
  BY <1>10, ReadOneType DEF PostCheck, PCs, Acquiring
<1>11. ASSUME NEW o \in Owners, ReadTheirs(o) PROVE TypeOK'
  <2>1. CASE files[cf[o]] = NoToken
    BY <1>11, <2>1, AfterConflictType DEF ReadTheirs, TypeOK, shared, ReqType
  <2>2. CASE files[cf[o]] # NoToken
    <3>1. files[cf[o]] \in Tokens
      BY DEF TypeOK
    <3> QED
      BY <1>11, <2>2, <3>1 DEF ReadTheirs, TypeOK, Goto, shared, PCs, Acquiring
  <2> QED
    BY <2>1, <2>2
<1>12. ASSUME NEW o \in Owners, ReadMine(o) PROVE TypeOK'
  BY <1>12, AfterConflictType
     DEF ReadMine, TypeOK, Goto, shared, locals, PCs, Acquiring, ReqType
<1>13. ASSUME NEW o \in Owners, BackOffCheck(o) PROVE TypeOK'
  BY <1>13, AfterConflictType
     DEF BackOffCheck, TypeOK, Goto, shared, locals, PCs, Acquiring, ReqType
<1>14. ASSUME NEW o \in Owners, BackOff(o) PROVE TypeOK'
  BY <1>14, RemoveType, AfterConflictType DEF BackOff, TypeOK, ReqType
<1>15. ASSUME NEW o \in Owners, QuitCheck(o) PROVE TypeOK'
  BY <1>15, ReturnType
     DEF QuitCheck, TypeOK, Goto, shared, locals, PCs, Acquiring, ReqType
<1>16. ASSUME NEW o \in Owners, Quit(o) PROVE TypeOK'
  BY <1>16, RemoveType, ReturnType DEF Quit, TypeOK, ReqType
<1>17. ASSUME NEW o \in Owners, Verify(o) PROVE TypeOK'
  <2>1. <<req[o].file, req[o].type>> \in LockFiles \X Types
    BY DEF TypeOK
  <2>2. CASE OwnedBy(o, req[o].file)
    <3>1. held' \in [Owners -> SUBSET (LockFiles \X Types)]
      BY <1>17, <2>1, <2>2 DEF Verify, TypeOK
    <3> QED
      BY <1>17, <2>2, <3>1, ReturnType DEF Verify, TypeOK, shared, ReqType
  <2>3. CASE ~OwnedBy(o, req[o].file)
    BY <1>17, <2>3, ReturnIfLateType DEF Verify, TypeOK, shared, ReqType
  <2> QED
    BY <2>2, <2>3
<1>18. ASSUME NEW o \in Owners, ReleaseCheck(o) PROVE TypeOK'
  <2> DEFINE Typed == /\ pc' \in [Owners -> PCs] /\ cf' \in [Owners -> LockFiles]
                      /\ held' \in [Owners -> SUBSET (LockFiles \X Types)]
  <2>1. Typed
    <3>1. ASSUME NEW f \in HeldFiles(o), Goto(o, "relrm"),
                 cf' = [cf EXCEPT ![o] = f], UNCHANGED held
          PROVE  Typed
      BY <3>1, HeldFilesType DEF TypeOK, Goto, PCs
    <3>2. ASSUME NEW f \in HeldFiles(o), Drop(o, f), UNCHANGED <<pc, cf>>
          PROVE  Typed
      BY <3>2 DEF TypeOK, Drop
    <3>3. ASSUME Goto(o, "done"), UNCHANGED <<cf, held>>
          PROVE  Typed
      BY <3>3 DEF TypeOK, Goto, PCs
    <3> QED
      BY <1>18, <3>1, <3>2, <3>3 DEF ReleaseCheck
  <2> QED
    BY <1>18, <2>1 DEF ReleaseCheck, TypeOK, shared
<1>19. ASSUME NEW o \in Owners, ReleaseRemove(o) PROVE TypeOK'
  BY <1>19, NoTokenType, NoReqType
     DEF ReleaseRemove, Clobbered, Drop, TypeOK, Goto, PCs
<1>20. ASSUME NEW o \in Owners, Deadline(o) PROVE TypeOK'
  BY <1>20 DEF Deadline, TypeOK, shared
<1>21. ASSUME NEW o \in Owners, RefreshRead(o) PROVE TypeOK'
  <2>1. \A f \in LockFiles : files[f].type \in Types
    BY DEF TypeOK, Tokens
  <2>2. PICK f \in HeldFiles(o) :
          IF OwnedBy(o, f)
          THEN rw' = [rw EXCEPT ![o] = {<<f, files[f].type>>}] /\ UNCHANGED held
          ELSE Drop(o, f) /\ UNCHANGED rw
    BY <1>21 DEF RefreshRead
  <2>3. <<f, files[f].type>> \in LockFiles \X Types
    BY <2>1, HeldFilesType
  <2>4. /\ rw' \in [Owners -> SUBSET (LockFiles \X Types)]
        /\ held' \in [Owners -> SUBSET (LockFiles \X Types)]
    <3>1. {h \in held[o] : h[1] # f} \in SUBSET (LockFiles \X Types)
      BY DEF TypeOK
    <3>2. CASE OwnedBy(o, f)
      BY <2>2, <2>3, <3>2 DEF TypeOK
    <3>3. CASE ~OwnedBy(o, f)
      BY <2>2, <3>1, <3>3 DEF Drop, TypeOK
    <3> QED
      BY <3>2, <3>3
  <2> QED
    BY <1>21, <2>4 DEF RefreshRead, TypeOK, locals
<1>22. ASSUME NEW o \in Owners, RefreshWrite(o) PROVE TypeOK'
  <2>1. PICK w \in rw[o] : /\ WriteToken(o, w[1], w[2])
                           /\ rw' = [rw EXCEPT ![o] = {}]
                           /\ UNCHANGED <<kind, clock, pc, locals, held>>
    BY <1>22 DEF RefreshWrite
  <2>2. w[1] \in LockFiles /\ w[2] \in Types
    BY DEF TypeOK
  <2> QED
    BY <2>1, <2>2, WriteTokenType DEF TypeOK, locals
<1>23. ASSUME NEW o \in Owners, Crash(o) PROVE TypeOK'
  BY <1>23, NoReqType, NoTokenType DEF Crash, TypeOK, Goto, PCs, ReqType
<1>24. CASE Tick
  BY <1>24 DEF Tick, TypeOK, locals
<1>25. CASE UNCHANGED vars \/ Finished
  BY <1>25 DEF vars, Finished, TypeOK
<1> QED
  BY <1>1, <1>2, <1>3, <1>4, <1>5, <1>6, <1>7, <1>8, <1>9, <1>10, <1>11, <1>12,
     <1>13, <1>14, <1>15, <1>16, <1>17, <1>18, <1>19, <1>20, <1>21, <1>22, <1>23,
     <1>24, <1>25
     DEF Next, Call, AcquireStep, ReleaseStep

(* The initial states are well typed.                                      *)
LEMMA TypeInit == Init => TypeOK
BY NoReqType, NoTokenType, KindsAssumption DEF Init, TypeOK, PCs, Acquiring, ReqType

(* Every reachable state of the lock protocol is well typed.                *)
THEOREM TypeCorrect == Spec => []TypeOK
BY TypeInit, TypeStep, PTL DEF Spec
-----------------------------------------------------------------------------
(* What most steps do: they leave the other owners alone, keep what exists, *)
(* destroy no token without recording it, and neither make a claim nor pass *)
(* an unread file of the double-check.                                      *)
KindGrows == \A p \in Paths : kind[p] # "missing" => kind'[p] = kind[p]

OthersKept(o) ==
  \A u \in Owners \ {o} : /\ pc'[u] = pc[u] /\ req'[u] = req[u]
                          /\ todo'[u] = todo[u] /\ held'[u] = held[u]

TokensKept ==
  \A u \in Owners : \A h \in Claims(u)' :
    OwnedBy(u, h[1]) /\ <<u, h[1]>> \notin lost'
    => /\ files'[h[1]].owner = u
       /\ files[h[1]].type = "T" => files'[h[1]].type = "T"

RequestKept(o) ==
  pc'[o] \in Acquiring => /\ pc[o] \in Acquiring /\ req'[o] = req[o]
                          /\ held'[o] \subseteq held[o]

ClaimsKept(o) ==
  /\ Claims(o)' \subseteq Claims(o)
  /\ \A u \in Owners \ {o} : \A h1 \in Claims(o)', h2 \in IntactClaims(u) :
        h1 \notin held[o] /\ Unread(o, h2) => h1 \notin held'[o] /\ Unread(o, h2)'

(* Claims are well typed.                                                  *)
LEMMA ClaimType ==
  ASSUME TypeOK, NEW o \in Owners
  PROVE  Claims(o) \subseteq LockFiles \X Types /\ IntactClaims(o) \subseteq Claims(o)
BY DEF TypeOK, Claims, Pending, IntactClaims

(* A lock file stays placed while paths are only created.                  *)
LEMMA PlacedGrows ==
  ASSUME TypeOK, KindGrows, NEW h \in LockFiles \X Types, Placed(h)
  PROVE  Placed(h)'
<1>1. PathOf(h[1]) \in Paths /\ Anc[PathOf(h[1])] \subseteq Paths
  BY AncAssumption DEF LockFiles, PathOf
<1> QED
  BY <1>1 DEF KindGrows, Placed, Writable, TypeOK

(* A step that leaves the others alone leaves their claims alone.          *)
LEMMA OthersClaims ==
  ASSUME NEW o \in Owners, OthersKept(o), NEW u \in Owners \ {o}
  PROVE  /\ Claims(u)' = Claims(u) /\ Pending(u)' = Pending(u) /\ held'[u] = held[u]
         /\ \A h \in LockFiles \X Types : Unread(u, h)' <=> Unread(u, h)
BY DEF OthersKept, Claims, Pending, Unread

(* The invariant is kept by a step that keeps the conditions above.        *)
LEMMA StepPreserves ==
  ASSUME IInv, TypeOK', NEW o \in Owners, lost \subseteq lost',
         KindGrows, OthersKept(o), TokensKept, RequestKept(o), ClaimsKept(o)
  PROVE  IInv'
<1>1. \A u \in Owners : Claims(u)' \subseteq Claims(u)
  BY OthersClaims DEF ClaimsKept
<1>2. \A u \in Owners : IntactClaims(u)' \subseteq IntactClaims(u)
  BY <1>1 DEF IntactClaims
<1>3. RequestPlaced'
  <2> SUFFICES ASSUME NEW u \in Owners, pc'[u] \in Acquiring
               PROVE  /\ req'[u].file \in ExactFiles(req'[u].path)
                      /\ req'[u].type = "T" /\ req'[u].file = Pre(req'[u].path)
                           => kind'[req'[u].path] = "file"
    BY DEF RequestPlaced
  <2>1. pc[u] \in Acquiring /\ req'[u] = req[u]
    BY DEF RequestKept, OthersKept
  <2>2. req[u].path \in Paths
    BY DEF IInv, TypeOK
  <2> QED
    BY <2>1, <2>2 DEF IInv, RequestPlaced, KindGrows
<1>4. AskedAgain'
  <2> SUFFICES ASSUME NEW u \in Owners, pc'[u] \in Acquiring,
                      <<req'[u].file, req'[u].type>> \in held'[u]
               PROVE  <<u, req'[u].file>> \in lost'
    BY DEF AskedAgain
  <2> QED
    BY DEF RequestKept, OthersKept, IInv, AskedAgain
<1>5. ClaimsPlaced'
  <2> SUFFICES ASSUME NEW u \in Owners, NEW h \in Claims(u)' PROVE Placed(h)'
    BY DEF ClaimsPlaced
  <2> QED
    BY <1>1, PlacedGrows, ClaimType DEF IInv, ClaimsPlaced
<1>6. TokenPresent'
  <2> SUFFICES ASSUME NEW u \in Owners, NEW h \in IntactClaims(u)'
               PROVE  /\ files'[h[1]].owner = u
                      /\ h[2] = "T" => files'[h[1]].type = "T"
    BY DEF TokenPresent, OwnedBy
  <2>1. h \in IntactClaims(u) /\ h \in Claims(u)' /\ <<u, h[1]>> \notin lost'
    BY <1>2 DEF IntactClaims
  <2> QED
    BY <2>1 DEF IInv, TokenPresent, TokensKept
<1>7. OneStillOpen'
  <2> SUFFICES ASSUME NEW o1 \in Owners, NEW o2 \in Owners, o1 # o2,
                      NEW h1 \in IntactClaims(o1)', NEW h2 \in IntactClaims(o2)',
                      Sees(h1, h2), Sees(h2, h1)
               PROVE  \/ h1 \notin held'[o1] /\ Unread(o1, h2)'
                      \/ h2 \notin held'[o2] /\ Unread(o2, h1)'
    BY DEF OneStillOpen, Sees
  <2>1. /\ h1 \in IntactClaims(o1) /\ h2 \in IntactClaims(o2)
        /\ h1 \in Claims(o1)' /\ h2 \in Claims(o2)'
        /\ h1 \in LockFiles \X Types /\ h2 \in LockFiles \X Types
    BY <1>2, ClaimType DEF IntactClaims, IInv
  <2>2. \/ h1 \notin held[o1] /\ Unread(o1, h2)
        \/ h2 \notin held[o2] /\ Unread(o2, h1)
    BY <2>1 DEF IInv, OneStillOpen
  <2>3. ASSUME NEW u \in Owners, NEW v \in Owners, u # v,
               NEW g1 \in Claims(u)', NEW g2 \in IntactClaims(v),
               g1 \notin held[u], Unread(u, g2)
        PROVE  g1 \notin held'[u] /\ Unread(u, g2)'
    <3>1. CASE u = o
      BY <2>3, <3>1 DEF ClaimsKept
    <3>2. CASE u # o
      BY <2>3, <3>2, OthersClaims, ClaimType DEF IInv
    <3> QED
      BY <3>1, <3>2
  <2> QED
    BY <2>1, <2>2, <2>3
<1> QED
  BY <1>3, <1>4, <1>5, <1>6, <1>7 DEF IInv

(* A control step of o that ends outside the double-check.                  *)
Outside(o) ==
  /\ pc'[o] \notin {"verify1", "post", "verify"}
  /\ pc'[o] \in Acquiring => pc[o] \in Acquiring /\ req'[o] = req[o]
  /\ \A u \in Owners \ {o} : pc'[u] = pc[u] /\ req'[u] = req[u] /\ todo'[u] = todo[u]

(* Returning leaves the double-check.                                      *)
LEMMA ReturnOutside ==
  ASSUME TypeOK, NEW o \in Owners, Return(o)
  PROVE  Outside(o)
BY DEF TypeOK, Return, Goto, Outside, Acquiring

(* Retrying leaves the double-check.                                       *)
LEMMA AgainOutside ==
  ASSUME TypeOK, NEW o \in Owners, pc[o] \in Acquiring, Again(o)
  PROVE  Outside(o)
BY DEF TypeOK, Again, Goto, Outside

(* So do the deadline test and the end of a conflict.                      *)
LEMMA LoopOutside ==
  ASSUME TypeOK, NEW o \in Owners, pc[o] \in Acquiring,
         ReturnIfLate(o) \/ AfterConflict(o, FALSE) \/ AfterConflict(o, TRUE)
  PROVE  Outside(o)
<1>1. ASSUME NEW l \in PCs \ {"verify1", "post", "verify"}, Goto(o, l), UNCHANGED locals
      PROVE  Outside(o)
  BY <1>1 DEF TypeOK, Goto, locals, Outside
<1>2. "quitown" \in PCs \ {"verify1", "post", "verify"}
  BY DEF PCs, Acquiring
<1>3. "quitrm" \in PCs \ {"verify1", "post", "verify"}
  BY DEF PCs, Acquiring
<1> QED
  BY <1>1, <1>2, <1>3, ReturnOutside, AgainOutside DEF ReturnIfLate, AfterConflict

(* Steps outside the double-check that make no claim.                       *)
LEMMA OutsidePreserves ==
  ASSUME IInv, TypeOK', NEW o \in Owners, lost \subseteq lost', KindGrows,
         Outside(o), held'[o] \subseteq held[o],
         \A u \in Owners \ {o} : held'[u] = held[u], TokensKept
  PROVE  IInv'
<1>1. OthersKept(o) /\ RequestKept(o)
  BY DEF Outside, OthersKept, RequestKept
<1>2. Pending(o)' = {}
  BY DEF Outside, Pending
<1>3. ClaimsKept(o)
  BY <1>2 DEF ClaimsKept, Claims
<1> QED
  BY <1>1, <1>3, StepPreserves

(* A step that writes no lock file destroys no token.                      *)
LEMMA NoFileChange ==
  ASSUME UNCHANGED <<files, kind, lost>>
  PROVE  lost \subseteq lost' /\ KindGrows /\ TokensKept
BY DEF KindGrows, TokensKept, OwnedBy

(* Every token that a removal or a write destroys is recorded in lost.      *)
LEMMA RemoveKeeps ==
  ASSUME TypeOK, TypeOK', NEW o \in Owners, NEW f \in LockFiles, Remove(o, f),
         Outside(o), UNCHANGED held
  PROVE  lost \subseteq lost' /\ TokensKept
<1>1. lost \subseteq lost'
  BY DEF Remove
<1>2. ASSUME NEW u \in Owners, NEW h \in Claims(u)', OwnedBy(u, h[1]),
             <<u, h[1]>> \notin lost'
      PROVE  files'[h[1]] = files[h[1]]
  <2>1. h[1] \in LockFiles
    BY <1>2 DEF TypeOK, Claims, Pending
  <2>2. CASE u = o
    <3>1. h \in held[o]
      BY <1>2, <2>2 DEF Outside, Claims, Pending
    <3>2. h[1] # f
      BY <1>2, <2>2, <3>1 DEF Remove, HeldFiles
    <3> QED
      BY <2>1, <3>2 DEF Remove, TypeOK
  <2>3. CASE u # o
    <3>1. h[1] # f
      BY <1>2, <2>3 DEF Remove, Clobbered
    <3> QED
      BY <2>1, <3>1 DEF Remove, TypeOK
  <2> QED
    BY <2>2, <2>3
<1> QED
  BY <1>1, <1>2 DEF TokensKept, OwnedBy

(* The same for a write.                                                   *)
LEMMA WriteKeeps ==
  ASSUME TypeOK, TypeOK', NEW o \in Owners, NEW f \in LockFiles, NEW t \in Types,
         WriteToken(o, f, t)
  PROVE  lost \subseteq lost' /\ TokensKept
<1>1. lost \subseteq lost'
  BY DEF WriteToken
<1>2. ASSUME NEW u \in Owners, NEW h \in Claims(u)', OwnedBy(u, h[1]),
             <<u, h[1]>> \notin lost'
      PROVE  /\ files'[h[1]].owner = u
             /\ files[h[1]].type = "T" => files'[h[1]].type = "T"
  <2>1. h[1] \in LockFiles
    BY <1>2 DEF TypeOK, Claims, Pending
  <2>2. CASE h[1] # f
    BY <1>2, <2>1, <2>2 DEF WriteToken, TypeOK, OwnedBy
  <2>3. CASE h[1] = f
    <3>1. u = o
      BY <1>2, <2>3 DEF WriteToken, Clobbered
    <3>2. files'[f] = Token(o, t)
      BY DEF WriteToken, TypeOK
    <3>3. ~(t = "E" /\ files[f].type = "T")
      BY <1>2, <2>3, <3>1 DEF WriteToken
    <3> QED
      BY <2>3, <3>1, <3>2, <3>3 DEF Token, Types
  <2> QED
    BY <2>2, <2>3
<1> QED
  BY <1>1, <1>2 DEF TokensKept

(* Steps that run beside the call of o: refresh, clock, deadline.           *)
LEMMA BesidePreserves ==
  ASSUME IInv, TypeOK', NEW o \in Owners, lost \subseteq lost', KindGrows,
         UNCHANGED <<pc, req, todo>>, held'[o] \subseteq held[o],
         \A u \in Owners \ {o} : held'[u] = held[u], TokensKept
  PROVE  IInv'
<1>1. OthersKept(o) /\ RequestKept(o)
  BY DEF OthersKept, RequestKept
<1>2. Pending(o)' = Pending(o) /\ \A h \in LockFiles \X Types : Unread(o, h)' <=> Unread(o, h)
  BY DEF Pending, Unread
<1>3. ClaimsKept(o)
  BY <1>2, ClaimType DEF ClaimsKept, Claims, IInv
<1> QED
  BY <1>1, <1>3, StepPreserves

(* A new call claims nothing yet.                                          *)
LEMMA AcquirePreserves ==
  ASSUME IInv, TypeOK', NEW o \in Owners, NEW t \in Types, NEW p \in Paths,
         Acquire(o, t, p)
  PROVE  IInv'
<1> DEFINE f == LockPath(t, p)
<1>1. /\ UNCHANGED <<files, kind, lost, held>>
      /\ pc'[o] = "check" /\ req'[o] = [type |-> t, path |-> p, file |-> f]
      /\ \A u \in Owners \ {o} : pc'[u] = pc[u] /\ req'[u] = req[u] /\ todo'[u] = todo[u]
  BY DEF Acquire, Goto, shared, IInv, TypeOK
<1>2. \A u \in Owners \ {o} : /\ Claims(u)' = Claims(u)
                              /\ \A h \in LockFiles \X Types : Unread(u, h)' <=> Unread(u, h)
  BY <1>1, OthersClaims DEF OthersKept
<1>3. Claims(o)' = held[o]
  BY <1>1 DEF Claims, Pending
<1>4. \A u \in Owners : Claims(u)' \subseteq Claims(u) /\ IntactClaims(u)' \subseteq IntactClaims(u)
  BY <1>1, <1>2, <1>3 DEF Claims, IntactClaims
<1>5. RequestPlaced'
  <2>1. f \in ExactFiles(p) /\ (t = "T" /\ f = Pre(p) => kind[p] = "file")
    BY DEF LockPath, ExactLockPath, TreeLockPath, ExactFiles, Dir, Pre
  <2> QED
    BY <1>1, <2>1 DEF IInv, RequestPlaced
<1>6. AskedAgain'
  <2>1. ASSUME <<f, t>> \in held[o] PROVE <<o, f>> \in lost
    <3>1. f \in HeldFiles(o)
      BY <2>1 DEF HeldFiles
    <3>2. ~(OwnedBy(o, f) /\ (t = "T" => files[f].type = "T"))
      BY <3>1 DEF Acquire, Reusable
    <3>3. ASSUME <<o, f>> \notin lost PROVE FALSE
      BY <2>1, <3>2, <3>3 DEF IInv, TokenPresent, IntactClaims, Claims
    <3> QED
      BY <3>3
  <2> QED
    BY <1>1, <2>1 DEF IInv, AskedAgain
<1>7. ClaimsPlaced'
  <2>1. KindGrows
    BY <1>1 DEF KindGrows
  <2> QED
    BY <1>4, <2>1, PlacedGrows, ClaimType DEF IInv, ClaimsPlaced
<1>8. TokenPresent'
  BY <1>1, <1>4 DEF IInv, TokenPresent, OwnedBy
<1>9. OneStillOpen'
  <2> SUFFICES ASSUME NEW o1 \in Owners, NEW o2 \in Owners, o1 # o2,
                      NEW h1 \in IntactClaims(o1)', NEW h2 \in IntactClaims(o2)',
                      Sees(h1, h2), Sees(h2, h1)
               PROVE  \/ h1 \notin held'[o1] /\ Unread(o1, h2)'
                      \/ h2 \notin held'[o2] /\ Unread(o2, h1)'
    BY DEF OneStillOpen, Sees
  <2>1. /\ h1 \in IntactClaims(o1) /\ h2 \in IntactClaims(o2)
        /\ h1 \in LockFiles \X Types /\ h2 \in LockFiles \X Types
    BY <1>4, ClaimType DEF IInv
  <2>2. \/ h1 \notin held[o1] /\ Unread(o1, h2)
        \/ h2 \notin held[o2] /\ Unread(o2, h1)
    BY <2>1 DEF IInv, OneStillOpen
  <2>3. ~Unread(o, h1) /\ ~Unread(o, h2)
    BY DEF Acquire, Unread
  <2> QED
    BY <1>1, <1>2, <2>1, <2>2, <2>3
<1> QED
  BY <1>5, <1>6, <1>7, <1>8, <1>9 DEF IInv

(* Writing the token opens a claim that has read nothing yet.               *)
LEMMA WritePreserves ==
  ASSUME IInv, TypeOK', NEW o \in Owners, pc[o] = "write", Writable(req[o].file),
         WriteToken(o, req[o].file, req[o].type),
         Goto(o, IF req[o].type = "E" THEN "verify1" ELSE "post"),
         todo' = [todo EXCEPT ![o] = PostScanOf(o)],
         UNCHANGED <<req, kind, held>>
  PROVE  IInv'
<1> DEFINE f == req[o].file
           t == req[o].type
<1>1. f \in LockFiles /\ t \in Types
  BY DEF IInv, TypeOK
<1>2. /\ pc'[o] \in {"verify1", "post"} /\ todo'[o] = PostScanOf(o) /\ held'[o] = held[o]
      /\ \A u \in Owners \ {o} : pc'[u] = pc[u] /\ req'[u] = req[u] /\ todo'[u] = todo[u]
  BY DEF Goto, IInv, TypeOK
<1>3. \A u \in Owners \ {o} : /\ Claims(u)' = Claims(u)
                              /\ \A h \in LockFiles \X Types : Unread(u, h)' <=> Unread(u, h)
  BY <1>2, OthersClaims DEF OthersKept
<1>4. Claims(o) = held[o] /\ Claims(o)' = held[o] \cup {<<f, t>>}
  BY <1>1, <1>2 DEF Claims, Pending
<1>5. lost \subseteq lost' /\ TokensKept
  BY <1>1, WriteKeeps DEF IInv
<1>6. RequestPlaced' /\ AskedAgain'
  <2>1. pc[o] \in Acquiring
    BY DEF Acquiring
  <2> QED
    BY <1>2, <1>5, <2>1 DEF IInv, RequestPlaced, AskedAgain
<1>7. ClaimsPlaced'
  <2>1. KindGrows
    BY DEF KindGrows
  <2>2. Placed(<<f, t>>)
    <3>1. f \in ExactFiles(req[o].path) /\ (t = "T" /\ f = Pre(req[o].path)
            => kind[req[o].path] = "file")
      BY DEF IInv, RequestPlaced, Acquiring
    <3> QED
      BY <3>1 DEF Placed, ExactFiles, Pre, Dir, PathOf
  <2>3. ASSUME NEW u \in Owners, NEW h \in Claims(u)' PROVE Placed(h)'
    <3>1. h \in LockFiles \X Types
      BY <2>3, ClaimType, <1>1, <1>3, <1>4 DEF IInv
    <3>2. Placed(h)
      BY <1>3, <1>4, <2>2 DEF IInv, ClaimsPlaced
    <3> QED
      BY <2>1, <3>1, <3>2, PlacedGrows DEF IInv
  <2> QED
    BY <2>3 DEF ClaimsPlaced
<1>8. TokenPresent'
  <2> SUFFICES ASSUME NEW u \in Owners, NEW h \in IntactClaims(u)'
               PROVE  /\ files'[h[1]].owner = u
                      /\ h[2] = "T" => files'[h[1]].type = "T"
    BY DEF TokenPresent, OwnedBy
  <2>1. h \in Claims(u)' /\ <<u, h[1]>> \notin lost' /\ <<u, h[1]>> \notin lost
    BY <1>5 DEF IntactClaims
  <2>2. CASE h \in Claims(u)
    BY <1>5, <2>1, <2>2 DEF IInv, TokenPresent, IntactClaims, TokensKept
  <2>3. CASE h \notin Claims(u)
    <3>1. u = o /\ h = <<f, t>>
      BY <1>3, <1>4, <2>1, <2>3
    <3>2. files'[f] = Token(o, t)
      BY <1>1 DEF WriteToken, IInv, TypeOK
    <3> QED
      BY <3>1, <3>2 DEF Token
  <2> QED
    BY <2>2, <2>3
<1>9. OneStillOpen'
  <2>1. ASSUME NEW o2 \in Owners \ {o}, NEW h1 \in IntactClaims(o)',
               NEW h2 \in IntactClaims(o2)', Sees(h1, h2), Sees(h2, h1)
        PROVE  \/ h1 \notin held'[o] /\ Unread(o, h2)'
               \/ h2 \notin held'[o2] /\ Unread(o2, h1)'
    <3>1. /\ h1 \in Claims(o)' /\ h2 \in IntactClaims(o2)
          /\ <<o, h1[1]>> \notin lost
      BY <1>3, <1>5, <2>1 DEF IntactClaims
    <3>2. h1 \in LockFiles \X Types /\ h2 \in LockFiles \X Types
      BY <1>1, <1>4, <3>1, ClaimType DEF IInv, TypeOK
    <3>3. CASE h1 \in held[o]
      <4>1. h1 \in IntactClaims(o) /\ ~Unread(o, h2)
        BY <1>4, <3>1, <3>3 DEF IntactClaims, Unread
      <4>2. h2 \notin held[o2] /\ Unread(o2, h1)
        BY <2>1, <3>1, <4>1 DEF IInv, OneStillOpen
      <4> QED
        BY <1>3, <3>2, <4>2
    <3>4. CASE h1 \notin held[o]
      <4>1. h1 = <<f, t>>
        BY <1>4, <3>1, <3>4
      <4>2. PathOf(f) = req[o].path
        BY DEF IInv, RequestPlaced, Acquiring, ExactFiles, Dir, Pre, PathOf
      <4>3. Unread(o, h2)'
        BY <1>2, <2>1, <4>1, <4>2 DEF Sees, Unread, PostScanOf
      <4> QED
        BY <3>4, <4>3
    <3> QED
      BY <3>3, <3>4
  <2>2. ASSUME NEW o1 \in Owners \ {o}, NEW o2 \in Owners \ {o}, o1 # o2,
               NEW h1 \in IntactClaims(o1)', NEW h2 \in IntactClaims(o2)',
               Sees(h1, h2), Sees(h2, h1)
        PROVE  \/ h1 \notin held'[o1] /\ Unread(o1, h2)'
               \/ h2 \notin held'[o2] /\ Unread(o2, h1)'
    <3>1. h1 \in IntactClaims(o1) /\ h2 \in IntactClaims(o2)
      BY <1>3, <1>5, <2>2 DEF IntactClaims
    <3>2. h1 \in LockFiles \X Types /\ h2 \in LockFiles \X Types
      BY <3>1, ClaimType DEF IInv
    <3>3. \/ h1 \notin held[o1] /\ Unread(o1, h2)
          \/ h2 \notin held[o2] /\ Unread(o2, h1)
      BY <2>2, <3>1 DEF IInv, OneStillOpen
    <3> QED
      BY <1>3, <3>2, <3>3
  <2>3. \A h1, h2 : Sees(h1, h2)' <=> Sees(h1, h2)
    BY DEF Sees
  <2> QED
    BY <2>1, <2>2, <2>3 DEF OneStillOpen
<1> QED
  BY <1>6, <1>7, <1>8, <1>9 DEF IInv

(* A read of the double-check that finds nothing passes no intact claim of  *)
(* another owner: the token of such a claim is in its file.                 *)
LEMMA PostCheckPreserves ==
  ASSUME IInv, TypeOK', NEW o \in Owners, PostCheck(o)
  PROVE  IInv'
<1>1. PICK r \in todo[o] :
        /\ IF Conflicting(o, r[1], r[2])
           THEN /\ Goto(o, "theirs")
                /\ cf' = [cf EXCEPT ![o] = r[2]]
                /\ todo' = [todo EXCEPT ![o] = {}]
           ELSE /\ Goto(o, IF todo[o] = {r} THEN "verify" ELSE pc[o])
                /\ todo' = [todo EXCEPT ![o] = @ \ {r}]
                /\ UNCHANGED cf
        /\ UNCHANGED <<req, seen, late, held, shared>>
  BY DEF PostCheck, ReadOne
<1>2. lost \subseteq lost' /\ KindGrows /\ TokensKept
  BY <1>1, NoFileChange DEF shared
<1>3. pc[o] = "post"
  BY DEF PostCheck
<1>4. CASE Conflicting(o, r[1], r[2])
  <2>1. Outside(o)
    BY <1>1, <1>3, <1>4 DEF Outside, Goto, Acquiring, IInv, TypeOK
  <2> QED
    BY <1>1, <1>2, <2>1, OutsidePreserves
<1>5. CASE ~Conflicting(o, r[1], r[2])
  <2>1. /\ pc' = [pc EXCEPT ![o] = IF todo[o] = {r} THEN "verify" ELSE "post"]
        /\ todo' = [todo EXCEPT ![o] = todo[o] \ {r}]
        /\ UNCHANGED <<req, held>>
    BY <1>1, <1>3, <1>5 DEF Goto
  <2>2. OthersKept(o) /\ RequestKept(o)
    <3>1. /\ pc[o] \in Acquiring /\ held' = held /\ req' = req
      BY <1>3, <2>1 DEF Acquiring
    <3>2. \A u \in Owners \ {o} : pc'[u] = pc[u] /\ todo'[u] = todo[u]
      BY <2>1 DEF IInv, TypeOK
    <3> QED
      BY <3>1, <3>2 DEF OthersKept, RequestKept
  <2>3. Claims(o)' \subseteq Claims(o)
    BY <1>3, <2>1 DEF Claims, Pending, IInv, TypeOK
  <2>4. ASSUME NEW u \in Owners \ {o}, NEW h \in IntactClaims(u), Unread(o, h)
        PROVE  Unread(o, h)'
    <3>1. PICK s \in 0 .. 4 : <<s, h[1]>> \in todo[o] /\ (s = AncStage => h[2] = "T")
      BY <2>4 DEF Unread
    <3>2. files[h[1]].owner = u /\ (h[2] = "T" => files[h[1]].type = "T")
      BY DEF IInv, TokenPresent, OwnedBy
    <3>3. Conflicting(o, s, h[1])
      BY <3>1, <3>2, OwnersAssumption DEF Conflicting, LockedByOther, Nobody
    <3>4. r # <<s, h[1]>>
      BY <1>5, <3>3
    <3>5. <<s, h[1]>> \in todo'[o] /\ todo[o] # {r}
      BY <2>1, <3>1, <3>4 DEF IInv, TypeOK
    <3>6. pc'[o] = "post"
      BY <2>1, <3>5 DEF IInv, TypeOK
    <3> QED
      BY <3>1, <3>5, <3>6 DEF Unread
  <2>5. ClaimsKept(o)
    BY <2>1, <2>3, <2>4 DEF ClaimsKept
  <2> QED
    BY <1>2, <2>2, <2>5, StepPreserves
<1> QED
  BY <1>4, <1>5

(* The re-read of the own token before the double-check.                   *)
LEMMA VerifyWritePreserves ==
  ASSUME IInv, TypeOK', NEW o \in Owners, VerifyWrite(o)
  PROVE  IInv'
<1>1. lost \subseteq lost' /\ KindGrows /\ TokensKept /\ UNCHANGED held
  BY NoFileChange DEF VerifyWrite, shared
<1>2. CASE OwnedBy(o, req[o].file)
  <2>1. /\ pc[o] = "verify1"
        /\ pc' = [pc EXCEPT ![o] = IF todo[o] = {} THEN "verify" ELSE "post"]
        /\ UNCHANGED <<req, todo>>
    BY <1>2 DEF VerifyWrite, Goto, locals
  <2>2. OthersKept(o) /\ RequestKept(o)
    BY <1>1, <2>1 DEF OthersKept, RequestKept, Acquiring, IInv, TypeOK
  <2>3. Claims(o)' \subseteq Claims(o)
    BY <1>1, <2>1 DEF Claims, Pending, IInv, TypeOK
  <2>4. ASSUME NEW h, Unread(o, h) PROVE Unread(o, h)'
    BY <2>1, <2>4 DEF Unread, IInv, TypeOK
  <2>5. ClaimsKept(o)
    BY <1>1, <2>3, <2>4 DEF ClaimsKept
  <2> QED
    BY <1>1, <2>2, <2>5, StepPreserves
<1>3. CASE ~OwnedBy(o, req[o].file)
  <2>1. pc[o] \in Acquiring /\ ReturnIfLate(o)
    BY <1>3 DEF VerifyWrite, Acquiring
  <2>2. Outside(o)
    BY <2>1, LoopOutside DEF IInv
  <2> QED
    BY <1>1, <2>2, OutsidePreserves
<1> QED
  BY <1>2, <1>3

(* The lock becomes held only when its double-check has nothing left open.  *)
LEMMA VerifyPreserves ==
  ASSUME IInv, TypeOK', NEW o \in Owners, Verify(o)
  PROVE  IInv'
<1> DEFINE f == req[o].file
           t == req[o].type
<1>1. /\ lost \subseteq lost' /\ KindGrows /\ TokensKept
      /\ \A u \in Owners \ {o} : held'[u] = held[u]
      /\ pc[o] = "verify" /\ pc[o] \in Acquiring
  BY NoFileChange DEF Verify, shared, IInv, TypeOK, Acquiring
<1>2. CASE OwnedBy(o, f)
  <2>1. held'[o] = (held[o] \ {<<f, "E">>}) \cup {<<f, t>>} /\ Outside(o) /\ pc'[o] = "idle"
    <3>1. /\ held' = [held EXCEPT ![o] = (@ \ {<<f, "E">>}) \cup {<<f, t>>}]
          /\ Return(o)
      BY <1>2 DEF Verify
    <3>2. held'[o] = (held[o] \ {<<f, "E">>}) \cup {<<f, t>>}
      BY <3>1 DEF IInv, TypeOK
    <3>3. Outside(o)
      BY <3>1, ReturnOutside DEF IInv
    <3>4. pc'[o] = "idle"
      BY <3>1 DEF Return, Goto, IInv, TypeOK
    <3> QED
      BY <3>2, <3>3, <3>4
  <2>2. OthersKept(o) /\ RequestKept(o)
    BY <1>1, <2>1 DEF Outside, OthersKept, RequestKept, Acquiring
  <2>3. Claims(o)' \subseteq Claims(o)
    <3>1. <<f, t>> \in Pending(o)
      BY <1>1 DEF Pending, IInv, TypeOK
    <3>2. Pending(o)' = {}
      BY <2>1 DEF Pending
    <3> QED
      BY <2>1, <3>1, <3>2 DEF Claims
  <2>4. ClaimsKept(o)
    BY <1>1, <2>3 DEF ClaimsKept, Unread
  <2> QED
    BY <1>1, <2>2, <2>4, StepPreserves
<1>3. CASE ~OwnedBy(o, f)
  <2>1. ReturnIfLate(o) /\ held' = held
    BY <1>3 DEF Verify
  <2>2. Outside(o)
    BY <1>1, <2>1, LoopOutside DEF IInv
  <2> QED
    BY <1>1, <2>1, <2>2, OutsidePreserves
<1> QED
  BY <1>2, <1>3

(* Every step preserves the inductive invariant; one case per action.      *)
LEMMA InvStep == IInv /\ [Next]_vars => IInv'
<1> SUFFICES ASSUME IInv, [Next]_vars PROVE IInv'
  OBVIOUS
<1>0. TypeOK /\ TypeOK'
  BY TypeStep DEF IInv
<1>1. ASSUME NEW o \in Owners, NEW t \in Types, NEW p \in Paths, Acquire(o, t, p)
      PROVE  IInv'
  BY <1>0, <1>1, AcquirePreserves
<1>2. ASSUME NEW o \in Owners, StartRelease(o) PROVE IInv'
  <2>1. Outside(o)
    BY <1>0, <1>2 DEF StartRelease, Outside, Goto, locals, Acquiring, TypeOK
  <2> QED
    BY <1>0, <1>2, <2>1, NoFileChange, OutsidePreserves DEF StartRelease, shared
<1>3. ASSUME NEW o \in Owners, NEW p \in Paths, NEW k \in {"dir", "file"},
             CreatePath(o, p, k)
      PROVE  IInv'
  <2>1. KindGrows
    BY <1>0, <1>3 DEF CreatePath, KindGrows, TypeOK
  <2>2. TokensKept
    BY <1>3 DEF CreatePath, TokensKept, OwnedBy
  <2> QED
    BY <1>0, <1>3, <2>1, <2>2, BesidePreserves DEF CreatePath, locals
<1>4. ASSUME NEW o \in Owners, PreCheck(o) PROVE IInv'
  <2>1. PICK l \in PCs \ {"verify1", "post", "verify"} : Goto(o, l)
    <3>1. \E x \in {"stale", "write", "mkdir", "check"} : Goto(o, x)
      BY <1>4 DEF PreCheck, ReadOne
    <3> QED
      BY <3>1 DEF PCs, Acquiring
  <2>2. /\ UNCHANGED <<req, files, kind, lost, held>> /\ pc[o] \in Acquiring
        /\ \A u \in Owners \ {o} : todo'[u] = todo[u]
    BY <1>0, <1>4 DEF PreCheck, ReadOne, shared, TypeOK, Acquiring
  <2>3. Outside(o)
    BY <1>0, <2>1, <2>2 DEF Outside, Goto, TypeOK
  <2> QED
    BY <1>0, <2>2, <2>3, NoFileChange, OutsidePreserves
<1>5. ASSUME NEW o \in Owners, StaleCheck(o) PROVE IInv'
  <2>1. pc[o] \in Acquiring
    BY <1>5 DEF StaleCheck, Acquiring
  <2>2. Outside(o)
    <3>1. CASE Goto(o, "rmstale") /\ UNCHANGED locals
      BY <1>0, <2>1, <3>1 DEF Outside, Goto, locals, TypeOK
    <3> QED
      BY <1>0, <1>5, <2>1, <3>1, LoopOutside DEF StaleCheck
  <2> QED
    BY <1>0, <1>5, <2>2, NoFileChange, OutsidePreserves DEF StaleCheck, shared
<1>6. ASSUME NEW o \in Owners, RemoveStale(o) PROVE IInv'
  <2>1. Outside(o) /\ cf[o] \in LockFiles
    BY <1>0, <1>6, AgainOutside DEF RemoveStale, Acquiring, TypeOK
  <2>2. lost \subseteq lost' /\ TokensKept
    BY <1>0, <1>6, <2>1, RemoveKeeps DEF RemoveStale
  <2> QED
    BY <1>0, <1>6, <2>1, <2>2, OutsidePreserves DEF RemoveStale, KindGrows
<1>7. ASSUME NEW o \in Owners, Mkdir(o) PROVE IInv'
  <2>1. Outside(o)
    <3>1. CASE Goto(o, "write") /\ UNCHANGED locals
      BY <1>0, <1>7, <3>1 DEF Mkdir, Outside, Goto, locals, TypeOK, Acquiring
    <3> QED
      BY <1>0, <1>7, <3>1, ReturnOutside DEF Mkdir
  <2>2. KindGrows
    BY <1>0, <1>7 DEF Mkdir, KindGrows, TypeOK
  <2>3. TokensKept
    BY <1>7 DEF Mkdir, TokensKept, OwnedBy
  <2> QED
    BY <1>0, <1>7, <2>1, <2>2, <2>3, OutsidePreserves DEF Mkdir
<1>8. ASSUME NEW o \in Owners, Write(o) PROVE IInv'
  <2>1. CASE Writable(req[o].file)
    BY <1>0, <1>8, <2>1, WritePreserves DEF Write
  <2>2. CASE ~Writable(req[o].file)
    BY <1>0, <1>8, <2>2, ReturnOutside, NoFileChange, OutsidePreserves DEF Write
  <2> QED
    BY <2>1, <2>2
<1>9. ASSUME NEW o \in Owners, VerifyWrite(o) PROVE IInv'
  BY <1>0, <1>9, VerifyWritePreserves
<1>10. ASSUME NEW o \in Owners, PostCheck(o) PROVE IInv'
  BY <1>0, <1>10, PostCheckPreserves
<1>11. ASSUME NEW o \in Owners, ReadTheirs(o) PROVE IInv'
  <2>1. pc[o] \in Acquiring
    BY <1>11 DEF ReadTheirs, Acquiring
  <2>2. Outside(o)
    <3>1. CASE files[cf[o]] # NoToken
      BY <1>0, <1>11, <2>1, <3>1 DEF ReadTheirs, Outside, Goto, TypeOK
    <3> QED
      BY <1>0, <1>11, <2>1, <3>1, LoopOutside DEF ReadTheirs
  <2> QED
    BY <1>0, <1>11, <2>2, NoFileChange, OutsidePreserves DEF ReadTheirs, shared
<1>12. ASSUME NEW o \in Owners, ReadMine(o) PROVE IInv'
  <2>1. pc[o] \in Acquiring
    BY <1>12 DEF ReadMine, Acquiring
  <2>2. Outside(o)
    <3>1. CASE /\ Goto(o, IF req[o].type = "E" THEN "backown" ELSE "backrm")
               /\ UNCHANGED locals
      BY <1>0, <2>1, <3>1 DEF Outside, Goto, locals, TypeOK
    <3> QED
      BY <1>0, <1>12, <2>1, <3>1, LoopOutside DEF ReadMine
  <2> QED
    BY <1>0, <1>12, <2>2, NoFileChange, OutsidePreserves DEF ReadMine, shared
<1>13. ASSUME NEW o \in Owners, BackOffCheck(o) PROVE IInv'
  <2>1. pc[o] \in Acquiring
    BY <1>13 DEF BackOffCheck, Acquiring
  <2>2. Outside(o)
    <3>1. CASE Goto(o, "backrm") /\ UNCHANGED locals
      BY <1>0, <2>1, <3>1 DEF Outside, Goto, locals, TypeOK
    <3> QED
      BY <1>0, <1>13, <2>1, <3>1, LoopOutside DEF BackOffCheck
  <2> QED
    BY <1>0, <1>13, <2>2, NoFileChange, OutsidePreserves DEF BackOffCheck, shared
<1>14. ASSUME NEW o \in Owners, BackOff(o) PROVE IInv'
  <2>1. Outside(o) /\ req[o].file \in LockFiles
    BY <1>0, <1>14, LoopOutside DEF BackOff, Acquiring, TypeOK
  <2>2. lost \subseteq lost' /\ TokensKept
    BY <1>0, <1>14, <2>1, RemoveKeeps DEF BackOff
  <2> QED
    BY <1>0, <1>14, <2>1, <2>2, OutsidePreserves DEF BackOff, KindGrows
<1>15. ASSUME NEW o \in Owners, QuitCheck(o) PROVE IInv'
  <2>1. Outside(o)
    <3>1. CASE Goto(o, "quitrm") /\ UNCHANGED locals
      BY <1>0, <1>15, <3>1 DEF QuitCheck, Outside, Goto, locals, TypeOK, Acquiring
    <3> QED
      BY <1>0, <1>15, <3>1, ReturnOutside DEF QuitCheck
  <2> QED
    BY <1>0, <1>15, <2>1, NoFileChange, OutsidePreserves DEF QuitCheck, shared
<1>16. ASSUME NEW o \in Owners, Quit(o) PROVE IInv'
  <2>1. Outside(o) /\ req[o].file \in LockFiles
    BY <1>0, <1>16, ReturnOutside DEF Quit, TypeOK
  <2>2. lost \subseteq lost' /\ TokensKept
    BY <1>0, <1>16, <2>1, RemoveKeeps DEF Quit
  <2> QED
    BY <1>0, <1>16, <2>1, <2>2, OutsidePreserves DEF Quit, KindGrows
<1>17. ASSUME NEW o \in Owners, Verify(o) PROVE IInv'
  BY <1>0, <1>17, VerifyPreserves
<1>18. ASSUME NEW o \in Owners, ReleaseCheck(o) PROVE IInv'
  <2>1. PICK l \in {"release", "relrm", "done"} :
          pc' = [pc EXCEPT ![o] = l] /\ UNCHANGED <<req, todo, files, kind, lost>>
    BY <1>0, <1>18 DEF ReleaseCheck, Goto, shared, TypeOK
  <2>2. held'[o] \subseteq held[o] /\ \A u \in Owners \ {o} : held'[u] = held[u]
    BY <1>0, <1>18 DEF ReleaseCheck, Drop, TypeOK
  <2>3. Outside(o)
    BY <1>0, <2>1 DEF Outside, Acquiring, TypeOK
  <2> QED
    BY <1>0, <2>1, <2>2, <2>3, NoFileChange, OutsidePreserves
<1>19. ASSUME NEW o \in Owners, ReleaseRemove(o) PROVE IInv'
  <2>1. Outside(o)
    BY <1>0, <1>19 DEF ReleaseRemove, Outside, Goto, Acquiring, TypeOK
  <2>2. /\ held'[o] = {h \in held[o] : h[1] # cf[o]}
        /\ \A u \in Owners \ {o} : held'[u] = held[u]
    BY <1>0, <1>19 DEF ReleaseRemove, Drop, TypeOK
  <2>3. ASSUME NEW u \in Owners, NEW h \in Claims(u)', OwnedBy(u, h[1]),
               <<u, h[1]>> \notin lost'
        PROVE  files'[h[1]] = files[h[1]]
    <3>1. h[1] \in LockFiles
      BY <1>0, <2>3 DEF TypeOK, Claims, Pending
    <3>2. h[1] # cf[o]
      <4>1. CASE u = o
        BY <2>1, <2>2, <2>3, <4>1 DEF Claims, Pending, Outside
      <4>2. CASE u # o
        BY <1>19, <2>3, <4>2 DEF ReleaseRemove, Clobbered
      <4> QED
        BY <4>1, <4>2
    <3> QED
      BY <1>0, <1>19, <3>1, <3>2 DEF ReleaseRemove, TypeOK
  <2>4. TokensKept
    BY <2>3 DEF TokensKept, OwnedBy
  <2> QED
    BY <1>0, <1>19, <2>1, <2>2, <2>4, OutsidePreserves DEF ReleaseRemove, KindGrows
<1>20. ASSUME NEW o \in Owners, Deadline(o) PROVE IInv'
  BY <1>0, <1>20, NoFileChange, BesidePreserves DEF Deadline, shared
<1>21. ASSUME NEW o \in Owners, RefreshRead(o) PROVE IInv'
  <2>1. held'[o] \subseteq held[o] /\ \A u \in Owners \ {o} : held'[u] = held[u]
    BY <1>0, <1>21 DEF RefreshRead, Drop, TypeOK
  <2> QED
    BY <1>0, <1>21, <2>1, NoFileChange, BesidePreserves DEF RefreshRead, locals
<1>22. ASSUME NEW o \in Owners, RefreshWrite(o) PROVE IInv'
  <2>1. PICK w \in rw[o] : WriteToken(o, w[1], w[2])
    BY <1>22 DEF RefreshWrite
  <2>2. lost \subseteq lost' /\ TokensKept
    <3>1. w[1] \in LockFiles /\ w[2] \in Types
      BY <1>0 DEF TypeOK
    <3> QED
      BY <1>0, <2>1, <3>1, WriteKeeps
  <2> QED
    BY <1>0, <1>22, <2>2, BesidePreserves DEF RefreshWrite, locals, KindGrows
<1>23. ASSUME NEW o \in Owners, Crash(o) PROVE IInv'
  <2>1. Outside(o) /\ held'[o] \subseteq held[o] /\ \A u \in Owners \ {o} : held'[u] = held[u]
    BY <1>0, <1>23 DEF Crash, Goto, Outside, Acquiring, TypeOK
  <2> QED
    BY <1>0, <1>23, <2>1, NoFileChange, OutsidePreserves DEF Crash
<1>24. CASE Tick \/ Finished \/ UNCHANGED vars
  <2>1. UNCHANGED <<files, kind, lost, pc, req, todo, held>>
    BY <1>24 DEF Tick, Finished, vars, locals
  <2>2. CASE Owners = {}
    BY <1>0, <2>2 DEF IInv, RequestPlaced, AskedAgain, ClaimsPlaced, TokenPresent, OneStillOpen
  <2>3. CASE Owners # {}
    BY <1>0, <2>1, <2>3, NoFileChange, BesidePreserves
  <2> QED
    BY <2>2, <2>3
<1> QED
  BY <1>1, <1>2, <1>3, <1>4, <1>5, <1>6, <1>7, <1>8, <1>9, <1>10, <1>11, <1>12,
     <1>13, <1>14, <1>15, <1>16, <1>17, <1>18, <1>19, <1>20, <1>21, <1>22, <1>23,
     <1>24
     DEF Next, Call, AcquireStep, ReleaseStep

(* The initial states satisfy the inductive invariant.                     *)
LEMMA InvInit == Init => IInv
<1> SUFFICES ASSUME Init PROVE IInv
  OBVIOUS
<1>1. \A o \in Owners : pc[o] = "idle" /\ held[o] = {}
  BY DEF Init
<1>2. \A o \in Owners : Claims(o) = {} /\ IntactClaims(o) = {}
  BY <1>1 DEF Claims, Pending, IntactClaims
<1> QED
  BY <1>1, <1>2, TypeInit
     DEF IInv, RequestPlaced, AskedAgain, ClaimsPlaced, TokenPresent, OneStillOpen, Acquiring

(* Overlapping locks in two files see each other, unless they are the two   *)
(* exact locks of one path.                                                 *)
LEMMA OverlapSees ==
  ASSUME TypeOK, NEW h1 \in LockFiles \X Types, NEW h2 \in LockFiles \X Types,
         Placed(h1), Placed(h2), Overlap(h1, h2), h1[1] # h2[1],
         ~(TwoExactFiles(h1, h2) /\ PathOf(h1[1]) = PathOf(h2[1]))
  PROVE  Sees(h1, h2)
<1> DEFINE p1 == PathOf(h1[1])
           p2 == PathOf(h2[1])
<1>1. /\ p1 \in Paths /\ p2 \in Paths
      /\ h1[1] \in {Dir(p1), Pre(p1)} /\ h2[1] \in {Dir(p2), Pre(p2)}
      /\ h1[2] \in Types /\ h2[2] \in Types
  BY DEF LockFiles, PathOf, Dir, Pre
<1>2. CASE p1 = p2
  <2>1. ~(h1[1] = Pre(p1) /\ h1[2] = "T" /\ h2[1] = Dir(p2))
    BY <1>2 DEF Placed, Writable, Pre, Dir, PathOf
  <2>2. ~(h2[1] = Pre(p1) /\ h2[2] = "T" /\ h1[1] = Dir(p2))
    BY <1>2 DEF Placed, Writable, Pre, Dir, PathOf
  <2>3. \/ h1[2] = "T" \/ (h1[2] = "E" /\ h1[1] = Pre(p1) /\ h2[1] = Dir(p1))
    BY <1>1, <1>2, <2>2 DEF TwoExactFiles, Types
  <2>4. <<1, h2[1]>> \in PostScan(h1[2], p1, h1[1])
    <3>1. CASE h1[2] = "T"
      BY <1>1, <1>2, <3>1 DEF PostScan, ExactFiles
    <3>2. CASE h1[2] = "E" /\ h1[1] = Pre(p1) /\ h2[1] = Dir(p1)
      BY <3>2 DEF PostScan, Dir, Pre
    <3> QED
      BY <2>3, <3>1, <3>2
  <2> QED
    BY <2>4 DEF Sees, AncStage
<1>3. CASE h1[2] = "T" /\ p1 \in Anc[p2]
  <2>1. <<0, h2[1]>> \in PostScan(h1[2], p1, h1[1])
    BY <1>1, <1>3 DEF PostScan, DescFiles, Desc
  <2> QED
    BY <2>1 DEF Sees, AncStage
<1>4. CASE h2[2] = "T" /\ p2 \in Anc[p1]
  <2>1. kind[p2] = "dir"
    BY <1>1, <1>4 DEF Placed, Writable, PathOf
  <2>2. h2[1] = Dir(p2)
    BY <1>1, <1>4, <2>1 DEF Placed, Pre
  <2>3. <<AncStage, h2[1]>> \in PostScan(h1[2], p1, h1[1])
    BY <1>4, <2>2 DEF PostScan, AncFiles
  <2> QED
    BY <1>4, <2>3 DEF Sees, AncStage
<1> QED
  BY <1>2, <1>3, <1>4 DEF Overlap

(* The inductive invariant implies the exclusion.                          *)
LEMMA InvImpliesExclusion == IInv => GuardedExclusion
<1> SUFFICES ASSUME IInv, NEW o1 \in Owners, NEW o2 \in Owners, o1 # o2,
                    NEW h1 \in Intact(o1), NEW h2 \in Intact(o2), Overlap(h1, h2),
                    ~(TwoExactFiles(h1, h2) /\ PathOf(h1[1]) = PathOf(h2[1]))
             PROVE  FALSE
  BY DEF GuardedExclusion
<1>1. /\ h1 \in held[o1] /\ h2 \in held[o2]
      /\ h1 \in IntactClaims(o1) /\ h2 \in IntactClaims(o2)
      /\ h1 \in LockFiles \X Types /\ h2 \in LockFiles \X Types
  BY DEF Intact, IntactClaims, Claims, IInv, TypeOK
<1>2. h1[1] # h2[1]
  BY <1>1 DEF IInv, TokenPresent, OwnedBy
<1>3. Placed(h1) /\ Placed(h2)
  BY <1>1 DEF IInv, ClaimsPlaced, Claims
<1>4. Overlap(h2, h1) /\ ~(TwoExactFiles(h2, h1) /\ PathOf(h2[1]) = PathOf(h1[1]))
  BY DEF Overlap, TwoExactFiles
<1>5. Sees(h1, h2) /\ Sees(h2, h1)
  BY <1>1, <1>2, <1>3, <1>4, OverlapSees DEF IInv
<1> QED
  BY <1>1, <1>5 DEF IInv, OneStillOpen

(* The tokens of intact claims are in their files, and of two claims that   *)
(* see each other one is still to be double-checked: what the pre-check,    *)
(* the write and the double-check of an acquire keep up between them.       *)
THEOREM InvariantHolds == Spec => []IInv
  BY InvInit, InvStep, PTL DEF Spec

(* No two handles hold overlapping locks with intact tokens, whatever the   *)
(* interleaving of their AGFS calls, refreshes, crashes and expiries: the   *)
(* double-check of acquire_exact_path and acquire_tree does its work.       *)
THEOREM Exclusion == Spec => []GuardedExclusion
  BY InvariantHolds, InvImpliesExclusion, PTL
=============================================================================
