------------------------- MODULE SemanticDagProofs -------------------------
(* Proofs about SemanticDag, for every tree of directories and files, every *)
(* set of parameters and any number of workers and embedding handlers.      *)
EXTENDS SemanticDag, FiniteSetTheorems, TLAPS

(* Abbreviations of the specification that every proof may expand.          *)
USE DEF walk, status, embedding, executor
-----------------------------------------------------------------------------
(* The inductive invariant of the walk down and up the tree.                *)
Items == Dirs \cup Files
WDir(d) == work[W("dir", d)]
WOv(d) == work[W("overview", d)]
WItem(u) == work[W(Kind(u), u)]
WVec(u) == work[W("vectorize", u)]
Visited(u) == WItem(u) # "none"

(* The states that each kind of work goes through.                          *)
States(w) ==
  CASE w.kind = "dir" -> {"none", "queued", "run", "over"}
    [] w.kind = "file" -> {"none", "queued", "run", "add", "tell", "over"}
    [] w.kind = "overview" ->
         {"none", "queued", "run", "write", "writeonly", "add", "tell", "over"}
    [] OTHER ->
         IF w.uri \in Files THEN {"none", "queued", "run", "owe1", "call", "over"}
         ELSE {"none", "queued", "L0", "L1", "L1owe", "owe1", "owe2", "call", "call1", "over"}
KindStates == \A w \in Work : work[w] \in States(w)

(* A directory before its dispatch.                                         *)
Undispatched ==
  \A d \in Dirs : WDir(d) # "over" =>
    node[d].listed = {} /\ node[d].pending = 0 /\ heard[d] = {} /\ WOv(d) = "none"

(* A directory after it: pending counts the children not heard of, and the  *)
(* overview is scheduled with the last of them.                             *)
Missing(d) == Pending(node[d].listed) \ heard[d]
Dispatched ==
  \A d \in Dirs : WDir(d) = "over" =>
    /\ node[d].listed \subseteq Children(d)
    /\ node[d].pending = Cardinality(Missing(d))
    /\ WOv(d) # "none" <=> Missing(d) = {}
    /\ Missing(d) # {} => node[d].on = TRUE /\ node[d].scheduled = FALSE

(* Who has been heard of is through.                                        *)
HeardThrough == \A d \in Dirs : \A u \in heard[d] : Through(u)

(* A path is visited only for a directory that waits for it.                *)
VisitedBy ==
  \A u \in Items : u # Root /\ Visited(u) =>
    WDir(Parent[u]) = "over" /\ u \in Pending(node[Parent[u]].listed)

(* The way from a visited path up to the root.                              *)
Linked ==
  \A u \in Items : Visited(u) =>
    /\ u # Root => Root \in Ancestors[u]
    /\ \A d \in Ancestors[u] :
         /\ WDir(d) = "over"
         /\ \E v \in {u} \cup Ancestors[u] : v # Root /\ Parent[v] = d

(* Below a directory whose overview is scheduled everything is through.     *)
Below ==
  \A d \in Dirs, u \in Items :
    WOv(d) # "none" /\ Visited(u) /\ d \in Ancestors[u] => Through(u)

(* The execution leaves the graph with the root's overview.                 *)
RootFirst == Visited(Root) /\ (exec = "graph" <=> WOv(Root) # "over")

WalkInv == KindStates /\ Undispatched /\ Dispatched /\ HeardThrough /\ VisitedBy /\ Linked
           /\ Below /\ RootFirst
-----------------------------------------------------------------------------
(* Names of units of work.                                                  *)
LEMMA WorkNames ==
  /\ \A d \in Dirs : W("dir", d) \in Work /\ W("overview", d) \in Work
  /\ \A f \in Files : W("file", f) \in Work
  /\ \A u \in Items : W("vectorize", u) \in Work
  /\ \A k, l, u, v : W(k, u) = W(l, v) <=> k = l /\ u = v
  /\ \A k, u : W(k, u).kind = k /\ W(k, u).uri = u
  /\ \A w \in Work :
       /\ w = W(w.kind, w.uri)
       /\ \/ w.kind \in {"dir", "overview"} /\ w.uri \in Dirs
          \/ w.kind = "file" /\ w.uri \in Files
          \/ w.kind = "vectorize" /\ w.uri \in Items
<1>1. \A k, l, u, v : W(k, u) = W(l, v) <=> k = l /\ u = v
  <2> TAKE k, l, u, v
  <2>1. ASSUME W(k, u) = W(l, v) PROVE k = l /\ u = v
    <3>1. W(k, u).kind = k /\ W(l, v).kind = l /\ W(k, u).uri = u /\ W(l, v).uri = v
      BY DEF W
    <3> QED
      BY <3>1, <2>1
  <2> QED
    BY <2>1
<1>2. \A w \in Work : w = W(w.kind, w.uri)
  BY DEF Work, W
<1>3. \A w \in Work :
       \/ w.kind \in {"dir", "overview"} /\ w.uri \in Dirs
       \/ w.kind = "file" /\ w.uri \in Files
       \/ w.kind = "vectorize" /\ w.uri \in Items
  BY DEF Work, Items
<1>4. \A k, u : W(k, u).kind = k /\ W(k, u).uri = u
  BY DEF W
<1>5. /\ \A d \in Dirs : W("dir", d) \in Work /\ W("overview", d) \in Work
      /\ \A f \in Files : W("file", f) \in Work
      /\ \A u \in Items : W("vectorize", u) \in Work
  BY DEF Work, W, Items
<1> QED
  BY <1>1, <1>2, <1>3, <1>4, <1>5, Zenon

(* The tree.                                                                *)
LEMMA TreeFacts ==
  /\ Root \in Dirs /\ Dirs \cap Files = {} /\ IsFiniteSet(Items)
  /\ \A u \in Items : u # Root => Parent[u] \in Dirs
  /\ \A u \in Items : Ancestors[u] \subseteq Dirs
  /\ \A u \in Items : u # Root => Ancestors[u] = {Parent[u]} \cup Ancestors[Parent[u]]
  /\ Ancestors[Root] = {}
  /\ \A d \in Dirs : Kind(d) = "dir"
  /\ \A f \in Files : Kind(f) = "file"
  /\ \A u \in Items : W(Kind(u), u) \in Work
  /\ \A d \in Dirs : Children(d) \subseteq Items /\ \A u \in Children(d) : u # Root /\ Parent[u] = d
<1>1. Items \in SUBSET Paths
  BY DEF Items, Paths
<1>2. IsFiniteSet(Items)
  BY <1>1, TreeAssumption, FS_Subset
<1>3. /\ \A d \in Dirs : Kind(d) = "dir"
      /\ \A f \in Files : Kind(f) = "file"
  BY TreeAssumption DEF Kind
<1>4. \A u \in Items : W(Kind(u), u) \in Work
  BY <1>3, WorkNames DEF Items
<1>5. /\ Root \in Dirs /\ Dirs \cap Files = {}
      /\ \A u \in Items : u # Root => Parent[u] \in Dirs
      /\ \A u \in Items : Ancestors[u] \subseteq Dirs
  BY <1>1, TreeAssumption
<1>6. /\ \A u \in Items : u # Root => Ancestors[u] = {Parent[u]} \cup Ancestors[Parent[u]]
      /\ Ancestors[Root] = {}
  BY <1>1, <1>5, TreeAssumption DEF Items
<1>7. \A d \in Dirs : Children(d) \subseteq Items /\ \A u \in Children(d) : u # Root /\ Parent[u] = d
  BY DEF Children, Items
<1> QED
  BY <1>2, <1>3, <1>4, <1>5, <1>6, <1>7

(* What a directory waits for is among what it listed.                      *)
LEMMA PendingSubset == \A S : Pending(S) \subseteq S
BY DEF Pending

(* Whose work is through: that of a file, or the overview of a directory.   *)
LEMMA ThroughIs ==
  /\ \A f \in Files : Through(f) <=> work[W("file", f)] = "over"
  /\ \A d \in Dirs : Through(d) <=> WOv(d) = "over"
  /\ \A f \in Files : (Through(f) <=> work[W("file", f)] = "over")'
  /\ \A d \in Dirs : (Through(d) <=> WOv(d) = "over")'
BY TreeFacts DEF Through, WOv

(* A visited item.                                                          *)
LEMMA VisitedIs ==
  /\ \A f \in Files : Visited(f) <=> work[W("file", f)] # "none"
  /\ \A d \in Dirs : Visited(d) <=> WDir(d) # "none"
  /\ \A f \in Files : (Visited(f) <=> work[W("file", f)] # "none")'
  /\ \A d \in Dirs : (Visited(d) <=> WDir(d) # "none")'
BY TreeFacts DEF Visited, WItem, WDir
-----------------------------------------------------------------------------
(* A step that neither starts nor ends a unit of the walk.                  *)
LEMMA QuietStep ==
  ASSUME TypeOK, WalkInv, KindStates', UNCHANGED <<conf, node, heard>>, exec' = "graph" <=> exec = "graph",
         \A w \in Work : w.kind # "vectorize" =>
           work'[w] = work[w] \/ (work[w] \notin {"none", "over"} /\ work'[w] \notin {"none", "over"})
  PROVE  WalkInv'
<1>1. \A d \in Dirs : /\ WDir(d)' = "over" <=> WDir(d) = "over"
                      /\ WOv(d)' = "none" <=> WOv(d) = "none"
                      /\ WOv(d)' = "over" <=> WOv(d) = "over"
  BY WorkNames DEF WDir, WOv
<1>2. \A u \in Items : Visited(u)' <=> Visited(u)
  BY WorkNames, TreeFacts DEF Visited, WItem, Items
<1>3. \A u \in Items : Through(u)' <=> Through(u)
  BY WorkNames, TreeFacts DEF Through, Items
<1>4. \A d \in Dirs : Missing(d)' = Missing(d) /\ Pending(node[d].listed)' = Pending(node[d].listed)
  BY DEF Missing, Pending
<1>5. Undispatched'
  BY <1>1 DEF WalkInv, Undispatched
<1>6. Dispatched'
  BY <1>1, <1>4 DEF WalkInv, Dispatched
<1>7. HeardThrough'
  <2>1. \A d \in Dirs : \A u \in heard[d] : Through(u)'
    BY <1>3 DEF WalkInv, HeardThrough, TypeOK, Items
  <2> QED
    BY <2>1 DEF HeardThrough
<1>8. VisitedBy'
  BY <1>1, <1>2, <1>4, TreeFacts DEF WalkInv, VisitedBy
<1>9. Linked'
  BY <1>1, <1>2, TreeFacts DEF WalkInv, Linked
<1>10. Below'
  BY <1>1, <1>2, <1>3 DEF WalkInv, Below
<1>11. RootFirst'
  BY <1>1, <1>2, TreeFacts DEF WalkInv, RootFirst, Items
<1> QED
  BY <1>5, <1>6, <1>7, <1>8, <1>9, <1>10, <1>11 DEF WalkInv

(* _dispatch_dir: the children are visited, none of which was before, and   *)
(* the directory waits for all of them.                                     *)
LEMMA DispatchStep ==
  ASSUME TypeOK, WalkInv, NEW d \in Dirs, DispatchDir(d)
  PROVE  WalkInv'
<1> DEFINE Effect(L) ==
      /\ node' = [node EXCEPT ![d] = [listed |-> L, pending |-> Cardinality(Pending(L)),
                                      scheduled |-> Pending(L) = {}, on |-> TRUE]]
      /\ work' = [w \in Work |->
           CASE w = W("dir", d) -> "over"
             [] w = W("overview", d) /\ Pending(L) = {} -> "queued"
             [] w.uri \in Pending(L) /\ w = W(Kind(w.uri), w.uri) -> "queued"
             [] OTHER -> work[w]]
<1>1. PICK L \in {Children(d), {}} : Effect(L)
  BY DEF DispatchDir
<1>2. WDir(d) = "run" /\ UNCHANGED <<conf, heard, exec>>
  BY DEF DispatchDir, WDir
<1> DEFINE P == Pending(L)
<1>3. L \subseteq Children(d) /\ P \subseteq L /\ P \subseteq Items
  BY PendingSubset, TreeFacts
<1>4. \A u \in P : u # Root /\ Parent[u] = d /\ ~Visited(u) /\ Ancestors[u] = {d} \cup Ancestors[d]
  BY <1>2, <1>3, TreeFacts DEF WalkInv, VisitedBy
<1>5. Visited(d) /\ d \notin P /\ (d # Root => Parent[d] # d)
  BY <1>2, <1>4, VisitedIs DEF WalkInv, VisitedBy, Items
<1>6. node[d].listed = {} /\ heard[d] = {} /\ WOv(d) = "none"
  BY <1>2 DEF WalkInv, Undispatched
<1>n. /\ node'[d].listed = L /\ node'[d].pending = Cardinality(P)
      /\ node'[d].on = TRUE
      /\ P # {} => node'[d].scheduled = FALSE
      /\ \A e \in Dirs : e # d => node'[e] = node[e]
  BY <1>1 DEF TypeOK
<1>w. \A w \in Work : work'[w] =
        CASE w = W("dir", d) -> "over"
          [] w = W("overview", d) /\ P = {} -> "queued"
          [] w.uri \in P /\ w = W(Kind(w.uri), w.uri) -> "queued"
          [] OTHER -> work[w]
  BY <1>1
<1> HIDE DEF Effect, P
<1>7. \A e \in Dirs : WDir(e)' = IF e = d THEN "over" ELSE IF e \in P THEN "queued" ELSE WDir(e)
  <2> SUFFICES ASSUME NEW e \in Dirs
               PROVE  WDir(e)' = IF e = d THEN "over" ELSE IF e \in P THEN "queued" ELSE WDir(e)
    OBVIOUS
  <2> DEFINE w == W("dir", e)
  <2>1. w \in Work /\ w.uri = e /\ w = W(Kind(e), e) /\ w # W("overview", d)
    BY WorkNames, TreeFacts
  <2>2. w = W("dir", d) <=> e = d
    BY WorkNames
  <2> HIDE DEF w
  <2>3. work'[w] = IF e = d THEN "over" ELSE IF e \in P THEN "queued" ELSE work[w]
    BY <2>1, <2>2, <1>5, <1>w
  <2> QED
    BY <2>3 DEF WDir, w
<1>8. \A e \in Dirs : WOv(e)' = IF e = d /\ P = {} THEN "queued" ELSE WOv(e)
  BY <1>w, WorkNames, TreeFacts DEF WOv, Items
<1>9. \A f \in Files : work'[W("file", f)] = IF f \in P THEN "queued" ELSE work[W("file", f)]
  BY <1>w, WorkNames, TreeFacts DEF Items
<1>10. \A u \in Items : Visited(u)' <=> Visited(u) \/ u \in P
  BY <1>5, <1>7, <1>9, VisitedIs DEF Items
<1>11. \A u \in Items : Through(u)' <=> Through(u)
  BY <1>4, <1>6, <1>8, <1>9, ThroughIs, VisitedIs DEF Items
<1>12. \A e \in Dirs : WDir(e) = "over" => WDir(e)' = "over" /\ e # d
  BY <1>2, <1>4, <1>7, VisitedIs
<1>13. \A e \in Dirs : WDir(e)' = "over" => WDir(e) = "over" \/ e = d
  BY <1>7
<1>14. \A e \in Dirs : e # d => Missing(e)' = Missing(e) /\ Pending(node[e].listed)' = Pending(node[e].listed)
  BY <1>2, <1>n DEF Missing, Pending
<1>15. Missing(d)' = P /\ Pending(node[d].listed)' = P
  BY <1>2, <1>6, <1>n DEF Missing, Pending, P
<1>k. KindStates'
  <2> SUFFICES ASSUME NEW w \in Work PROVE work'[w] \in States(w)
    BY DEF KindStates, States
  <2>1. work[w] \in States(w)
    BY DEF WalkInv, KindStates
  <2>2. {"queued", "over"} \subseteq States(w)
    BY WorkNames DEF States
  <2> QED
    BY <2>1, <2>2, <1>5, <1>w
<1>u. Undispatched'
  BY <1>2, <1>n, <1>7, <1>8, <1>12 DEF WalkInv, Undispatched
<1>d. Dispatched'
  <2> SUFFICES ASSUME NEW e \in Dirs, WDir(e)' = "over"
               PROVE  /\ node'[e].listed \subseteq Children(e)
                      /\ node'[e].pending = Cardinality(Missing(e)')
                      /\ WOv(e)' # "none" <=> Missing(e)' = {}
                      /\ Missing(e)' # {} => node'[e].on = TRUE /\ node'[e].scheduled = FALSE
    BY DEF Dispatched, Children
  <2>1. CASE e = d
    BY <2>1, <1>3, <1>6, <1>8, <1>n, <1>15
  <2>2. CASE e # d
    BY <2>2, <1>8, <1>13, <1>14, <1>n DEF WalkInv, Dispatched
  <2> QED
    BY <2>1, <2>2
<1>h. HeardThrough'
  <2>1. \A e \in Dirs : \A u \in heard[e] : Through(u)'
    BY <1>11 DEF WalkInv, HeardThrough, TypeOK, Items
  <2> QED
    BY <2>1, <1>2 DEF HeardThrough
<1>v. VisitedBy'
  <2> SUFFICES ASSUME NEW u \in Items, u # Root, Visited(u)'
               PROVE  WDir(Parent[u])' = "over" /\ u \in Pending(node[Parent[u]].listed)'
    BY DEF VisitedBy
  <2>1. CASE u \in P
    BY <2>1, <1>4, <1>7, <1>15
  <2>2. CASE u \notin P
    <3>1. /\ WDir(Parent[u]) = "over" /\ u \in Pending(node[Parent[u]].listed)
          /\ Parent[u] \in Dirs
      BY <2>2, <1>10, TreeFacts DEF WalkInv, VisitedBy
    <3> QED
      BY <3>1, <1>12, <1>14
  <2> QED
    BY <2>1, <2>2
<1>l. Linked'
  <2> SUFFICES ASSUME NEW u \in Items, Visited(u)'
               PROVE  /\ u # Root => Root \in Ancestors[u]
                      /\ \A e \in Ancestors[u] :
                           /\ WDir(e)' = "over"
                           /\ \E v \in {u} \cup Ancestors[u] : v # Root /\ Parent[v] = e
    BY DEF Linked
  <2>1. CASE u \in P
    <3>1. Ancestors[u] = {d} \cup Ancestors[d] /\ d \in Items
      BY <2>1, <1>4 DEF Items
    <3>2. /\ d # Root => Root \in Ancestors[d]
          /\ \A e \in Ancestors[d] :
               /\ WDir(e) = "over"
               /\ \E v \in {d} \cup Ancestors[d] : v # Root /\ Parent[v] = e
      BY <3>1, <1>5 DEF WalkInv, Linked
    <3>3. WDir(d)' = "over" /\ \A e \in Ancestors[d] : WDir(e)' = "over"
      BY <3>1, <3>2, <1>7, <1>12, TreeFacts
    <3> QED
      BY <3>1, <3>2, <3>3, <2>1, <1>4
  <2>2. CASE u \notin P
    BY <2>2, <1>10, <1>12, TreeFacts DEF WalkInv, Linked
  <2> QED
    BY <2>1, <2>2
<1>b. Below'
  <2> SUFFICES ASSUME NEW e \in Dirs, NEW u \in Items, WOv(e)' # "none", Visited(u)',
                      e \in Ancestors[u]
               PROVE  Through(u)'
    BY DEF Below
  <2>1. CASE u \in P
    <3>1. e # d
      BY <2>1, <1>6, <1>8
    <3>2. e \in Ancestors[d] /\ WOv(e) # "none" /\ d \in Items
      BY <3>1, <2>1, <1>4, <1>8 DEF Items
    <3>3. Through(d)
      BY <3>2, <1>5 DEF WalkInv, Below
    <3> QED
      BY <3>3, <1>6, ThroughIs
  <2>2. CASE u \notin P
    <3>1. Visited(u)
      BY <2>2, <1>10
    <3>2. e # d
      BY <3>1, <1>2 DEF WalkInv, Linked
    <3> QED
      BY <3>1, <3>2, <1>8, <1>11 DEF WalkInv, Below
  <2> QED
    BY <2>1, <2>2
<1>r. RootFirst'
  BY <1>2, <1>6, <1>8, <1>10, TreeFacts DEF WalkInv, RootFirst, Items
<1> QED
  BY <1>k, <1>u, <1>d, <1>h, <1>v, <1>l, <1>b, <1>r DEF WalkInv

(* The except branch of _dispatch_dir: no child is visited, and the         *)
(* directory has nothing to wait for.                                       *)
LEMMA FailsStep ==
  ASSUME TypeOK, WalkInv, NEW d \in Dirs, DispatchFails(d)
  PROVE  WalkInv'
<1>1. WDir(d) = "run" /\ UNCHANGED <<conf, node, heard, exec>>
  BY DEF DispatchFails, WDir
<1>2. \A w \in Work : work'[w] = IF w = W("dir", d) THEN "over"
                                ELSE IF w = W("overview", d) THEN "tell" ELSE work[w]
  BY WorkNames DEF DispatchFails, TypeOK
<1>3. /\ node[d].listed = {} /\ node[d].pending = 0 /\ heard[d] = {} /\ WOv(d) = "none"
  BY <1>1 DEF WalkInv, Undispatched
<1>4. \A e \in Dirs : WDir(e)' = IF e = d THEN "over" ELSE WDir(e)
  BY <1>2, WorkNames DEF WDir
<1>5. \A e \in Dirs : WOv(e)' = IF e = d THEN "tell" ELSE WOv(e)
  BY <1>2, WorkNames DEF WOv
<1>6. \A f \in Files : work'[W("file", f)] = work[W("file", f)]
  BY <1>2, WorkNames
<1>7. \A u \in Items : Visited(u)' <=> Visited(u)
  BY <1>1, <1>4, <1>6, VisitedIs DEF Items
<1>8. \A u \in Items : Through(u)' <=> Through(u)
  BY <1>3, <1>5, <1>6, ThroughIs DEF Items
<1>9. \A e \in Dirs : Missing(e)' = Missing(e) /\ Pending(node[e].listed)' = Pending(node[e].listed)
  BY <1>1 DEF Missing, Pending
<1>10. Missing(d) = {}
  BY <1>3, PendingSubset DEF Missing
<1>k. KindStates'
  <2> SUFFICES ASSUME NEW w \in Work PROVE work'[w] \in States(w)
    BY DEF KindStates, States
  <2>1. work[w] \in States(w)
    BY DEF WalkInv, KindStates
  <2>2. "over" \in States(w) /\ (w = W("overview", d) => "tell" \in States(w))
    BY WorkNames DEF States
  <2> QED
    BY <2>1, <2>2, <1>2
<1>u. Undispatched'
  BY <1>1, <1>4, <1>5 DEF WalkInv, Undispatched
<1>d. Dispatched'
  <2> SUFFICES ASSUME NEW e \in Dirs, WDir(e)' = "over"
               PROVE  /\ node[e].listed \subseteq Children(e)
                      /\ node[e].pending = Cardinality(Missing(e))
                      /\ WOv(e)' # "none" <=> Missing(e) = {}
                      /\ Missing(e) # {} => node[e].on = TRUE /\ node[e].scheduled = FALSE
    BY <1>1, <1>9 DEF Dispatched, Children
  <2>1. CASE e = d
    BY <2>1, <1>3, <1>5, <1>10, FS_EmptySet
  <2>2. CASE e # d
    BY <2>2, <1>4, <1>5 DEF WalkInv, Dispatched
  <2> QED
    BY <2>1, <2>2
<1>h. HeardThrough'
  <2>1. \A e \in Dirs : \A u \in heard[e] : Through(u)'
    BY <1>8 DEF WalkInv, HeardThrough, TypeOK, Items
  <2> QED
    BY <2>1, <1>1 DEF HeardThrough
<1>v. VisitedBy'
  BY <1>4, <1>7, <1>9, TreeFacts DEF WalkInv, VisitedBy
<1>l. Linked'
  BY <1>4, <1>7, TreeFacts DEF WalkInv, Linked
<1>b. Below'
  <2> SUFFICES ASSUME NEW e \in Dirs, NEW u \in Items, WOv(e)' # "none", Visited(u)',
                      e \in Ancestors[u]
               PROVE  Through(u)'
    BY DEF Below
  <2>1. e # d
    BY <1>1, <1>7 DEF WalkInv, Linked
  <2> QED
    BY <2>1, <1>5, <1>7, <1>8 DEF WalkInv, Below
<1>r. RootFirst'
  BY <1>1, <1>3, <1>5, <1>7, TreeFacts DEF WalkInv, RootFirst, Items
<1> QED
  BY <1>k, <1>u, <1>d, <1>h, <1>v, <1>l, <1>b, <1>r DEF WalkInv

(* The work of a path that tells its parent: that of a file, or the         *)
(* overview of a directory.                                                 *)
Last(u) == W(IF u \in Files THEN "file" ELSE "overview", u)

(* An item that has still to tell its parent is visited, and its parent     *)
(* misses it.                                                               *)
LEMMA Teller ==
  ASSUME TypeOK, WalkInv, NEW u \in Items, u # Root, work[Last(u)] = "tell"
  PROVE  /\ Visited(u) /\ ~Through(u)
         /\ Parent[u] \in Dirs /\ Parent[u] # u
         /\ WDir(Parent[u]) = "over" /\ WOv(Parent[u]) = "none"
         /\ u \in Missing(Parent[u])
         /\ node[Parent[u]].on = TRUE /\ node[Parent[u]].scheduled = FALSE
         /\ Cardinality(Missing(Parent[u])) \in Nat
         /\ IsFiniteSet(Missing(Parent[u]))
         /\ u \in Dirs => WDir(u) = "over"
<1>1. ~Through(u)
  BY DEF Through, Last
<1>2. u \in Dirs => WDir(u) = "over"
  <2>1. ASSUME u \in Dirs PROVE WOv(u) # "none"
    BY <2>1, TreeFacts DEF Last, WOv
  <2> QED
    BY <2>1 DEF WalkInv, Undispatched
<1>3. Visited(u)
  BY <1>2, VisitedIs, TreeFacts DEF Items, Last
<1>4. /\ Parent[u] \in Dirs /\ WDir(Parent[u]) = "over"
      /\ u \in Pending(node[Parent[u]].listed)
  BY <1>3, TreeFacts DEF WalkInv, VisitedBy
<1>5. u \in Missing(Parent[u])
  BY <1>1, <1>4 DEF Missing, WalkInv, HeardThrough
<1>6. /\ WOv(Parent[u]) = "none"
      /\ node[Parent[u]].on = TRUE /\ node[Parent[u]].scheduled = FALSE
  BY <1>4, <1>5 DEF WalkInv, Dispatched
<1>7. Parent[u] # u
  BY <1>4, <1>6, TreeFacts DEF Last, WOv
<1>8. Missing(Parent[u]) \in SUBSET Items
  <2>1. node[Parent[u]].listed \subseteq Children(Parent[u])
    BY <1>4 DEF WalkInv, Dispatched
  <2>2. Children(Parent[u]) \subseteq Items
    BY <1>4, TreeFacts
  <2>3. Pending(node[Parent[u]].listed) \subseteq node[Parent[u]].listed
    BY PendingSubset
  <2> QED
    BY <2>1, <2>2, <2>3 DEF Missing
<1>9. IsFiniteSet(Missing(Parent[u])) /\ Cardinality(Missing(Parent[u])) \in Nat
  BY <1>8, TreeFacts, FS_Subset, FS_CardinalityType
<1> QED
  BY <1>1, <1>2, <1>3, <1>4, <1>5, <1>6, <1>7, <1>9

(* _on_file_done, _on_child_done: an item other than the root tells its     *)
(* parent.  When it was the last one, everything below the parent is        *)
(* through.                                                                 *)
LEMMA TellStep ==
  ASSUME TypeOK, WalkInv, NEW u \in Items, u # Root, work[Last(u)] = "tell",
         NEW ns, u \in Files => ns = node,
         u \in Dirs => ns = [node EXCEPT ![u].on = FALSE],
         Tell(Parent[u], u, [work EXCEPT ![Last(u)] = "over"], ns),
         UNCHANGED <<conf, exec>>
  PROVE  WalkInv' /\ node' \in [Dirs -> Nodes] /\ heard' \in [Dirs -> SUBSET (Dirs \cup Files)]
<1> DEFINE d == Parent[u]
           ws == [work EXCEPT ![Last(u)] = "over"]
           last == node[d].pending = 1
<1>1. /\ Visited(u) /\ ~Through(u) /\ d \in Dirs /\ d # u /\ WDir(d) = "over" /\ WOv(d) = "none"
      /\ u \in Missing(d) /\ node[d].on = TRUE /\ node[d].scheduled = FALSE
      /\ Cardinality(Missing(d)) \in Nat /\ IsFiniteSet(Missing(d))
      /\ u \in Dirs => WDir(u) = "over"
  BY Teller
<1>2. Last(u) \in Work /\ Last(u) # W("overview", d) /\ W("overview", d) \in Work
  BY <1>1, WorkNames DEF Last, Items
<1>3. /\ ns[d] = node[d]
      /\ ns \in [Dirs -> Nodes]
      /\ \A e \in Dirs : e # u => ns[e] = node[e]
      /\ \A e \in Dirs : ns[e].listed = node[e].listed /\ ns[e].pending = node[e].pending
  <2>1. CASE u \in Files
    BY <2>1, <1>1, TreeFacts DEF TypeOK
  <2>2. CASE u \in Dirs
    <3>1. ns = [node EXCEPT ![u] = [node[u] EXCEPT !.on = FALSE]]
      BY <2>2
    <3> DEFINE n == [node[u] EXCEPT !.on = FALSE]
    <3>2. node[u] \in Nodes
      BY <2>2 DEF TypeOK
    <3>3. n \in Nodes
      BY <3>2, Zenon DEF Nodes
    <3>4. n.listed = node[u].listed /\ n.pending = node[u].pending
      BY <3>2 DEF Nodes
    <3> HIDE DEF n
    <3>5. ns = [node EXCEPT ![u] = n]
      BY <3>1 DEF n
    <3> QED
      BY <3>3, <3>4, <3>5, <2>2, <1>1 DEF TypeOK
  <2> QED
    BY <2>1, <2>2 DEF Items
<1> DEFINE nd == [ns[d] EXCEPT !.pending = @ - 1, !.scheduled = @ \/ last]
<1>4. /\ heard' = [heard EXCEPT ![d] = @ \cup {u}]
      /\ node' = [ns EXCEPT ![d] = nd]
      /\ work' = IF last THEN [ws EXCEPT ![W("overview", d)] = "queued"] ELSE ws
  <2>1. ns[d].on = TRUE /\ ns[d].scheduled = FALSE /\ ns[d].pending = node[d].pending
    BY <1>1, <1>3
  <2>2. last <=> (ns[d].pending = 1 /\ ~ns[d].scheduled)
    BY <2>1
  <2>3. heard' = [heard EXCEPT ![d] = @ \cup {u}]
    BY <2>1 DEF Tell
  <2>4. work' = IF last THEN [ws EXCEPT ![W("overview", d)] = "queued"] ELSE ws
    BY <2>1 DEF Tell
  <2>5. node' = [ns EXCEPT ![d].pending = @ - 1, ![d].scheduled = @ \/ (ns[d].pending = 1 /\ ~ns[d].scheduled)]
    BY <2>1 DEF Tell
  <2>6. node' = [ns EXCEPT ![d] = nd]
    BY <2>1, <2>2, <2>5, <1>1, <1>3
  <2> QED
    BY <2>3, <2>4, <2>6
<1>5. nd.listed = node[d].listed /\ nd.pending = node[d].pending - 1
  BY <1>1, <1>3 DEF TypeOK, Nodes
<1>6. nd.on = TRUE /\ (~last => nd.scheduled = FALSE)
  BY <1>1, <1>3 DEF TypeOK, Nodes
<1>7. node[d].pending = Cardinality(Missing(d)) /\ Cardinality(Missing(d)) >= 1
  <2>1. Cardinality(Missing(d)) # 0
    BY <1>1, FS_EmptySet
  <2> QED
    BY <2>1, <1>1 DEF WalkInv, Dispatched
<1>8. nd \in Nodes
  <2>1. node[d].pending - 1 \in Nat
    BY <1>1, <1>7
  <2>2. (node[d].scheduled \/ last) \in BOOLEAN
    OBVIOUS
  <2>3. nd = [node[d] EXCEPT !.pending = node[d].pending - 1, !.scheduled = (node[d].scheduled \/ last)]
    BY <1>3
  <2>4. node[d] \in Nodes
    BY <1>1 DEF TypeOK
  <2>5. ASSUME NEW p \in Nat, NEW b \in BOOLEAN
        PROVE  [node[d] EXCEPT !.pending = p, !.scheduled = b] \in Nodes
    BY <2>4, Zenon DEF Nodes
  <2> HIDE DEF nd, last
  <2> QED
    BY <2>1, <2>2, <2>3, <2>5
<1> HIDE DEF nd
<1>9. /\ node'[d] = nd
      /\ \A e \in Dirs : e # d => node'[e] = ns[e]
      /\ heard'[d] = heard[d] \cup {u}
      /\ \A e \in Dirs : e # d => heard'[e] = heard[e]
  BY <1>1, <1>3, <1>4 DEF TypeOK
<1>10. \A w \in Work : work'[w] = IF w = Last(u) THEN "over"
                                 ELSE IF last /\ w = W("overview", d) THEN "queued" ELSE work[w]
  BY <1>2, <1>4 DEF TypeOK
<1> HIDE DEF ws
<1>11. \A e \in Dirs : node'[e].listed = node[e].listed
  BY <1>3, <1>5, <1>9
<1>12. \A e \in Dirs : Pending(node[e].listed)' = Pending(node[e].listed)
  BY <1>11 DEF Pending
<1>13. Missing(d)' = Missing(d) \ {u} /\ \A e \in Dirs : e # d => Missing(e)' = Missing(e)
  BY <1>1, <1>9, <1>12 DEF Missing
<1>14. Cardinality(Missing(d)') = node[d].pending - 1
  BY <1>1, <1>7, <1>13, FS_RemoveElement
<1>15. last <=> Missing(d)' = {}
  <2>1. IsFiniteSet(Missing(d)')
    BY <1>1, <1>13, FS_RemoveElement
  <2>2. Missing(d)' = {} <=> Cardinality(Missing(d)') = 0
    BY <2>1, FS_EmptySet
  <2> QED
    BY <2>2, <1>1, <1>7, <1>14
<1>16. \A e \in Dirs : WDir(e)' = WDir(e)
  BY <1>10, WorkNames DEF WDir, Last
<1>17. \A e \in Dirs : WOv(e)' = IF e = u THEN "over" ELSE IF e = d /\ last THEN "queued" ELSE WOv(e)
  <2> SUFFICES ASSUME NEW e \in Dirs
               PROVE  WOv(e)' = IF e = u THEN "over" ELSE IF e = d /\ last THEN "queued" ELSE WOv(e)
    OBVIOUS
  <2>1. W("overview", e) \in Work /\ (W("overview", e) = W("overview", d) <=> e = d)
    BY WorkNames
  <2>2. W("overview", e) = Last(u) <=> e = u
    BY WorkNames, TreeFacts DEF Last
  <2> QED
    BY <2>1, <2>2, <1>10 DEF WOv
<1>18. \A v \in Items : Visited(v)' <=> Visited(v)
  <2>1. \A f \in Files : work'[W("file", f)] # "none" <=> work[W("file", f)] # "none"
    BY <1>10, <1>2, WorkNames
  <2> QED
    BY <2>1, <1>16, VisitedIs DEF Items
<1>19. \A v \in Items : Through(v)' <=> Through(v) \/ v = u
  <2>1. \A f \in Files : work'[W("file", f)] = "over" <=> work[W("file", f)] = "over" \/ f = u
    BY <1>10, <1>2, WorkNames DEF Last
  <2> QED
    BY <2>1, <1>1, <1>17, ThroughIs DEF Items
<1>k. KindStates'
  <2> SUFFICES ASSUME NEW w \in Work PROVE work'[w] \in States(w)
    BY DEF KindStates, States
  <2>1. work[w] \in States(w)
    BY DEF WalkInv, KindStates
  <2>2. {"queued", "over"} \subseteq States(w)
    BY WorkNames DEF States
  <2> QED
    BY <2>1, <2>2, <1>10
<1>u. Undispatched'
  <2> SUFFICES ASSUME NEW e \in Dirs, WDir(e)' # "over"
               PROVE  /\ node'[e].listed = {} /\ node'[e].pending = 0
                      /\ heard'[e] = {} /\ WOv(e)' = "none"
    BY DEF Undispatched
  <2>1. WDir(e) # "over" /\ e # d /\ e # u
    BY <1>1, <1>16
  <2>2. node[e].listed = {} /\ node[e].pending = 0 /\ heard[e] = {} /\ WOv(e) = "none"
    BY <2>1 DEF WalkInv, Undispatched
  <2> QED
    BY <2>1, <2>2, <1>3, <1>9, <1>17
<1>d. Dispatched'
  <2> SUFFICES ASSUME NEW e \in Dirs, WDir(e)' = "over"
               PROVE  /\ node'[e].listed \subseteq Children(e)
                      /\ node'[e].pending = Cardinality(Missing(e)')
                      /\ WOv(e)' # "none" <=> Missing(e)' = {}
                      /\ Missing(e)' # {} => node'[e].on = TRUE /\ node'[e].scheduled = FALSE
    BY DEF Dispatched, Children
  <2>0. /\ node[e].listed \subseteq Children(e)
        /\ node[e].pending = Cardinality(Missing(e))
        /\ WOv(e) # "none" <=> Missing(e) = {}
        /\ Missing(e) # {} => node[e].on = TRUE /\ node[e].scheduled = FALSE
    BY <1>16 DEF WalkInv, Dispatched
  <2>1. CASE e = d
    BY <2>0, <2>1, <1>1, <1>5, <1>6, <1>9, <1>14, <1>15, <1>17
  <2>2. CASE e # d /\ e # u
    BY <2>0, <2>2, <1>3, <1>9, <1>13, <1>17
  <2>3. CASE e = u
    <3>1. WOv(u) # "none"
      BY <2>3, TreeFacts DEF Last, WOv
    <3> QED
      BY <3>1, <2>0, <2>3, <1>1, <1>3, <1>9, <1>13, <1>17
  <2> QED
    BY <2>1, <2>2, <2>3
<1>h. HeardThrough'
  <2>1. \A e \in Dirs : \A v \in heard[e] : v \in Items /\ Through(v)
    BY DEF WalkInv, HeardThrough, TypeOK, Items
  <2> QED
    BY <2>1, <1>9, <1>19 DEF HeardThrough
<1>v. VisitedBy'
  BY <1>12, <1>16, <1>18, TreeFacts DEF WalkInv, VisitedBy
<1>l. Linked'
  BY <1>16, <1>18, TreeFacts DEF WalkInv, Linked
<1>b. Below'
  <2> SUFFICES ASSUME NEW e \in Dirs, NEW v \in Items, WOv(e)' # "none", Visited(v)',
                      e \in Ancestors[v]
               PROVE  Through(v)'
    BY DEF Below
  <2>0. Visited(v)
    BY <1>18
  <2>1. CASE WOv(e) # "none"
    BY <2>0, <2>1, <1>19 DEF WalkInv, Below
  <2>2. CASE WOv(e) = "none"
    <3>1. e = d /\ last
      BY <2>2, <1>17, TreeFacts DEF Last, WOv
    <3>2. PICK x \in {v} \cup Ancestors[v] : x # Root /\ Parent[x] = d
      BY <3>1, <2>0 DEF WalkInv, Linked
    <3>3. x \in Items /\ Visited(x) /\ (x # v => x \in Dirs)
      BY <3>2, <2>0, TreeFacts, VisitedIs DEF WalkInv, Linked, Items
    <3>4. x \in Pending(node[d].listed)
      BY <3>2, <3>3 DEF WalkInv, VisitedBy
    <3>5. x \in heard'[d]
      BY <3>1, <3>4, <1>12, <1>15, <1>1 DEF Missing
    <3>6. Through(x)'
      BY <3>5, <1>h, <1>1 DEF HeardThrough
    <3>7. CASE x # v
      <4>1. x \in Dirs /\ x \in Ancestors[v] /\ WOv(x)' = "over"
        BY <3>2, <3>3, <3>6, <3>7, ThroughIs
      <4>2. WOv(x) # "none"
        BY <4>1, <1>17, TreeFacts DEF Last, WOv
      <4> QED
        BY <4>1, <4>2, <2>0, <1>19 DEF WalkInv, Below
    <3> QED
      BY <3>6, <3>7
  <2> QED
    BY <2>1, <2>2
<1>r. RootFirst'
  BY <1>1, <1>17, <1>18, TreeFacts DEF WalkInv, RootFirst, Items
<1>t. node' \in [Dirs -> Nodes] /\ heard' \in [Dirs -> SUBSET (Dirs \cup Files)]
  BY <1>1, <1>3, <1>4, <1>8 DEF TypeOK, Items
<1> QED
  BY <1>k, <1>u, <1>d, <1>h, <1>v, <1>l, <1>b, <1>r, <1>t DEF WalkInv

(* The end of the root's overview wakes run().                              *)
LEMMA RootStep ==
  ASSUME TypeOK, WalkInv, work[W("overview", Root)] = "tell", exec' = "count",
         work' = [work EXCEPT ![W("overview", Root)] = "over"],
         node' = [node EXCEPT ![Root].on = FALSE], UNCHANGED <<conf, heard>>
  PROVE  WalkInv' /\ node' \in [Dirs -> Nodes]
<1>1. Root \in Dirs /\ W("overview", Root) \in Work /\ Root \in Items
  BY WorkNames, TreeFacts DEF Items
<1>2. \A w \in Work : work'[w] = IF w = W("overview", Root) THEN "over" ELSE work[w]
  BY <1>1 DEF TypeOK
<1> DEFINE n == [node[Root] EXCEPT !.on = FALSE]
<1>3. node[Root] \in Nodes
  BY <1>1 DEF TypeOK
<1>4. n \in Nodes
  BY <1>3, Zenon DEF Nodes
<1>5. n.listed = node[Root].listed /\ n.pending = node[Root].pending
  BY <1>3 DEF Nodes
<1>6. node' = [node EXCEPT ![Root] = n]
  OBVIOUS
<1> HIDE DEF n
<1>7. /\ \A e \in Dirs : e # Root => node'[e] = node[e]
      /\ \A e \in Dirs : node'[e].listed = node[e].listed /\ node'[e].pending = node[e].pending
  BY <1>1, <1>5, <1>6 DEF TypeOK
<1>8. \A e \in Dirs : /\ Pending(node[e].listed)' = Pending(node[e].listed)
                      /\ Missing(e)' = Missing(e)
  BY <1>7 DEF Pending, Missing
<1>9. \A e \in Dirs : WDir(e)' = WDir(e) /\ WOv(e)' = IF e = Root THEN "over" ELSE WOv(e)
  BY <1>2, WorkNames DEF WDir, WOv
<1>10. WOv(Root) = "tell"
  BY DEF WOv
<1>11. \A v \in Items : Visited(v)' <=> Visited(v)
  <2>1. \A f \in Files : work'[W("file", f)] = work[W("file", f)]
    BY <1>2, WorkNames
  <2> QED
    BY <2>1, <1>9, VisitedIs DEF Items
<1>12. \A v \in Items : Through(v) => Through(v)'
  <2>1. \A f \in Files : work'[W("file", f)] = work[W("file", f)]
    BY <1>2, WorkNames
  <2> QED
    BY <2>1, <1>9, ThroughIs DEF Items
<1>k. KindStates'
  <2> SUFFICES ASSUME NEW w \in Work PROVE work'[w] \in States(w)
    BY DEF KindStates, States
  <2>1. work[w] \in States(w)
    BY DEF WalkInv, KindStates
  <2>2. "over" \in States(w)
    BY WorkNames DEF States
  <2> QED
    BY <2>1, <2>2, <1>2
<1>u. Undispatched'
  BY <1>1, <1>7, <1>9, <1>10 DEF WalkInv, Undispatched
<1>d. Dispatched'
  <2> SUFFICES ASSUME NEW e \in Dirs, WDir(e)' = "over"
               PROVE  /\ node'[e].listed \subseteq Children(e)
                      /\ node'[e].pending = Cardinality(Missing(e)')
                      /\ WOv(e)' # "none" <=> Missing(e)' = {}
                      /\ Missing(e)' # {} => node'[e].on = TRUE /\ node'[e].scheduled = FALSE
    BY DEF Dispatched, Children
  <2>0. /\ node[e].listed \subseteq Children(e)
        /\ node[e].pending = Cardinality(Missing(e))
        /\ WOv(e) # "none" <=> Missing(e) = {}
        /\ Missing(e) # {} => node[e].on = TRUE /\ node[e].scheduled = FALSE
    BY <1>9 DEF WalkInv, Dispatched
  <2> QED
    BY <2>0, <1>7, <1>8, <1>9, <1>10
<1>h. HeardThrough'
  <2>1. \A e \in Dirs : \A v \in heard[e] : v \in Items /\ Through(v)
    BY DEF WalkInv, HeardThrough, TypeOK, Items
  <2> QED
    BY <2>1, <1>12 DEF HeardThrough
<1>v. VisitedBy'
  BY <1>8, <1>9, <1>11, TreeFacts DEF WalkInv, VisitedBy
<1>l. Linked'
  BY <1>9, <1>11, TreeFacts DEF WalkInv, Linked
<1>b. Below'
  BY <1>9, <1>10, <1>11, <1>12 DEF WalkInv, Below
<1>r. RootFirst'
  BY <1>1, <1>9, <1>11 DEF WalkInv, RootFirst
<1> QED
  BY <1>k, <1>u, <1>d, <1>h, <1>v, <1>l, <1>b, <1>r, <1>4, <1>6 DEF WalkInv, TypeOK

(* One unit of work moves within the states of its kind.                    *)
LEMMA OneMoves ==
  ASSUME TypeOK, WalkInv, NEW w \in Work, NEW s \in States(w), work' = [work EXCEPT ![w] = s],
         w.kind # "vectorize" => work[w] \notin {"none", "over"} /\ s \notin {"none", "over"},
         UNCHANGED <<conf, node, heard, exec>>
  PROVE  WalkInv'
<1>1. \A v \in Work : work'[v] = IF v = w THEN s ELSE work[v]
  BY DEF TypeOK
<1>2. KindStates'
  <2> SUFFICES ASSUME NEW v \in Work PROVE work'[v] \in States(v)
    BY DEF KindStates, States
  <2> QED
    BY <1>1 DEF WalkInv, KindStates
<1> QED
  BY <1>1, <1>2, QuietStep

(* Every step keeps the invariant of the walk.                              *)
LEMMA WalkStep ==
  ASSUME TypeOK, WalkInv, [Next]_vars
  PROVE  /\ WalkInv'
         /\ node' \in [Dirs -> Nodes]
         /\ heard' \in [Dirs -> SUBSET (Dirs \cup Files)]
<1> DEFINE Goal == /\ WalkInv'
                   /\ node' \in [Dirs -> Nodes]
                   /\ heard' \in [Dirs -> SUBSET (Dirs \cup Files)]
<1>k. \A w \in Work : work[w] \in States(w)
  BY DEF WalkInv, KindStates
<1>q. ASSUME NEW w \in Work, NEW s \in States(w), work' = [work EXCEPT ![w] = s],
             w.kind # "vectorize" => work[w] \notin {"none", "over"} /\ s \notin {"none", "over"},
             UNCHANGED <<conf, node, heard, exec>>
      PROVE  Goal
  BY <1>q, OneMoves DEF TypeOK
<1>s. ASSUME UNCHANGED <<conf, work, node, heard>>, exec' = "graph" <=> exec = "graph" PROVE Goal
  <2>1. KindStates'
    BY <1>s, <1>k DEF KindStates, States
  <2> QED
    BY <1>s, <2>1, QuietStep DEF TypeOK
<1>1. ASSUME NEW w \in Work, Take(w) PROVE Goal
  <2> DEFINE s == IF w.kind = "vectorize" /\ w.uri \in Dirs THEN "L0" ELSE "run"
  <2>1. s \in States(w)
    BY WorkNames, TreeFacts DEF States, Items
  <2>2. work[w] = "queued" /\ work' = [work EXCEPT ![w] = s] /\ UNCHANGED <<conf, node, heard, exec>>
    BY <1>1 DEF Take
  <2>3. w.kind # "vectorize" => s = "run"
    OBVIOUS
  <2> HIDE DEF s
  <2> QED
    BY <2>1, <2>2, <2>3, <1>q
<1>2. ASSUME NEW w \in Work, AddVectorizeTask(w) PROVE Goal
  <2>1. "tell" \in States(w) /\ work[w] = "add" /\ work' = [work EXCEPT ![w] = "tell"]
        /\ UNCHANGED <<conf, node, heard, exec>>
    BY <1>2 DEF AddVectorizeTask, States
  <2> QED
    BY <2>1, <1>q
<1>3. ASSUME NEW w \in Work, CountUnsent(w) PROVE Goal
  <2> DEFINE s == CASE work[w] = "owe2" -> IF AtZero THEN "call1" ELSE "owe1"
                    [] OTHER -> IF AtZero THEN "call" ELSE "over"
  <2>1. work[w] \in {"owe1", "owe2"} /\ work' = [work EXCEPT ![w] = s]
        /\ UNCHANGED <<conf, node, heard, exec>>
    BY <1>3 DEF CountUnsent
  <2>2. w.kind = "vectorize" /\ s \in States(w)
    BY <2>1, <1>k, WorkNames, TreeFacts DEF States, Items
  <2> HIDE DEF s
  <2> QED
    BY <2>1, <2>2, <1>q
<1>4. ASSUME NEW w \in Work, TaskCallback(w) PROVE Goal
  <2> DEFINE s == IF work[w] = "call1" THEN "owe1" ELSE "over"
  <2>1. work[w] \in {"call", "call1"} /\ work' = [work EXCEPT ![w] = s]
        /\ UNCHANGED <<conf, node, heard, exec>>
    BY <1>4 DEF TaskCallback
  <2>2. w.kind = "vectorize" /\ s \in States(w)
    BY <2>1, <1>k, WorkNames, TreeFacts DEF States, Items
  <2> HIDE DEF s
  <2> QED
    BY <2>1, <2>2, <1>q
<1>5. ASSUME NEW d \in Dirs, DispatchDir(d) PROVE Goal
  <2>1. WalkInv' /\ UNCHANGED heard
    BY <1>5, DispatchStep DEF DispatchDir
  <2>2. PICK L \in {Children(d), {}} :
          node' = [node EXCEPT ![d] = [listed |-> L, pending |-> Cardinality(Pending(L)),
                                       scheduled |-> Pending(L) = {}, on |-> TRUE]]
    BY <1>5 DEF DispatchDir
  <2>3. Pending(L) \in SUBSET Items /\ L \in SUBSET Items
    BY PendingSubset, TreeFacts
  <2>4. Cardinality(Pending(L)) \in Nat
    BY <2>3, TreeFacts, FS_Subset, FS_CardinalityType
  <2> DEFINE b == Pending(L) = {}
             c == Cardinality(Pending(L))
             n == [listed |-> L, pending |-> c, scheduled |-> b, on |-> TRUE]
  <2>5. b \in BOOLEAN /\ c \in Nat
    BY <2>4
  <2>7. node' = [node EXCEPT ![d] = n]
    BY <2>2
  <2> HIDE DEF b, c
  <2>6. n \in Nodes
    BY <2>3, <2>5, Zenon DEF Nodes, Items
  <2> HIDE DEF n
  <2> QED
    BY <2>1, <2>6, <2>7 DEF TypeOK
<1>f. ASSUME NEW d \in Dirs, DispatchFails(d) PROVE Goal
  BY <1>f, FailsStep DEF DispatchFails, TypeOK
<1>6. ASSUME NEW d \in Dirs, OverviewTask(d) PROVE Goal
  <2> DEFINE w == W("overview", d)
  <2>1. PICK s \in {"tell", "write", "writeonly"} : work' = [work EXCEPT ![w] = s]
    BY <1>6 DEF OverviewTask
  <2>2. work[w] = "run" /\ UNCHANGED <<conf, node, heard, exec>>
    BY <1>6 DEF OverviewTask
  <2>3. w \in Work /\ s \in States(w)
    BY WorkNames DEF States
  <2> QED
    BY <2>1, <2>2, <2>3, <1>q
<1>7. ASSUME NEW d \in Dirs, WriteDirectorySemantics(d) PROVE Goal
  <2> DEFINE w == W("overview", d)
  <2>1. PICK s \in {"tell", "add"} : work' = [work EXCEPT ![w] = s]
    BY <1>7 DEF WriteDirectorySemantics
  <2>2. work[w] \in {"write", "writeonly"} /\ UNCHANGED <<conf, node, heard, exec>>
    BY <1>7 DEF WriteDirectorySemantics
  <2>3. w \in Work /\ s \in States(w)
    BY WorkNames DEF States
  <2> QED
    BY <2>1, <2>2, <2>3, <1>q
<1>8. ASSUME NEW d \in Dirs, OnChildDone(d) PROVE Goal
  <2>1. work[W("overview", d)] = "tell" /\ UNCHANGED conf
    BY <1>8 DEF OnChildDone
  <2>2. CASE d = Root
    BY <2>1, <2>2, <1>8, RootStep DEF OnChildDone, TypeOK
  <2>3. CASE d # Root
    <3>1. d \in Items /\ Last(d) = W("overview", d)
      BY TreeFacts DEF Items, Last
    <3> DEFINE ns == [node EXCEPT ![d].on = FALSE]
    <3>2. /\ Tell(Parent[d], d, [work EXCEPT ![Last(d)] = "over"], ns)
          /\ UNCHANGED exec
      BY <2>3, <3>1, <1>8 DEF OnChildDone
    <3>3. d \in Files => ns = node
      BY TreeFacts
    <3> HIDE DEF ns
    <3>4. d \in Dirs => ns = [node EXCEPT ![d].on = FALSE]
      BY DEF ns
    <3> QED
      BY <2>1, <2>3, <3>1, <3>2, <3>3, <3>4, TellStep
  <2> QED
    BY <2>2, <2>3
<1>9. ASSUME NEW f \in Files, FileSummaryTask(f) PROVE Goal
  <2> DEFINE w == W("file", f)
  <2>1. PICK s \in {"tell", "add"} : work' = [work EXCEPT ![w] = s]
    BY <1>9 DEF FileSummaryTask
  <2>2. work[w] = "run" /\ UNCHANGED <<conf, node, heard, exec>>
    BY <1>9 DEF FileSummaryTask
  <2>3. w \in Work /\ s \in States(w)
    BY WorkNames DEF States
  <2> QED
    BY <2>1, <2>2, <2>3, <1>q
<1>10. ASSUME NEW f \in Files, OnFileDone(f) PROVE Goal
  <2>1. f \in Items /\ f # Root /\ Last(f) = W("file", f) /\ f \notin Dirs
    BY TreeFacts DEF Items, Last
  <2>2. /\ work[Last(f)] = "tell" /\ UNCHANGED <<conf, exec>>
        /\ Tell(Parent[f], f, [work EXCEPT ![Last(f)] = "over"], node)
    BY <2>1, <1>10 DEF OnFileDone
  <2> QED
    BY <2>1, <2>2, TellStep
<1>11. ASSUME NEW u \in Items, NEW m, NEW s \in States(W("vectorize", u)),
              NEW t \in States(W("vectorize", u)), Send(W("vectorize", u), m, s, t)
       PROVE  Goal
  <2> DEFINE w == W("vectorize", u)
  <2>1. w \in Work /\ w.kind = "vectorize"
    BY WorkNames
  <2>2. PICK x \in {s, t} : work' = [work EXCEPT ![w] = x]
    BY <1>11 DEF Send
  <2>3. UNCHANGED <<conf, node, heard, exec>>
    BY <1>11 DEF Send
  <2> HIDE DEF w
  <2>4. x \in States(w)
    BY <1>11, <2>2 DEF w
  <2> QED
    BY <2>1, <2>2, <2>3, <2>4, <1>q
<1>12. ASSUME NEW f \in Files, VectorizeFile(f) PROVE Goal
  <2>1. {"over", "owe1"} \subseteq States(W("vectorize", f)) /\ f \in Items
    BY WorkNames DEF States, Items
  <2> QED
    BY <2>1, <1>11, <1>12 DEF VectorizeFile
<1>13. ASSUME NEW d \in Dirs, VectorizeAbstract(d) \/ VectorizeOverview(d) PROVE Goal
  <2>1. {"L1", "L1owe", "over", "owe1", "owe2"} \subseteq States(W("vectorize", d)) /\ d \in Items
    BY WorkNames, TreeFacts DEF States, Items
  <2> QED
    BY <2>1, <1>11, <1>13 DEF VectorizeAbstract, VectorizeOverview
<1>14. CASE DispatchVectorizeTasks
  <2>1. \A w \in Work : work'[w] = IF w.kind = "vectorize" /\ w.uri \in tasks THEN "queued" ELSE work[w]
    BY <1>14 DEF DispatchVectorizeTasks
  <2>2. KindStates'
    <3> SUFFICES ASSUME NEW w \in Work PROVE work'[w] \in States(w)
      BY DEF KindStates, States
    <3>1. "queued" \in States(w)
      BY WorkNames DEF States
    <3> QED
      BY <3>1, <2>1, <1>k
  <2> QED
    BY <2>1, <2>2, <1>14, QuietStep DEF DispatchVectorizeTasks, TypeOK
<1>15. CASE Register \/ Return
  BY <1>15, <1>s DEF Register, Return, Returned
<1>16. CASE Supersede \/ UNCHANGED vars
  BY <1>16, <1>s DEF Supersede, vars
<1>17. ASSUME NEW h \in Handlers, Handle(h) PROVE Goal
  BY <1>17, <1>s DEF Handle, Dequeue, Embed, Requeue, Upsert, Settle, HandlerCallback
<1> QED
  BY <1>1, <1>2, <1>3, <1>4, <1>5, <1>6, <1>7, <1>8, <1>9, <1>10, <1>12, <1>13, <1>14, <1>15,
     <1>16, <1>17, <1>f DEF Next, Execute, Run, WorkStep, DirStep, FileStep
-----------------------------------------------------------------------------
(* Types.                                                                   *)

(* A handler that is not idle has a message.                                *)
Laden == \A h \in Handlers : handler[h].pc # "idle" => handler[h].msg \in Msgs

(* The breaker's methods return breakers.                                   *)
LEMMA BreakerTypes ==
  /\ ClosedBreaker \in Breakers
  /\ \A b \in Breakers : \A c \in Check(b) : c.breaker \in Breakers
  /\ \A b \in Breakers : \A class : RecordFailure(b, class) \in Breakers
<1>1. ClosedBreaker \in Breakers
  BY ThresholdAssumption DEF ClosedBreaker, Breakers
<1>2. ASSUME NEW b \in Breakers, NEW c \in Check(b) PROVE c.breaker \in Breakers
  <2>1. [b EXCEPT !.state = "HALF_OPEN"] \in Breakers
    BY DEF Breakers
  <2>2. c.breaker = b \/ c.breaker = [b EXCEPT !.state = "HALF_OPEN"]
    BY <1>2 DEF Check
  <2> QED
    BY <2>1, <2>2
<1>3. ASSUME NEW b \in Breakers, NEW class PROVE RecordFailure(b, class) \in Breakers
  <2> DEFINE n == IF b.failures < FailureThreshold THEN b.failures + 1 ELSE b.failures
  <2>1. n \in 0 .. FailureThreshold
    BY ThresholdAssumption DEF Breakers
  <2> HIDE DEF n
  <2>2. \A x \in {"OPEN", b.state} : [state |-> x, failures |-> n] \in Breakers
    BY <2>1 DEF Breakers
  <2>3. RecordFailure(b, class) = b \/
        \E x \in {"OPEN", b.state} : RecordFailure(b, class) = [state |-> x, failures |-> n]
    BY DEF RecordFailure, n
  <2> QED
    BY <2>2, <2>3
<1> QED
  BY <1>1, <1>2, <1>3

(* The initial states are well typed.                                       *)
LEMMA InitType == Init => TypeOK
<1> SUFFICES ASSUME Init PROVE TypeOK
  OBVIOUS
<1>1. conf \in Confs /\ exec = "graph" /\ lock = "held" /\ tracker = 0
  BY DEF Init
<1>2. work \in [Work -> WorkStates]
  BY DEF Init, WorkStates
<1>3. node \in [Dirs -> Nodes]
  <2>1. NoNode \in Nodes
    BY Zenon DEF NoNode, Nodes
  <2> QED
    BY <2>1 DEF Init
<1>4. heard \in [Dirs -> SUBSET (Dirs \cup Files)]
  BY DEF Init
<1>5. changedFile \in [Files -> BOOLEAN] /\ changedDir \in [Dirs -> BOOLEAN]
  BY DEF Init
<1>6. stale \in BOOLEAN /\ superseded \in BOOLEAN /\ requeued \in BOOLEAN
  BY DEF Init
<1>7. tasks = {} /\ queue = {} /\ settled = {} /\ fresh = {} /\ reused = {}
  BY DEF Init
<1>8. handler \in [Handlers -> [pc : HandlerPCs, msg : Msgs \cup {NoMsg}]]
  <2>1. Idle \in [pc : HandlerPCs, msg : Msgs \cup {NoMsg}]
    BY DEF Idle, HandlerPCs
  <2> QED
    BY <2>1 DEF Init
<1>9. breaker \in Breakers
  BY BreakerTypes DEF Init
<1> QED
  BY <1>1, <1>2, <1>3, <1>4, <1>5, <1>6, <1>7, <1>8, <1>9 DEF TypeOK

(* Only a summary task and an overview task judge what has changed.         *)
LEMMA Judges ==
  ASSUME [Next]_vars
  PROVE  \/ UNCHANGED <<changedFile, changedDir, fresh, reused>>
         \/ \E f \in Files : FileSummaryTask(f)
         \/ \E d \in Dirs : OverviewTask(d)
<1> DEFINE Quiet == UNCHANGED <<changedFile, changedDir, fresh, reused>>
<1>1. ASSUME NEW w \in Work, WorkStep(w) PROVE Quiet
  BY <1>1 DEF WorkStep, Take, AddVectorizeTask, CountUnsent, TaskCallback
<1>2. ASSUME NEW d \in Dirs, DirStep(d), ~OverviewTask(d) PROVE Quiet
  BY <1>2 DEF DirStep, DispatchDir, DispatchFails, WriteDirectorySemantics, OnChildDone,
    VectorizeAbstract, VectorizeOverview, Send
<1>3. ASSUME NEW f \in Files, FileStep(f), ~FileSummaryTask(f) PROVE Quiet
  BY <1>3 DEF FileStep, OnFileDone, VectorizeFile, Send
<1>4. ASSUME Run PROVE Quiet
  BY <1>4 DEF Run, Register, DispatchVectorizeTasks, Return
<1>5. ASSUME NEW h \in Handlers, Handle(h) PROVE Quiet
  BY <1>5 DEF Handle, Dequeue, Embed, Requeue, Upsert, Settle, HandlerCallback
<1>6. ASSUME Supersede \/ UNCHANGED vars PROVE Quiet
  BY <1>6 DEF Supersede, vars
<1> HIDE DEF Quiet
<1>7. Quiet \/ (\E f \in Files : FileSummaryTask(f)) \/ (\E d \in Dirs : OverviewTask(d))
  BY <1>1, <1>2, <1>3, <1>4, <1>5, <1>6 DEF Next, Execute
<1> QED
  BY <1>7 DEF Quiet

(* Every step preserves the types.                                          *)
LEMMA TypeStep ==
  ASSUME TypeOK, WalkInv, Laden, [Next]_vars
  PROVE  TypeOK' /\ Laden'
<1>0. /\ KindStates' /\ node' \in [Dirs -> Nodes]
      /\ heard' \in [Dirs -> SUBSET (Dirs \cup Files)]
  BY WalkStep DEF WalkInv
<1> DEFINE HandlerType == [Handlers -> [pc : HandlerPCs, msg : Msgs \cup {NoMsg}]]
<1>1. work' \in [Work -> WorkStates]
  <2>1. \A w \in Work : work'[w] \in WorkStates
    <3> SUFFICES ASSUME NEW w \in Work PROVE work'[w] \in WorkStates
      OBVIOUS
    <3>1. work'[w] \in States(w)
      BY <1>0 DEF KindStates, States
    <3> QED
      BY <3>1, WorkNames DEF States, WorkStates, Running
  <2>2. work' = [w \in Work |-> work'[w]]
    <3>t. work \in [Work -> WorkStates]
      BY DEF TypeOK
    <3>1. ASSUME NEW w \in Work, WorkStep(w) PROVE work' = [v \in Work |-> work'[v]]
      BY <3>t, <3>1 DEF WorkStep, Take, AddVectorizeTask, CountUnsent, TaskCallback
    <3>2. ASSUME NEW d \in Dirs, DispatchDir(d) \/ DispatchFails(d)
          PROVE  work' = [v \in Work |-> work'[v]]
      BY <3>t, <3>2 DEF DispatchDir, DispatchFails
    <3>3. ASSUME NEW d \in Dirs, OverviewTask(d) \/ WriteDirectorySemantics(d)
          PROVE  work' = [v \in Work |-> work'[v]]
      BY <3>t, <3>3 DEF OverviewTask, WriteDirectorySemantics
    <3>4. ASSUME NEW d \in Dirs, OnChildDone(d) PROVE work' = [v \in Work |-> work'[v]]
      BY <3>t, <3>4 DEF OnChildDone, Tell
    <3>5. ASSUME NEW d \in Dirs, VectorizeAbstract(d) \/ VectorizeOverview(d)
          PROVE  work' = [v \in Work |-> work'[v]]
      BY <3>t, <3>5 DEF VectorizeAbstract, VectorizeOverview, Send
    <3>6. ASSUME NEW f \in Files, FileSummaryTask(f) PROVE work' = [v \in Work |-> work'[v]]
      BY <3>t, <3>6 DEF FileSummaryTask
    <3>7. ASSUME NEW f \in Files, OnFileDone(f) PROVE work' = [v \in Work |-> work'[v]]
      BY <3>t, <3>7 DEF OnFileDone, Tell
    <3>8. ASSUME NEW f \in Files, VectorizeFile(f) PROVE work' = [v \in Work |-> work'[v]]
      BY <3>t, <3>8 DEF VectorizeFile, Send
    <3>9. CASE Run
      BY <3>t, <3>9 DEF Run, Register, DispatchVectorizeTasks, Return
    <3>10. ASSUME NEW h \in Handlers, Handle(h) PROVE work' = work
      BY <3>10 DEF Handle, Dequeue, Embed, Requeue, Upsert, Settle, HandlerCallback
    <3>11. CASE Supersede \/ UNCHANGED vars
      BY <3>t, <3>11 DEF Supersede, vars
    <3> QED
      BY <3>t, <3>1, <3>2, <3>3, <3>4, <3>5, <3>6, <3>7, <3>8, <3>9, <3>10, <3>11
      DEF Next, Execute, DirStep, FileStep
  <2> QED
    BY <2>1, <2>2
<1> DEFINE Quiet == UNCHANGED <<changedFile, changedDir, fresh, reused>>
<1>2. ASSUME NEW f \in Files, FileSummaryTask(f)
      PROVE  /\ changedFile' \in [Files -> BOOLEAN] /\ fresh' \subseteq Files
             /\ UNCHANGED <<changedDir, reused>>
  <2>1. PICK b \in BOOLEAN : changedFile' = [changedFile EXCEPT ![f] = b]
    <3>1. PICK known \in BOOLEAN, diff \in IF conf.incremental THEN ContentChanged(f) ELSE {TRUE} :
            changedFile' = [changedFile EXCEPT ![f] = (diff \/ ~known)]
      BY <1>2 DEF FileSummaryTask
    <3>2. (diff \/ ~known) \in BOOLEAN
      OBVIOUS
    <3> QED
      BY <3>1, <3>2
  <2>2. changedFile' \in [Files -> BOOLEAN]
    BY <2>1 DEF TypeOK
  <2>3. fresh' \subseteq Files /\ UNCHANGED <<changedDir, reused>>
    BY <1>2 DEF FileSummaryTask, TypeOK
  <2> QED
    BY <2>2, <2>3
<1>3. ASSUME NEW d \in Dirs, OverviewTask(d)
      PROVE  /\ changedDir' \in [Dirs -> BOOLEAN] /\ reused' \subseteq Dirs
             /\ UNCHANGED <<changedFile, fresh>>
  <2>1. PICK diff \in IF conf.incremental THEN ChildrenChanged(d) ELSE {TRUE} :
          changedDir' = [changedDir EXCEPT ![d] = diff]
    BY <1>3 DEF OverviewTask
  <2>2. diff \in BOOLEAN
    <3>1. (HasDirectChange(d) \/ \E u \in node[d].listed : IF u \in Files THEN changedFile[u] ELSE changedDir[u]) \in BOOLEAN
      OBVIOUS
    <3>2. (\E u \in node[d].listed : IF u \in Files THEN changedFile[u] ELSE changedDir[u]) \in BOOLEAN
      OBVIOUS
    <3>3. \A b \in ChildrenChanged(d) : b \in BOOLEAN
      BY <3>1, <3>2, Zenon DEF ChildrenChanged
    <3> QED
      BY <3>3
  <2>3. changedDir' \in [Dirs -> BOOLEAN]
    BY <2>1, <2>2 DEF TypeOK
  <2>4. reused' \subseteq Dirs /\ UNCHANGED <<changedFile, fresh>>
    BY <1>3 DEF OverviewTask, TypeOK
  <2> QED
    BY <2>3, <2>4
<1>4. /\ changedFile' \in [Files -> BOOLEAN] /\ changedDir' \in [Dirs -> BOOLEAN]
      /\ fresh' \subseteq Files /\ reused' \subseteq Dirs
  <2>1. Quiet \/ (\E f \in Files : FileSummaryTask(f)) \/ (\E d \in Dirs : OverviewTask(d))
    BY Judges
  <2>2. CASE Quiet
    BY <2>2 DEF TypeOK
  <2> QED
    BY <2>1, <2>2, <1>2, <1>3 DEF TypeOK
<1>5. conf' \in Confs /\ lock' \in {"held", "closed"}
      /\ exec' \in {"graph", "count", "dispatch", "vectorizing", "returned", "refreshed"}
  <2> DEFINE Holds == conf' = conf /\ lock' \in {"held", "closed"} /\ exec' \in {exec, "count"}
  <2>0. /\ conf \in Confs /\ lock \in {"held", "closed"}
        /\ exec \in {"graph", "count", "dispatch", "vectorizing", "returned", "refreshed"}
    BY DEF TypeOK
  <2>1. ASSUME NEW w \in Work, WorkStep(w) PROVE Holds
    BY <2>0, <2>1 DEF WorkStep, Take, AddVectorizeTask, CountUnsent, TaskCallback
  <2>2. ASSUME NEW d \in Dirs, DirStep(d) PROVE Holds
    <3>1. CASE DispatchDir(d) \/ DispatchFails(d) \/ OnChildDone(d)
      BY <2>0, <3>1 DEF DispatchDir, DispatchFails, OnChildDone
    <3>2. CASE OverviewTask(d) \/ WriteDirectorySemantics(d)
      BY <2>0, <3>2 DEF OverviewTask, WriteDirectorySemantics
    <3>3. CASE VectorizeAbstract(d) \/ VectorizeOverview(d)
      BY <2>0, <3>3 DEF VectorizeAbstract, VectorizeOverview, Send
    <3> QED
      BY <2>2, <3>1, <3>2, <3>3, Zenon DEF DirStep
  <2>3. ASSUME NEW f \in Files, FileStep(f) PROVE Holds
    BY <2>0, <2>3 DEF FileStep, FileSummaryTask, OnFileDone, VectorizeFile, Send
  <2>4. ASSUME NEW h \in Handlers, Handle(h) PROVE Holds
    BY <2>0, <2>4 DEF Handle, Dequeue, Embed, Requeue, Upsert, Settle, HandlerCallback
  <2>5. ASSUME Supersede \/ UNCHANGED vars PROVE Holds
    BY <2>0, <2>5 DEF Supersede, vars
  <2>6. CASE Run
    BY <2>0, <2>6 DEF Run, Register, DispatchVectorizeTasks, Return, Returned
  <2>7. CASE Holds
    BY <2>0, <2>7
  <2> HIDE DEF Holds
  <2> QED
    BY <2>1, <2>2, <2>3, <2>4, <2>5, <2>6, <2>7 DEF Next, Execute
<1>6. tasks' \subseteq Dirs \cup Files
  <2>1. ASSUME NEW w \in Work, AddVectorizeTask(w) PROVE tasks' \subseteq Dirs \cup Files
    BY <2>1, WorkNames DEF AddVectorizeTask, Items, TypeOK
  <2> QED
    BY <2>1 DEF TypeOK, Next, Execute, Run, WorkStep, DirStep, FileStep, Handle, Supersede, vars,
      Take, CountUnsent, TaskCallback, DispatchDir, DispatchFails, OverviewTask,
      WriteDirectorySemantics, OnChildDone, VectorizeAbstract, VectorizeOverview, Send,
      FileSummaryTask, OnFileDone, VectorizeFile, Register, DispatchVectorizeTasks, Return,
      Dequeue, Embed, Requeue, Upsert, Settle, HandlerCallback
<1>7. stale' \in BOOLEAN /\ superseded' \in BOOLEAN /\ requeued' \in BOOLEAN
  <2>1. /\ UNCHANGED stale \/ stale' = (stale \/ superseded)
        /\ UNCHANGED superseded \/ superseded' = TRUE
        /\ UNCHANGED requeued \/ requeued' = TRUE
    BY DEF Next, Execute, Run, WorkStep, DirStep, FileStep, Handle, Supersede, vars, Take,
      AddVectorizeTask, CountUnsent, TaskCallback, DispatchDir, DispatchFails, OverviewTask,
      WriteDirectorySemantics, OnChildDone, VectorizeAbstract, VectorizeOverview, Send,
      FileSummaryTask, OnFileDone, VectorizeFile, Register, DispatchVectorizeTasks, Return,
      Dequeue, Embed, Requeue, Upsert, Settle, HandlerCallback
  <2> QED
    BY <2>1, Zenon DEF TypeOK
<1>8. tracker' \in Nat
  <2>1. TaskCount \in Nat
    <3>1. tasks \cap Files \in SUBSET Items /\ tasks \cap Dirs \in SUBSET Items
      BY DEF Items
    <3>2. Cardinality(tasks \cap Files) \in Nat /\ Cardinality(tasks \cap Dirs) \in Nat
      BY <3>1, TreeFacts, FS_Subset, FS_CardinalityType
    <3> QED
      BY <3>2 DEF TaskCount
  <2>2. UNCHANGED tracker \/ CountDown \/ tracker' = TaskCount
    BY DEF Next, Execute, Run, WorkStep, DirStep, FileStep, Handle, Supersede, vars, Take,
      AddVectorizeTask, CountUnsent, TaskCallback, DispatchDir, DispatchFails, OverviewTask,
      WriteDirectorySemantics, OnChildDone, VectorizeAbstract, VectorizeOverview, Send,
      FileSummaryTask, OnFileDone, VectorizeFile, Register, DispatchVectorizeTasks, Return,
      Dequeue, Embed, Requeue, Upsert, Settle, HandlerCallback
  <2> QED
    BY <2>1, <2>2 DEF CountDown, TypeOK
<1> DEFINE VectorTypes == /\ queue' \subseteq Msgs /\ settled' \subseteq Msgs
                          /\ handler' \in HandlerType /\ breaker' \in Breakers
                          /\ Laden'
<1>9. ASSUME NEW w, NEW m \in Msgs, NEW s, NEW t, Send(w, m, s, t) PROVE VectorTypes
  BY <1>9 DEF Send, TypeOK, Laden
<1>10. ASSUME NEW h \in Handlers, Handle(h) PROVE VectorTypes
  <2>h. /\ handler \in HandlerType /\ breaker \in Breakers
        /\ queue \subseteq Msgs /\ settled \subseteq Msgs
    BY DEF TypeOK
  <2>l. handler[h].pc # "idle" => handler[h].msg \in Msgs
    BY DEF Laden
  <2>t. ASSUME NEW r \in [pc : HandlerPCs, msg : Msgs \cup {NoMsg}], handler' = [handler EXCEPT ![h] = r],
               r.pc # "idle" => r.msg \in Msgs
        PROVE  handler' \in HandlerType /\ Laden'
    BY <2>t, <2>h DEF Laden
  <2>p. ASSUME NEW p \in HandlerPCs, handler' = [handler EXCEPT ![h].pc = p], handler[h].pc # "idle"
        PROVE  handler' \in HandlerType /\ Laden'
    <3> DEFINE r == [handler[h] EXCEPT !.pc = p]
    <3>1. r \in [pc : HandlerPCs, msg : Msgs \cup {NoMsg}] /\ r.msg = handler[h].msg
      BY <2>h
    <3>2. handler' = [handler EXCEPT ![h] = r]
      BY <2>p
    <3> HIDE DEF r
    <3> QED
      BY <3>1, <3>2, <2>l, <2>p, <2>t
  <2>i. ASSUME handler' = [handler EXCEPT ![h] = Idle] PROVE handler' \in HandlerType /\ Laden'
    <3>1. Idle \in [pc : HandlerPCs, msg : Msgs \cup {NoMsg}] /\ Idle.pc = "idle"
      BY DEF Idle, HandlerPCs
    <3> QED
      BY <3>1, <2>i, <2>t
  <2>1. ASSUME NEW m \in queue, Dequeue(h, m) PROVE VectorTypes
    <3>1. PICK c \in Check(breaker) :
            /\ breaker' = c.breaker
            /\ handler' = [handler EXCEPT ![h] = [pc |-> IF c.allowed THEN "embed" ELSE "sleep", msg |-> m]]
      BY <2>1 DEF Dequeue
    <3>2. breaker' \in Breakers
      BY <3>1, <2>h, BreakerTypes
    <3> DEFINE p == IF c.allowed THEN "embed" ELSE "sleep"
               r == [pc |-> p, msg |-> m]
    <3>3. p \in HandlerPCs
      BY DEF HandlerPCs
    <3>5. handler' = [handler EXCEPT ![h] = r]
      BY <3>1
    <3> HIDE DEF p
    <3>6. r \in [pc : HandlerPCs, msg : Msgs \cup {NoMsg}] /\ r.msg \in Msgs
      BY <3>3, <2>h
    <3> HIDE DEF r
    <3>4. handler' \in HandlerType /\ Laden'
      BY <3>5, <3>6, <2>t
    <3> QED
      BY <3>2, <3>4, <2>1, <2>h DEF Dequeue
  <2>2. ASSUME Embed(h) PROVE VectorTypes
    <3>1. PICK p \in {"upsert", "settle", "requeue"} : handler' = [handler EXCEPT ![h].pc = p]
      BY <2>2 DEF Embed
    <3>2. p \in HandlerPCs /\ handler[h].pc # "idle" /\ UNCHANGED queue
      BY <2>2 DEF Embed, HandlerPCs
    <3>3. breaker' \in Breakers
      BY <2>2, <2>h, BreakerTypes DEF Embed
    <3>4. settled' \subseteq Msgs
      BY <2>2, <2>h, <2>l DEF Embed
    <3> QED
      BY <3>1, <3>2, <3>3, <3>4, <2>h, <2>p
  <2>3. ASSUME Requeue(h) PROVE VectorTypes
    <3>1. /\ handler[h].pc # "idle" /\ handler' = [handler EXCEPT ![h].pc = "settle"]
          /\ "settle" \in HandlerPCs
      BY <2>3 DEF Requeue, HandlerPCs
    <3> QED
      BY <3>1, <2>3, <2>h, <2>l, <2>p DEF Requeue
  <2>4. ASSUME Upsert(h) PROVE VectorTypes
    <3>1. /\ handler[h].pc # "idle" /\ handler' = [handler EXCEPT ![h].pc = "settle"]
          /\ "settle" \in HandlerPCs
      BY <2>4 DEF Upsert, HandlerPCs
    <3> QED
      BY <3>1, <2>4, <2>h, <2>l, <2>p, BreakerTypes DEF Upsert, RecordSuccess
  <2>5. ASSUME Settle(h) PROVE VectorTypes
    <3>1. /\ handler[h].pc # "idle" /\ UNCHANGED <<queue, breaker, settled>>
          /\ \/ handler' = [handler EXCEPT ![h].pc = "call"]
             \/ handler' = [handler EXCEPT ![h] = Idle]
          /\ "call" \in HandlerPCs
      BY <2>5 DEF Settle, HandlerPCs
    <3> QED
      BY <3>1, <2>h, <2>p, <2>i
  <2>6. ASSUME HandlerCallback(h) PROVE VectorTypes
    BY <2>6, <2>h, <2>i DEF HandlerCallback
  <2> QED
    BY <1>10, <2>1, <2>2, <2>3, <2>4, <2>5, <2>6 DEF Handle
<1>11. VectorTypes
  <2>1. ASSUME NEW f \in Files, VectorizeFile(f) PROVE VectorTypes
    <3>1. [uri |-> f, level |-> "file"] \in Msgs
      BY DEF Msgs
    <3> QED
      BY <3>1, <2>1, <1>9 DEF VectorizeFile
  <2>2. ASSUME NEW d \in Dirs, VectorizeAbstract(d) \/ VectorizeOverview(d) PROVE VectorTypes
    <3>1. [uri |-> d, level |-> "abstract"] \in Msgs /\ [uri |-> d, level |-> "overview"] \in Msgs
      BY DEF Msgs
    <3> QED
      BY <3>1, <2>2, <1>9 DEF VectorizeAbstract, VectorizeOverview
  <2>3. ASSUME UNCHANGED <<queue, settled, handler, breaker>> PROVE VectorTypes
    BY <2>3 DEF TypeOK, Laden
  <2> QED
    BY <2>1, <2>2, <2>3, <1>10
    DEF Next, Execute, Run, WorkStep, DirStep, FileStep, Supersede, vars, Take,
      AddVectorizeTask, CountUnsent, TaskCallback, DispatchDir, DispatchFails, OverviewTask,
      WriteDirectorySemantics, OnChildDone,
      FileSummaryTask, OnFileDone, Register, DispatchVectorizeTasks, Return
<1> QED
  BY <1>0, <1>1, <1>4, <1>5, <1>6, <1>7, <1>8, <1>11, Zenon DEF TypeOK

(* The initial states satisfy the invariant of the walk.                    *)
LEMMA InitWalk == Init => WalkInv /\ Laden
<1> SUFFICES ASSUME Init PROVE WalkInv /\ Laden
  OBVIOUS
<1>1. \A w \in Work : work[w] = IF w = W("dir", Root) THEN "queued" ELSE "none"
  BY DEF Init
<1>2. \A d \in Dirs : WDir(d) = IF d = Root THEN "queued" ELSE "none"
  BY <1>1, WorkNames DEF WDir
<1>3. \A d \in Dirs : WOv(d) = "none"
  BY <1>1, WorkNames DEF WOv
<1>4. \A u \in Items : Visited(u) <=> u = Root
  BY <1>1, <1>2, VisitedIs, WorkNames, TreeFacts DEF Items
<1>5. \A d \in Dirs : node[d].listed = {} /\ heard[d] = {}
  BY DEF Init, NoNode
<1>p. \A d \in Dirs : node[d].pending = 0
  BY DEF Init, NoNode
<1>6. KindStates
  <2> SUFFICES ASSUME NEW w \in Work PROVE work[w] \in States(w)
    BY DEF KindStates
  <2>1. {"none", "queued"} \subseteq States(w)
    BY WorkNames DEF States
  <2> QED
    BY <2>1, <1>1
<1>7. Undispatched /\ Dispatched
  BY <1>2, <1>3, <1>5, <1>p DEF Undispatched, Dispatched
<1>8. HeardThrough /\ VisitedBy /\ Below
  BY <1>3, <1>4, <1>5 DEF HeardThrough, VisitedBy, Below
<1>9. Linked /\ RootFirst
  BY <1>3, <1>4, TreeFacts DEF Linked, RootFirst, Init, Items
<1>10. Laden
  BY DEF Laden, Init, Idle
<1> QED
  BY <1>6, <1>7, <1>8, <1>9, <1>10 DEF WalkInv

(* The invariant of the walk, with the types.                               *)
DagInv == TypeOK /\ WalkInv /\ Laden

(* The invariant of the walk holds throughout.                              *)
THEOREM WalkHolds == Spec => []DagInv
<1>1. Init => DagInv
  BY InitType, InitWalk DEF DagInv
<1>2. DagInv /\ [Next]_vars => DagInv'
  BY WalkStep, TypeStep DEF DagInv
<1> QED
  BY <1>1, <1>2, PTL DEF Spec

(* Every variable has its type, for all trees, parameters and numbers of    *)
(* workers and handlers: in particular pending never falls below zero.      *)
THEOREM TypeCorrect == Spec => []TypeOK
<1>1. DagInv => TypeOK
  BY DEF DagInv
<1> QED
  BY <1>1, WalkHolds, PTL

(* No overview is generated from a part of its children: _on_file_done and  *)
(* _on_child_done schedule it with the last of them, in every order in      *)
(* which the workers get through the tree.                                  *)
THEOREM OverviewComplete == Spec => []OverviewSeesChildren
<1>1. DagInv => OverviewSeesChildren
  <2> SUFFICES ASSUME DagInv, NEW d \in Dirs, work[W("overview", d)] # "none",
                      NEW u \in Pending(node[d].listed)
               PROVE  u \in heard[d] /\ Through(u)
    BY DEF OverviewSeesChildren
  <2>1. WDir(d) = "over"
    BY DEF DagInv, WalkInv, Undispatched, WOv
  <2>2. Missing(d) = {}
    BY <2>1 DEF DagInv, WalkInv, Dispatched, WOv
  <2> QED
    BY <2>2 DEF Missing, DagInv, WalkInv, HeardThrough
<1> QED
  BY <1>1, WalkHolds, PTL
-----------------------------------------------------------------------------
(* What is reused.                                                          *)
Unread == {"none", "queued", "run"}

(* A directory counts as changed until its overview task has judged it; it  *)
(* judges it unchanged only when nothing at or below it has changed.        *)
Unjudged == \A d \in Dirs : WOv(d) \in Unread => changedDir[d] = TRUE
FreshChanged ==
  \A f \in fresh : changedFile[f] = TRUE /\ work[W("file", f)] \notin Unread
ReusedUnchanged == \A d \in reused : changedDir[d] = FALSE
Judged ==
  \A d \in Dirs : changedDir[d] = FALSE =>
    ~HasDirectChange(d) /\ \A f \in fresh : d \notin Ancestors[f]
ChangeInv == Unjudged /\ FreshChanged /\ ReusedUnchanged /\ Judged

(* A summary or an overview is made once: no step goes back to it.          *)
LEMMA JudgedOnce ==
  ASSUME DagInv, [Next]_vars, NEW w \in Work, w.kind \in {"file", "overview"},
         work[w] \notin Unread
  PROVE  work'[w] \notin Unread
<1> USE DEF DagInv, Unread
<1>o. ASSUME NEW v \in Work, NEW s, work' = [work EXCEPT ![v] = s],
             v.kind = "vectorize" \/ s \notin Unread \/ work[v] = "queued"
      PROVE  work'[w] \notin Unread
  BY <1>o DEF TypeOK
<1>1. ASSUME NEW v \in Work, Take(v) PROVE work'[w] \notin Unread
  BY <1>1, <1>o DEF Take
<1>2. ASSUME NEW v \in Work, AddVectorizeTask(v) PROVE work'[w] \notin Unread
  BY <1>2, <1>o DEF AddVectorizeTask
<1>3. ASSUME NEW v \in Work, CountUnsent(v) \/ TaskCallback(v) PROVE work'[w] \notin Unread
  BY <1>3, <1>o DEF CountUnsent, TaskCallback
<1>5. ASSUME NEW d \in Dirs, DispatchDir(d) PROVE work'[w] \notin Unread
  <2>1. PICK L \in {Children(d), {}} : \A v \in Work : work'[v] =
          CASE v = W("dir", d) -> "over"
            [] v = W("overview", d) /\ Pending(L) = {} -> "queued"
            [] v.uri \in Pending(L) /\ v = W(Kind(v.uri), v.uri) -> "queued"
            [] OTHER -> work[v]
    BY <1>5 DEF DispatchDir
  <2>2. WDir(d) = "run"
    BY <1>5 DEF DispatchDir, WDir
  <2>3. WOv(d) = "none"
    BY <2>2 DEF WalkInv, Undispatched
  <2>4. \A u \in Pending(L) : u \in Items /\ ~Visited(u)
    BY <2>2, PendingSubset, TreeFacts DEF WalkInv, VisitedBy
  <2>5. w # W("overview", d) /\ w # W("dir", d)
    BY <2>3, WorkNames DEF WOv
  <2>6. ~(w.uri \in Pending(L) /\ w = W(Kind(w.uri), w.uri))
    BY <2>4 DEF Visited, WItem
  <2> QED
    BY <2>1, <2>5, <2>6
<1>f. ASSUME NEW d \in Dirs, DispatchFails(d) PROVE work'[w] \notin Unread
  BY <1>f DEF DispatchFails, TypeOK
<1>6. ASSUME NEW d \in Dirs, OverviewTask(d) \/ WriteDirectorySemantics(d)
      PROVE  work'[w] \notin Unread
  <2>1. W("overview", d) \in Work
    BY WorkNames
  <2> QED
    BY <2>1, <1>6, <1>o DEF OverviewTask, WriteDirectorySemantics
<1>t. ASSUME NEW u \in Items, u # Root, work[Last(u)] = "tell", NEW ns,
             Tell(Parent[u], u, [work EXCEPT ![Last(u)] = "over"], ns)
      PROVE  work'[w] \notin Unread
  <2> DEFINE ws == [work EXCEPT ![Last(u)] = "over"]
             o == W("overview", Parent[u])
  <2>1. WOv(Parent[u]) = "none" /\ Parent[u] \in Dirs
    BY <1>t, Teller
  <2>2. o \in Work /\ w # o
    BY <2>1, WorkNames DEF WOv
  <2>3. work' \in {ws, [ws EXCEPT ![o] = "queued"]}
    BY <1>t DEF Tell
  <2>4. ws \in [Work -> WorkStates] /\ ws[w] \notin Unread
    <3>1. "over" \in WorkStates
      BY DEF WorkStates
    <3>2. work \in [Work -> WorkStates]
      BY DEF TypeOK
    <3>3. "over" \notin Unread
      BY DEF Unread
    <3> QED
      BY <3>1, <3>2, <3>3
  <2> HIDE DEF ws, o
  <2> QED
    BY <2>2, <2>3, <2>4
<1>8. ASSUME NEW d \in Dirs, OnChildDone(d) PROVE work'[w] \notin Unread
  <2>1. W("overview", d) \in Work
    BY WorkNames
  <2>2. CASE d = Root
    BY <2>1, <2>2, <1>8, <1>o DEF OnChildDone
  <2>3. CASE d # Root
    <3>1. d \in Items /\ Last(d) = W("overview", d)
      BY TreeFacts DEF Items, Last
    <3> DEFINE ns == [node EXCEPT ![d].on = FALSE]
    <3>2. /\ Tell(Parent[d], d, [work EXCEPT ![Last(d)] = "over"], ns)
          /\ work[Last(d)] = "tell"
      BY <2>3, <3>1, <1>8 DEF OnChildDone
    <3> HIDE DEF ns
    <3> QED
      BY <2>3, <3>1, <3>2, <1>t
  <2> QED
    BY <2>2, <2>3
<1>9. ASSUME NEW f \in Files, FileSummaryTask(f) PROVE work'[w] \notin Unread
  <2>1. W("file", f) \in Work
    BY WorkNames
  <2> QED
    BY <2>1, <1>9, <1>o DEF FileSummaryTask
<1>10. ASSUME NEW f \in Files, OnFileDone(f) PROVE work'[w] \notin Unread
  <2>1. f \in Items /\ f # Root /\ Last(f) = W("file", f)
    BY TreeFacts DEF Items, Last
  <2> QED
    BY <2>1, <1>10, <1>t DEF OnFileDone
<1>11. ASSUME NEW u \in Items, NEW m, NEW s, NEW t, Send(W("vectorize", u), m, s, t)
       PROVE  work'[w] \notin Unread
  <2>1. W("vectorize", u) \in Work /\ W("vectorize", u).kind = "vectorize"
    BY WorkNames
  <2> QED
    BY <2>1, <1>11, <1>o DEF Send
<1>12. ASSUME (\E f \in Files : VectorizeFile(f))
              \/ \E d \in Dirs : VectorizeAbstract(d) \/ VectorizeOverview(d)
       PROVE  work'[w] \notin Unread
  BY <1>11, <1>12 DEF VectorizeFile, VectorizeAbstract, VectorizeOverview, Items
<1>14. CASE DispatchVectorizeTasks
  BY <1>14 DEF DispatchVectorizeTasks
<1>15. CASE UNCHANGED work
  BY <1>15
<1> QED
  BY <1>1, <1>2, <1>3, <1>5, <1>f, <1>6, <1>8, <1>9, <1>10, <1>12, <1>14, <1>15
     DEF Next, Execute, Run, WorkStep, DirStep, FileStep, Register, Return, Supersede, vars,
         Handle, Dequeue, Embed, Requeue, Upsert, Settle, HandlerCallback

(* Every step keeps the record of what changed.                             *)
LEMMA ChangeStep ==
  ASSUME DagInv, ChangeInv, [Next]_vars
  PROVE  ChangeInv'
<1>0. TypeOK /\ WalkInv /\ conf' = conf
  BY DEF DagInv, Next, Execute, Run, WorkStep, DirStep, FileStep, Handle, Supersede, vars, Take,
      AddVectorizeTask, CountUnsent, TaskCallback, DispatchDir, DispatchFails, OverviewTask,
      WriteDirectorySemantics, OnChildDone, VectorizeAbstract, VectorizeOverview, Send,
      FileSummaryTask, OnFileDone, VectorizeFile, Register, DispatchVectorizeTasks, Return,
      Dequeue, Embed, Requeue, Upsert, Settle, HandlerCallback
<1>1. \A d \in Dirs : WOv(d) \notin Unread => WOv(d)' \notin Unread
  BY JudgedOnce, WorkNames DEF WOv
<1>2. \A f \in Files : work[W("file", f)] \notin Unread => work'[W("file", f)] \notin Unread
  BY JudgedOnce, WorkNames
<1>3. \A d : HasDirectChange(d)' <=> HasDirectChange(d)
  BY <1>0 DEF HasDirectChange
<1> DEFINE Quiet == UNCHANGED <<changedFile, changedDir, fresh, reused>>
<1>4. CASE Quiet
  <2>1. Unjudged'
    BY <1>1, <1>4 DEF ChangeInv, Unjudged
  <2>2. FreshChanged'
    BY <1>0, <1>2, <1>4 DEF ChangeInv, FreshChanged, TypeOK
  <2>3. ReusedUnchanged'
    BY <1>4 DEF ChangeInv, ReusedUnchanged
  <2>4. Judged'
    BY <1>3, <1>4 DEF ChangeInv, Judged
  <2> QED
    BY <2>1, <2>2, <2>3, <2>4 DEF ChangeInv
<1>5. ASSUME NEW f \in Files, FileSummaryTask(f) PROVE ChangeInv'
  <2>1. PICK new \in BOOLEAN :
          /\ changedFile' = [changedFile EXCEPT ![f] = new]
          /\ fresh' = IF new THEN fresh \cup {f} ELSE fresh
    <3>1. PICK known \in BOOLEAN, diff \in IF conf.incremental THEN ContentChanged(f) ELSE {TRUE} :
          /\ changedFile' = [changedFile EXCEPT ![f] = (diff \/ ~known)]
          /\ fresh' = IF (diff \/ ~known) THEN fresh \cup {f} ELSE fresh
      BY <1>5 DEF FileSummaryTask
    <3>2. (diff \/ ~known) \in BOOLEAN
      OBVIOUS
    <3> QED
      BY <3>1, <3>2
  <2>2. /\ work[W("file", f)] = "run" /\ UNCHANGED <<changedDir, reused>>
        /\ work' = [work EXCEPT ![W("file", f)] = work'[W("file", f)]]
        /\ work'[W("file", f)] \in {"add", "tell"}
    <3>1. PICK s \in {"add", "tell"} : work' = [work EXCEPT ![W("file", f)] = s]
      BY <1>5 DEF FileSummaryTask
    <3>2. W("file", f) \in Work
      BY WorkNames
    <3>3. work \in [Work -> WorkStates]
      BY <1>0 DEF TypeOK
    <3>4. work'[W("file", f)] = s
      BY <3>1, <3>2, <3>3
    <3>5. work[W("file", f)] = "run" /\ UNCHANGED <<changedDir, reused>>
      BY <1>5 DEF FileSummaryTask
    <3> QED
      BY <3>1, <3>4, <3>5
  <2>3. \A d \in Dirs : WOv(d)' = WOv(d)
    BY <2>2, WorkNames, <1>0 DEF WOv, TypeOK
  <2>4. Unjudged' /\ ReusedUnchanged'
    BY <2>2, <2>3 DEF ChangeInv, Unjudged, ReusedUnchanged
  <2>5. f \notin fresh
    BY <2>2 DEF ChangeInv, FreshChanged, Unread
  <2>6. FreshChanged'
    <3> SUFFICES ASSUME NEW g \in fresh'
                 PROVE  changedFile'[g] = TRUE /\ work'[W("file", g)] \notin Unread
      BY DEF FreshChanged
    <3>1. CASE g = f
      BY <3>1, <2>1, <2>2, <2>5, <1>0 DEF Unread, TypeOK
    <3>2. CASE g # f
      BY <3>2, <2>1, <1>0, <1>2 DEF ChangeInv, FreshChanged, TypeOK
    <3> QED
      BY <3>1, <3>2
  <2>7. Judged'
    <3> SUFFICES ASSUME NEW d \in Dirs, changedDir[d] = FALSE
                 PROVE  ~HasDirectChange(d) /\ \A g \in fresh' : d \notin Ancestors[g]
      BY <2>2, <1>3 DEF Judged
    <3>1. ~HasDirectChange(d) /\ \A g \in fresh : d \notin Ancestors[g]
      BY DEF ChangeInv, Judged
    <3>2. WOv(d) \notin Unread
      BY DEF ChangeInv, Unjudged
    <3>3. Visited(f) /\ ~Through(f) /\ f \in Items
      BY <2>2, VisitedIs, ThroughIs DEF Items
    <3>4. d \notin Ancestors[f]
      BY <3>2, <3>3, <1>0 DEF WalkInv, Below, Unread
    <3> QED
      BY <3>1, <3>4, <2>1
  <2> QED
    BY <2>4, <2>6, <2>7 DEF ChangeInv
<1>6. ASSUME NEW d \in Dirs, OverviewTask(d) PROVE ChangeInv'
  <2> DEFINE told == \E u \in node[d].listed : IF u \in Files THEN changedFile[u] ELSE changedDir[u]
  <2>1. PICK diff \in IF conf.incremental THEN ChildrenChanged(d) ELSE {TRUE},
             readable \in BOOLEAN :
          /\ changedDir' = [changedDir EXCEPT ![d] = diff]
          /\ reused' = IF ~diff /\ readable THEN reused \cup {d} ELSE reused
    BY <1>6 DEF OverviewTask
  <2>2. /\ WOv(d) = "run" /\ UNCHANGED <<changedFile, fresh, node>>
        /\ \A w \in Work : w # W("overview", d) => work'[w] = work[w]
    BY <1>6, <1>0 DEF OverviewTask, WOv, TypeOK
  <2>3. WOv(d)' \notin Unread
    BY <1>6, <1>0, WorkNames DEF OverviewTask, WOv, Unread, TypeOK
  <2>4. diff \in BOOLEAN
    <3>1. (HasDirectChange(d) \/ told) \in BOOLEAN /\ told \in BOOLEAN
      OBVIOUS
    <3>2. \A b \in ChildrenChanged(d) : b \in BOOLEAN
      BY <3>1, Zenon DEF ChildrenChanged
    <3> QED
      BY <2>1, <3>2
  <2>5. ASSUME diff = FALSE
        PROVE  ~HasDirectChange(d) /\ ~told
    <3>1. FALSE \in ChildrenChanged(d)
      BY <2>1, <2>5
    <3>2. CASE conf.changed # {}
      BY <3>1, <3>2 DEF ChildrenChanged
    <3>3. CASE conf.changed = {}
      <4>1. ~HasDirectChange(d)
        BY <3>3 DEF HasDirectChange
      <4> QED
        BY <4>1, <3>1, <3>3 DEF ChildrenChanged
    <3> QED
      BY <3>2, <3>3
  <2>6. \A e \in Dirs : changedDir'[e] = IF e = d THEN diff ELSE changedDir[e]
    BY <2>1, <1>0 DEF TypeOK
  <2>7. Unjudged'
    BY <2>3, <2>6, <1>1 DEF ChangeInv, Unjudged
  <2>8. FreshChanged'
    BY <2>2, <1>2, <1>0 DEF ChangeInv, FreshChanged, TypeOK
  <2>9. d \notin reused
    BY <2>2 DEF ChangeInv, ReusedUnchanged, Unjudged, Unread
  <2>10. ReusedUnchanged'
    BY <2>1, <2>4, <2>6, <2>9, <1>0 DEF ChangeInv, ReusedUnchanged, TypeOK
  <2>11. Judged'
    <3> SUFFICES ASSUME NEW e \in Dirs, changedDir'[e] = FALSE
                 PROVE  ~HasDirectChange(e) /\ \A f \in fresh : e \notin Ancestors[f]
      BY <2>2, <1>3 DEF Judged
    <3>1. CASE e # d
      BY <3>1, <2>6 DEF ChangeInv, Judged
    <3>2. CASE e = d
      <4>1. ~HasDirectChange(d) /\ ~told
        BY <3>2, <2>5, <2>6
      <4>2. ASSUME NEW f \in fresh, d \in Ancestors[f] PROVE FALSE
        <5>1. f \in Items /\ f \in Files /\ Visited(f) /\ changedFile[f] = TRUE
          BY <1>0, VisitedIs DEF ChangeInv, FreshChanged, Unread, TypeOK, Items
        <5>2. PICK v \in {f} \cup Ancestors[f] : v # Root /\ Parent[v] = d
          BY <4>2, <5>1, <1>0 DEF WalkInv, Linked
        <5>3. v \in Items /\ Visited(v) /\ (v # f => v \in Dirs)
          BY <5>1, <5>2, <1>0, TreeFacts, VisitedIs DEF WalkInv, Linked, Items
        <5>4. v \in Pending(node[d].listed)
          BY <5>2, <5>3, <1>0 DEF WalkInv, VisitedBy
        <5>5. v \in node[d].listed
          BY <5>4, PendingSubset
        <5>6. v # f
          BY <5>1, <5>5, <4>1
        <5>7. v \in Dirs /\ v \notin Files /\ v \in Ancestors[f]
          BY <5>2, <5>3, <5>6, TreeFacts
        <5>8. changedDir[v] = FALSE
          BY <5>5, <5>7, <4>1, <1>0 DEF TypeOK
        <5> QED
          BY <5>7, <5>8 DEF ChangeInv, Judged
      <4> QED
        BY <4>1, <4>2, <3>2
    <3> QED
      BY <3>1, <3>2
  <2> QED
    BY <2>7, <2>8, <2>10, <2>11 DEF ChangeInv
<1>7. Quiet \/ (\E f \in Files : FileSummaryTask(f)) \/ (\E d \in Dirs : OverviewTask(d))
  BY Judges
<1> QED
  BY <1>4, <1>5, <1>6, <1>7

(* An incremental execution reuses the overview of a directory only when    *)
(* the caller changed nothing at or below it and no file below it got a new *)
(* summary, however deep the tree: the change statuses carry every change   *)
(* up before the directory is judged.                                       *)
THEOREM ReuseIsSound == Spec => []NoStaleReuse
<1>1. Init => ChangeInv
  <2> SUFFICES ASSUME Init PROVE ChangeInv
    OBVIOUS
  <2>1. fresh = {} /\ reused = {} /\ \A d \in Dirs : changedDir[d] = TRUE
    BY DEF Init
  <2> QED
    BY <2>1 DEF ChangeInv, Unjudged, FreshChanged, ReusedUnchanged, Judged
<1>2. DagInv /\ ChangeInv /\ [Next]_vars => ChangeInv'
  BY ChangeStep
<1>3. DagInv /\ ChangeInv => NoStaleReuse
  BY DEF DagInv, TypeOK, ChangeInv, ReusedUnchanged, Judged, NoStaleReuse
<1> QED
  BY <1>1, <1>2, <1>3, WalkHolds, PTL DEF Spec
-----------------------------------------------------------------------------
(* What the tracker counts.                                                 *)

(* The vectors that a vectorize task has neither enqueued nor counted down: *)
(* a task in state s has one to go, a directory's has two.                  *)
OwesOne(s) == s \notin {"over", "call"}
OwesTwo(s) == s \in {"none", "queued", "L0", "L1owe", "owe2"}
Ones == {u \in tasks : OwesOne(WVec(u))}
Twos == {u \in tasks : u \in Dirs /\ OwesTwo(WVec(u))}

(* The handlers that have yet to count their message down.                  *)
Busy == {"embed", "sleep", "upsert", "requeue", "settle"}
Hands == {h \in Handlers : handler[h].pc \in Busy}
Owed == Cardinality(Ones) + Cardinality(Twos) + Cardinality(queue) + Cardinality(Hands)

(* The vector of a level is enqueued or given up in the steps before these. *)
Before(level) ==
  CASE level = "file" -> {"none", "queued", "run"}
    [] level = "abstract" -> {"none", "queued", "L0"}
    [] OTHER -> {"none", "queued", "L0", "L1", "L1owe"}
Unsent(m) == WVec(m.uri) \in Before(m.level)

(* Until run() has registered the count nothing is indexed.                 *)
Early == exec \in {"graph", "count"}
NothingYet ==
  Early => /\ tracker = 0 /\ lock = "held" /\ queue = {}
           /\ \A h \in Handlers : handler[h].pc = "idle"
Unstarted == exec \in {"graph", "count", "dispatch"} => \A u \in Items : WVec(u) = "none"
OnlyTasks == \A u \in Items : WVec(u) # "none" => u \in tasks
Finite == IsFiniteSet(queue) /\ IsFiniteSet(Hands)

(* As long as no message was enqueued again, every vector is accounted for: *)
(* the tracker counts those that will be counted down, and is at zero when  *)
(* a callback runs.                                                         *)
SentOnce == \A m \in queue : ~Unsent(m)
SettledFirst == \A h \in Handlers : handler[h].pc = "settle" => handler[h].msg \in settled
Accounted ==
  \A m \in Expected : Unsent(m) \/ m \in queue \/ m \in settled
                      \/ \E h \in Hands : handler[h].msg = m
Counted == ~Early => tracker = Owed
Calling == \/ lock = "closed"
           \/ \E u \in Items : WVec(u) \in {"call", "call1"}
           \/ \E h \in Handlers : handler[h].pc = "call"
AtEnd == Calling => tracker = 0
Ledger == SentOnce /\ SettledFirst /\ Accounted /\ Counted /\ AtEnd

TrackInv ==
  NothingYet /\ Unstarted /\ OnlyTasks /\ Finite /\ (requeued = FALSE => Ledger)

(* The messages by name.                                                    *)
LEMMA MsgNames ==
  /\ \A m \in Msgs : \/ m.uri \in Files /\ m.level = "file"
                     \/ m.uri \in Dirs /\ m.level \in {"abstract", "overview"}
  /\ \A m, n \in Msgs : m.uri = n.uri /\ m.level = n.level => m = n
  /\ \A m \in Msgs : m.uri \in Items
BY DEF Msgs, Items

(* What is expected: the vectors of the tasks.                              *)
LEMMA ExpectedIs == \A m : m \in Expected <=> m \in Msgs /\ m.uri \in tasks
BY DEF Expected, Vectors

(* What is owed can be counted.                                             *)
LEMMA OwedFinite ==
  ASSUME TypeOK, Finite
  PROVE  /\ IsFiniteSet(Ones) /\ IsFiniteSet(Twos)
         /\ Cardinality(Ones) \in Nat /\ Cardinality(Twos) \in Nat
         /\ Cardinality(queue) \in Nat /\ Cardinality(Hands) \in Nat
<1>1. Ones \in SUBSET Items /\ Twos \in SUBSET Items
  BY DEF Ones, Twos, TypeOK, Items
<1>2. IsFiniteSet(Ones) /\ IsFiniteSet(Twos)
  BY <1>1, TreeFacts, FS_Subset
<1> QED
  BY <1>2, FS_CardinalityType DEF Finite

(* With the tracker at zero nothing is under way.                           *)
LEMMA NothingOwed ==
  ASSUME TypeOK, Finite, Owed = 0
  PROVE  Ones = {} /\ Twos = {} /\ queue = {} /\ Hands = {}
BY OwedFinite, FS_EmptySet DEF Finite, Owed

(* A step that changes neither what is owed nor what is sent.               *)
LEMMA QuietTracked ==
  ASSUME TypeOK, TrackInv,
         UNCHANGED <<tasks, tracker, queue, handler, settled, requeued>>,
         \A u \in Items : OwesOne(WVec(u)') <=> OwesOne(WVec(u)),
         \A u \in Dirs : OwesTwo(WVec(u)') <=> OwesTwo(WVec(u)),
         \A m \in Msgs : Unsent(m)' <=> Unsent(m),
         NothingYet', Unstarted', OnlyTasks', Early' <=> Early, Calling' => Calling
  PROVE  TrackInv'
<1>1. Ones' = Ones /\ Twos' = Twos /\ Hands' = Hands /\ Expected' = Expected
  BY DEF TypeOK, Items, Ones, Twos, Hands, Expected, Vectors
<1>2. Finite'
  BY <1>1 DEF TrackInv, Finite
<1>3. ASSUME Ledger PROVE Ledger'
  <2>1. SettledFirst'
    BY <1>3 DEF Ledger, SettledFirst
  <2>2. Counted'
    BY <1>1, <1>3 DEF Ledger, Counted, Owed
  <2>3. AtEnd'
    BY <1>3 DEF Ledger, AtEnd
  <2>4. Accounted'
    BY <1>1, <1>3, ExpectedIs DEF Ledger, Accounted
  <2>5. SentOnce'
    BY <1>3 DEF Ledger, SentOnce, TypeOK
  <2> QED
    BY <2>1, <2>2, <2>3, <2>4, <2>5 DEF Ledger
<1> QED
  BY <1>2, <1>3 DEF TrackInv

(* A step of the executor that is not about vectors.                        *)
LEMMA WalkTracked ==
  ASSUME TypeOK, TrackInv,
         UNCHANGED <<tasks, tracker, lock, queue, handler, settled, requeued>>,
         \A u \in Items : WVec(u)' = WVec(u),
         \/ exec' = exec
         \/ exec = "graph" /\ exec' = "count"
         \/ exec = "vectorizing" /\ exec' \in {"returned", "refreshed"}
  PROVE  TrackInv'
<1>1. \A m \in Msgs : Unsent(m)' <=> Unsent(m)
  BY MsgNames DEF Unsent
<1>2. Early' <=> Early
  BY DEF Early
<1>3. NothingYet' /\ OnlyTasks'
  BY <1>2 DEF TrackInv, NothingYet, OnlyTasks
<1>4. Unstarted' /\ (Calling' => Calling)
  BY DEF TrackInv, Unstarted, Calling
<1> QED
  BY <1>1, <1>2, <1>3, <1>4, QuietTracked DEF Items

(* _add_vectorize_task runs only while the graph does, when nothing of the  *)
(* tasks is counted yet.                                                    *)
LEMMA AddTracked ==
  ASSUME TypeOK, WalkInv, TrackInv, NEW w \in Work, AddVectorizeTask(w)
  PROVE  TrackInv'
<1> DEFINE u == w.uri
<1>1. u \in Items /\ Last(u) = w /\ work[w] = "add"
  BY WorkNames, TreeFacts DEF AddVectorizeTask, Last, Items
<1> HIDE DEF u
<1>2. ~Through(u)
  BY <1>1 DEF Through, Last
<1>3. Visited(u)
  <2>1. CASE u \in Files
    BY <2>1, <1>1, VisitedIs DEF Last
  <2>2. CASE u \in Dirs
    <3>1. WOv(u) = "add"
      BY <2>2, <1>1, TreeFacts DEF Last, WOv
    <3>2. WDir(u) = "over"
      BY <2>2, <3>1 DEF WalkInv, Undispatched
    <3> QED
      BY <2>2, <3>2, VisitedIs
  <2> QED
    BY <2>1, <2>2, <1>1 DEF Items
<1>4. exec = "graph"
  <2>1. SUFFICES ASSUME exec # "graph" PROVE FALSE
    OBVIOUS
  <2>2. WOv(Root) = "over" /\ Root \in Dirs
    BY <2>1, TreeFacts DEF WalkInv, RootFirst
  <2>3. u # Root
    BY <2>2, <1>2, ThroughIs
  <2>4. Root \in Ancestors[u]
    BY <2>3, <1>1, <1>3 DEF WalkInv, Linked
  <2> QED
    BY <2>2, <2>4, <1>1, <1>2, <1>3 DEF WalkInv, Below
<1>5. /\ UNCHANGED <<exec, tracker, lock, queue, handler, settled, requeued>>
      /\ tasks \subseteq tasks'
  BY DEF AddVectorizeTask
<1>6. \A v \in Items : WVec(v)' = WVec(v)
  BY WorkNames DEF AddVectorizeTask, WVec, TypeOK
<1>7. Hands' = Hands /\ Early /\ Early'
  BY <1>4, <1>5 DEF Hands, Early
<1>8. \A v \in Items : WVec(v) = "none"
  BY <1>4 DEF TrackInv, Unstarted
<1>9. NothingYet' /\ Unstarted' /\ OnlyTasks' /\ Finite'
  BY <1>5, <1>6, <1>7, <1>8 DEF TrackInv, NothingYet, Unstarted, OnlyTasks, Finite, Early
<1>10. ASSUME Ledger PROVE Ledger'
  <2>1. SettledFirst'
    BY <1>5, <1>10 DEF Ledger, SettledFirst
  <2>2. Counted'
    BY <1>7 DEF Counted
  <2>3. AtEnd'
    BY <1>5, <1>6, <1>10 DEF Ledger, AtEnd, Calling
  <2>4. \A m \in Msgs : Unsent(m)'
    BY <1>6, <1>8, MsgNames DEF Unsent, Before
  <2>5. Accounted'
    BY <2>4, ExpectedIs DEF Accounted, Expected, Vectors
  <2>6. queue = {}
    BY <1>7 DEF TrackInv, NothingYet
  <2>7. SentOnce'
    BY <2>6, <1>5 DEF SentOnce
  <2> QED
    BY <2>1, <2>2, <2>3, <2>5, <2>7 DEF Ledger
<1> QED
  BY <1>5, <1>9, <1>10 DEF TrackInv

(* register: run() counts one vector for every file task and two for every  *)
(* directory task, which is what the tasks owe.                             *)
LEMMA RegisterTracked ==
  ASSUME TypeOK, TrackInv, Register
  PROVE  TrackInv'
<1>1. /\ exec = "count" /\ UNCHANGED <<work, tasks, queue, handler, settled, requeued>>
      /\ exec' \in {"dispatch", "returned", "refreshed"}
      /\ tracker' = tracker \/ tracker' = TaskCount
  BY DEF Register, Returned
<1>2. \A u \in Items : WVec(u) = "none" /\ WVec(u)' = "none"
  BY <1>1 DEF TrackInv, Unstarted, WVec
<1>3. /\ tracker = 0 /\ lock = "held" /\ queue = {}
      /\ \A h \in Handlers : handler[h].pc = "idle"
  BY <1>1 DEF TrackInv, NothingYet, Early
<1>4. Ones' = tasks /\ Twos' = tasks \cap Dirs
  BY <1>1, <1>2 DEF Ones, Twos, OwesOne, OwesTwo, TypeOK, Items
<1>5. Hands = {} /\ Hands' = {}
  BY <1>1, <1>3 DEF Hands, Busy
<1>6. /\ IsFiniteSet(tasks \cap Files) /\ IsFiniteSet(tasks \cap Dirs)
      /\ Cardinality(tasks \cap Files) \in Nat /\ Cardinality(tasks \cap Dirs) \in Nat
      /\ Cardinality(tasks) = Cardinality(tasks \cap Files) + Cardinality(tasks \cap Dirs)
  <2> DEFINE F == tasks \cap Files
             D == tasks \cap Dirs
  <2>1. F \in SUBSET Items /\ D \in SUBSET Items /\ tasks = F \cup D /\ F \cap D = {}
    BY TreeFacts DEF TypeOK, Items
  <2>2. IsFiniteSet(F) /\ IsFiniteSet(D)
    BY <2>1, TreeFacts, FS_Subset
  <2>3. Cardinality(F) \in Nat /\ Cardinality(D) \in Nat
    BY <2>2, FS_CardinalityType
  <2>4. Cardinality(F \cup D) = Cardinality(F) + Cardinality(D) - Cardinality(F \cap D)
    BY <2>2, FS_Union
  <2>5. Cardinality(F \cap D) = 0
    BY <2>1, FS_EmptySet
  <2> HIDE DEF F, D
  <2>6. Cardinality(tasks) = Cardinality(F) + Cardinality(D)
    BY <2>1, <2>3, <2>4, <2>5
  <2> QED
    BY <2>2, <2>3, <2>6 DEF F, D
<1>7. Owed' = TaskCount
  <2>1. Cardinality(queue') = 0 /\ Cardinality(Hands') = 0
    BY <1>1, <1>3, <1>5, FS_EmptySet
  <2>2. Owed' = Cardinality(tasks) + Cardinality(tasks \cap Dirs) + 0 + 0
    BY <2>1, <1>4 DEF Owed
  <2> QED
    BY <2>2, <1>6 DEF TaskCount
<1>8. tracker' = TaskCount /\ (lock' = "closed" => tracker' = 0)
  <2>1. TaskCount \in Nat
    BY <1>6 DEF TaskCount
  <2> QED
    BY <2>1, <1>3 DEF Register
<1>9. NothingYet' /\ Unstarted' /\ OnlyTasks' /\ Finite'
  BY <1>1, <1>2, <1>3, <1>5, FS_EmptySet DEF NothingYet, Early, Unstarted, OnlyTasks, Finite
<1>10. Ledger'
  <2>1. SettledFirst'
    BY <1>1, <1>3 DEF SettledFirst
  <2>2. Counted'
    BY <1>7, <1>8 DEF Counted
  <2>3. AtEnd'
    BY <1>1, <1>2, <1>3, <1>8 DEF AtEnd, Calling
  <2>4. \A m \in Msgs : Unsent(m)'
    BY <1>2, MsgNames DEF Unsent, Before
  <2>5. Accounted'
    BY <2>4 DEF Accounted, Expected, Vectors
  <2>6. SentOnce'
    BY <1>1, <1>3 DEF SentOnce
  <2> QED
    BY <2>1, <2>2, <2>3, <2>5, <2>6 DEF Ledger
<1> QED
  BY <1>9, <1>10 DEF TrackInv

(* A vectorize task under way moves to the state s.                         *)
LEMMA TaskMoves ==
  ASSUME TypeOK, TrackInv, NEW u \in Items, NEW s, WVec(u) # "none", s # "none",
         work' = [work EXCEPT ![W("vectorize", u)] = s], UNCHANGED <<tasks, exec>>
  PROVE  /\ \A v \in Items : WVec(v)' = IF v = u THEN s ELSE WVec(v)
         /\ u \in tasks /\ ~Early /\ ~Early' /\ NothingYet' /\ Unstarted' /\ OnlyTasks'
         /\ \A m \in Msgs : m.uri # u => (Unsent(m)' <=> Unsent(m))
         /\ \A m \in Msgs : m.uri = u => (Unsent(m)' <=> s \in Before(m.level))
         /\ Expected' = Expected
         /\ Ones' = IF OwesOne(s) THEN Ones \cup {u} ELSE Ones \ {u}
         /\ Twos' = IF u \in Dirs /\ OwesTwo(s) THEN Twos \cup {u} ELSE Twos \ {u}
<1>1. \A v \in Items : WVec(v)' = IF v = u THEN s ELSE WVec(v)
  BY WorkNames DEF TypeOK, WVec
<1>2. u \in tasks /\ ~Early /\ ~Early' /\ Unstarted'
  BY DEF TrackInv, Early, Unstarted, OnlyTasks
<1>3. NothingYet' /\ OnlyTasks'
  BY <1>1, <1>2 DEF TrackInv, NothingYet, OnlyTasks
<1>4. /\ \A m \in Msgs : m.uri # u => (Unsent(m)' <=> Unsent(m))
      /\ \A m \in Msgs : m.uri = u => (Unsent(m)' <=> s \in Before(m.level))
  BY <1>1, MsgNames DEF Unsent, Before
<1>5. Expected' = Expected
  BY DEF Expected, Vectors
<1>6. Ones' = IF OwesOne(s) THEN Ones \cup {u} ELSE Ones \ {u}
  BY <1>1, <1>2 DEF Ones, OwesOne, TypeOK, Items
<1>7. Twos' = IF u \in Dirs /\ OwesTwo(s) THEN Twos \cup {u} ELSE Twos \ {u}
  BY <1>1, <1>2 DEF Twos, OwesTwo, TypeOK, Items
<1> QED
  BY <1>1, <1>2, <1>3, <1>4, <1>5, <1>6, <1>7

(* _dispatch_vectorize_tasks.                                               *)
LEMMA DispatchTracked ==
  ASSUME TypeOK, TrackInv, DispatchVectorizeTasks
  PROVE  TrackInv'
<1>1. \A u \in Items : WVec(u) = "none" /\ WVec(u)' = IF u \in tasks THEN "queued" ELSE "none"
  BY WorkNames DEF TrackInv, Unstarted, DispatchVectorizeTasks, WVec
<1>2. /\ UNCHANGED <<tasks, tracker, queue, handler, settled, requeued, lock>>
      /\ exec = "dispatch" /\ exec' = "vectorizing"
  BY DEF DispatchVectorizeTasks
<1>3. \A m \in Msgs : Unsent(m)' <=> Unsent(m)
  BY <1>1, MsgNames DEF Unsent, Before
<1>4. Early' <=> Early
  BY <1>2 DEF Early
<1>5. NothingYet' /\ OnlyTasks' /\ Unstarted' /\ (Calling' => Calling)
  BY <1>1, <1>2, <1>4 DEF TrackInv, NothingYet, OnlyTasks, Unstarted, Calling
<1> QED
  BY <1>1, <1>2, <1>3, <1>4, <1>5, QuietTracked DEF OwesOne, OwesTwo, Items

(* A worker takes a vectorize task, or runs the callback for one.           *)
LEMMA TakeTracked ==
  ASSUME TypeOK, WalkInv, TrackInv, NEW u \in Items,
         Take(W("vectorize", u)) \/ TaskCallback(W("vectorize", u))
  PROVE  TrackInv'
<1> DEFINE w == W("vectorize", u)
           s == work'[w]
<1>1. w \in Work /\ w.kind = "vectorize" /\ w.uri = u
  BY WorkNames
<1>2. /\ work' = [work EXCEPT ![w] = s]
      /\ UNCHANGED <<tasks, exec, tracker, queue, handler, settled, requeued>>
      /\ WVec(u) # "none" /\ s # "none" /\ s \notin {"call", "call1"}
      /\ lock' # lock => WVec(u) \in {"call", "call1"}
  BY <1>1 DEF Take, TaskCallback, WVec, TypeOK
<1>3. \/ WVec(u) = "queued" /\ s = IF u \in Dirs THEN "L0" ELSE "run"
      \/ WVec(u) = "call" /\ s = "over"
      \/ WVec(u) = "call1" /\ s = "owe1"
  BY <1>1 DEF Take, TaskCallback, WVec, TypeOK
<1> HIDE DEF s
<1>4. /\ \A v \in Items : WVec(v)' = IF v = u THEN s ELSE WVec(v)
      /\ ~Early /\ ~Early' /\ NothingYet' /\ Unstarted' /\ OnlyTasks'
      /\ \A m \in Msgs : m.uri # u => (Unsent(m)' <=> Unsent(m))
      /\ \A m \in Msgs : m.uri = u => (Unsent(m)' <=> s \in Before(m.level))
  BY <1>2, TaskMoves
<1>5. \A m \in Msgs : m.uri = u => (Unsent(m)' <=> Unsent(m))
  BY <1>3, <1>4, MsgNames, TreeFacts DEF Unsent, Before
<1>6. \A v \in Items : OwesOne(WVec(v)') <=> OwesOne(WVec(v))
  BY <1>3, <1>4 DEF OwesOne
<1>7. \A v \in Dirs : OwesTwo(WVec(v)') <=> OwesTwo(WVec(v))
  BY <1>3, <1>4 DEF OwesTwo, Items
<1>8. Calling' => Calling
  BY <1>2, <1>4 DEF Calling
<1> QED
  BY <1>2, <1>4, <1>5, <1>6, <1>7, <1>8, QuietTracked

(* A vectorize task enqueues the vector m, which then stands in the queue   *)
(* for what the task owed, or gives it up and owes it still.                *)
LEMMA SendTracked ==
  ASSUME TypeOK, TrackInv, NEW u \in Items, NEW m \in Msgs, m.uri = u, Unsent(m),
         NEW s, NEW t, s \notin {"none", "call", "call1"}, t \notin {"none", "call", "call1"},
         WVec(u) # "none", Send(W("vectorize", u), m, s, t),
         s \notin Before(m.level), t \notin Before(m.level),
         \A n \in Msgs : n # m /\ n.uri = u =>
           (Unsent(n) <=> s \in Before(n.level)) /\ (Unsent(n) <=> t \in Before(n.level)),
         OwesOne(WVec(u)), OwesOne(t), u \in Dirs => (OwesTwo(WVec(u)) <=> OwesTwo(t)),
         \/ ~OwesOne(s) /\ (u \in Dirs => ~OwesTwo(s) /\ ~OwesTwo(WVec(u)))
         \/ OwesOne(s) /\ u \in Dirs /\ ~OwesTwo(s) /\ OwesTwo(WVec(u))
  PROVE  TrackInv'
<1>1. UNCHANGED <<tasks, exec, tracker, lock, handler, requeued>> /\ Hands' = Hands
  BY DEF Send, Hands
<1>2. PICK r \in {s, t} :
        /\ work' = [work EXCEPT ![W("vectorize", u)] = r]
        /\ \/ r = s /\ queue' = queue \cup {m} /\ settled' = settled
           \/ r = t /\ queue' = queue /\ settled' = settled \cup {m}
  BY DEF Send
<1>3. r \notin {"none", "call", "call1"} /\ r \notin Before(m.level)
  BY <1>2
<1>4. /\ \A v \in Items : WVec(v)' = IF v = u THEN r ELSE WVec(v)
      /\ u \in tasks /\ ~Early /\ ~Early' /\ NothingYet' /\ Unstarted' /\ OnlyTasks'
      /\ \A n \in Msgs : n.uri # u => (Unsent(n)' <=> Unsent(n))
      /\ \A n \in Msgs : n.uri = u => (Unsent(n)' <=> r \in Before(n.level))
      /\ Expected' = Expected
      /\ Ones' = IF OwesOne(r) THEN Ones \cup {u} ELSE Ones \ {u}
      /\ Twos' = IF u \in Dirs /\ OwesTwo(r) THEN Twos \cup {u} ELSE Twos \ {u}
  BY <1>1, <1>2, <1>3, TaskMoves
<1>5. \A n \in Msgs : n # m => (Unsent(n)' <=> Unsent(n))
  BY <1>2, <1>4
<1>6. ~Unsent(m)'
  BY <1>3, <1>4
<1>7. Finite'
  BY <1>1, <1>2, FS_AddElement DEF TrackInv, Finite
<1>8. ASSUME Ledger PROVE Ledger'
  <2>1. m \notin queue
    BY <1>8 DEF Ledger, SentOnce
  <2>2. SentOnce'
    BY <1>2, <1>5, <1>6, <1>8 DEF Ledger, SentOnce, TypeOK
  <2>3. SettledFirst'
    BY <1>1, <1>2, <1>8 DEF Ledger, SettledFirst
  <2>4. Accounted'
    BY <1>1, <1>2, <1>4, <1>5, <1>8, ExpectedIs DEF Ledger, Accounted
  <2>5. AtEnd'
    BY <1>1, <1>3, <1>4, <1>8 DEF Ledger, AtEnd, Calling
  <2>6. Owed' = Owed
    <3>1. Finite
      BY DEF TrackInv
    <3>2. u \in Ones /\ (u \in Twos <=> u \in Dirs /\ OwesTwo(WVec(u)))
      BY <1>4 DEF Ones, Twos
    <3>3. CASE r = t /\ queue' = queue
      BY <3>2, <3>3, <1>1, <1>4 DEF Owed
    <3>4. CASE r = s /\ queue' = queue \cup {m}
      <4>1. Cardinality(queue') = Cardinality(queue) + 1
        BY <2>1, <3>1, <3>4, FS_AddElement DEF Finite
      <4>2. CASE ~OwesOne(s) /\ (u \in Dirs => ~OwesTwo(s) /\ ~OwesTwo(WVec(u)))
        <5>1. Ones' = Ones \ {u} /\ Twos' = Twos
          BY <3>2, <3>4, <4>2, <1>4
        <5>2. Cardinality(Ones') = Cardinality(Ones) - 1
          BY <5>1, <3>1, <3>2, OwedFinite, FS_RemoveElement
        <5> QED
          BY <4>1, <5>1, <5>2, <1>1, <3>1, OwedFinite DEF Owed
      <4>3. CASE OwesOne(s) /\ u \in Dirs /\ ~OwesTwo(s) /\ OwesTwo(WVec(u))
        <5>1. Ones' = Ones /\ Twos' = Twos \ {u}
          BY <3>2, <3>4, <4>3, <1>4
        <5>2. Cardinality(Twos') = Cardinality(Twos) - 1
          BY <5>1, <3>1, <3>2, <4>3, OwedFinite, FS_RemoveElement
        <5> QED
          BY <4>1, <5>1, <5>2, <1>1, <3>1, OwedFinite DEF Owed
      <4> QED
        BY <4>2, <4>3
    <3> QED
      BY <3>3, <3>4, <1>2
  <2>7. Counted'
    BY <2>6, <1>1, <1>4, <1>8 DEF Ledger, Counted
  <2> QED
    BY <2>2, <2>3, <2>4, <2>5, <2>7 DEF Ledger
<1> QED
  BY <1>1, <1>4, <1>7, <1>8 DEF TrackInv

(* The three vectorize steps.                                               *)
LEMMA VectorizeTracked ==
  ASSUME TypeOK, TrackInv,
         \/ \E f \in Files : VectorizeFile(f)
         \/ \E d \in Dirs : VectorizeAbstract(d) \/ VectorizeOverview(d)
  PROVE  TrackInv'
<1> USE DEF OwesOne, OwesTwo, Unsent, Before
<1>1. ASSUME NEW f \in Files, VectorizeFile(f) PROVE TrackInv'
  <2> DEFINE m == [uri |-> f, level |-> "file"]
  <2>1. m \in Msgs /\ m.uri = f /\ m.level = "file"
    BY DEF Msgs
  <2>2. f \in Items /\ f \notin Dirs /\ WVec(f) = "run" /\ Send(W("vectorize", f), m, "over", "owe1")
    BY <1>1, TreeFacts DEF VectorizeFile, Items, WVec
  <2> HIDE DEF m
  <2>3. \A n \in Msgs : n.uri = f => n = m
    BY <2>1, <2>2, MsgNames
  <2> QED
    BY <2>1, <2>2, <2>3, SendTracked
<1>2. ASSUME NEW d \in Dirs, VectorizeAbstract(d) PROVE TrackInv'
  <2> DEFINE m == [uri |-> d, level |-> "abstract"]
  <2>1. m \in Msgs /\ m.uri = d /\ m.level = "abstract"
    BY DEF Msgs
  <2>2. d \in Items /\ WVec(d) = "L0" /\ Send(W("vectorize", d), m, "L1", "L1owe")
    BY <1>2 DEF VectorizeAbstract, Items, WVec
  <2> HIDE DEF m
  <2>3. \A n \in Msgs : n.uri = d => n = m \/ n.level = "overview"
    BY <2>1, <2>2, MsgNames, TreeFacts
  <2> QED
    BY <2>1, <2>2, <2>3, SendTracked
<1>3. ASSUME NEW d \in Dirs, VectorizeOverview(d) PROVE TrackInv'
  <2> DEFINE m == [uri |-> d, level |-> "overview"]
  <2>1. m \in Msgs /\ m.uri = d /\ m.level = "overview"
    BY DEF Msgs
  <2>2. /\ d \in Items
        /\ \/ WVec(d) = "L1" /\ Send(W("vectorize", d), m, "over", "owe1")
           \/ WVec(d) = "L1owe" /\ Send(W("vectorize", d), m, "owe1", "owe2")
    BY <1>3 DEF VectorizeOverview, Items, WVec
  <2> HIDE DEF m
  <2>3. \A n \in Msgs : n.uri = d => n = m \/ n.level = "abstract"
    BY <2>1, <2>2, MsgNames, TreeFacts
  <2>4. CASE WVec(d) = "L1" /\ Send(W("vectorize", d), m, "over", "owe1")
    BY <2>1, <2>2, <2>3, <2>4, SendTracked
  <2>5. CASE WVec(d) = "L1owe" /\ Send(W("vectorize", d), m, "owe1", "owe2")
    BY <2>1, <2>2, <2>3, <2>5, SendTracked
  <2> QED
    BY <2>2, <2>4, <2>5
<1> QED
  BY <1>1, <1>2, <1>3

(* _decrement_embedding_tracker: a vector that was not enqueued is counted  *)
(* down.                                                                    *)
LEMMA UnsentTracked ==
  ASSUME TypeOK, WalkInv, TrackInv, NEW u \in Items, CountUnsent(W("vectorize", u))
  PROVE  TrackInv'
<1> DEFINE w == W("vectorize", u)
           s == work'[w]
<1>1. w \in Work /\ w.kind = "vectorize" /\ w.uri = u
  BY WorkNames
<1>2. /\ work' = [work EXCEPT ![w] = s]
      /\ UNCHANGED <<tasks, exec, lock, queue, handler, settled, requeued>>
      /\ tracker' = IF tracker = 0 THEN 0 ELSE tracker - 1
  BY <1>1 DEF CountUnsent, CountDown, TypeOK
<1>3. \/ WVec(u) = "owe2" /\ s = IF tracker = 1 THEN "call1" ELSE "owe1"
      \/ WVec(u) = "owe1" /\ s = IF tracker = 1 THEN "call" ELSE "over"
  BY <1>1 DEF CountUnsent, AtZero, WVec, TypeOK
<1>4. WVec(u) = "owe2" => u \in Dirs
  BY <1>1, TreeFacts DEF WalkInv, KindStates, States, WVec, Items
<1> HIDE DEF s
<1>5. /\ \A v \in Items : WVec(v)' = IF v = u THEN s ELSE WVec(v)
      /\ u \in tasks /\ ~Early /\ ~Early' /\ NothingYet' /\ Unstarted' /\ OnlyTasks'
      /\ \A m \in Msgs : m.uri # u => (Unsent(m)' <=> Unsent(m))
      /\ \A m \in Msgs : m.uri = u => (Unsent(m)' <=> s \in Before(m.level))
      /\ Expected' = Expected
      /\ Ones' = IF OwesOne(s) THEN Ones \cup {u} ELSE Ones \ {u}
      /\ Twos' = IF u \in Dirs /\ OwesTwo(s) THEN Twos \cup {u} ELSE Twos \ {u}
  BY <1>2, <1>3, TaskMoves
<1>6. \A m \in Msgs : Unsent(m)' <=> Unsent(m)
  BY <1>3, <1>5, MsgNames DEF Unsent, Before
<1>7. Hands' = Hands /\ Finite /\ Finite'
  BY <1>2 DEF Hands, TrackInv, Finite
<1>8. Owed' = Owed - 1
  <2>1. u \in Ones /\ (u \in Twos <=> WVec(u) = "owe2")
    BY <1>3, <1>4, <1>5 DEF Ones, Twos, OwesOne, OwesTwo
  <2>2. CASE WVec(u) = "owe2"
    <3>1. Ones' = Ones /\ Twos' = Twos \ {u}
      BY <2>1, <2>2, <1>3, <1>5 DEF OwesOne, OwesTwo
    <3>2. Cardinality(Twos') = Cardinality(Twos) - 1
      BY <2>1, <2>2, <3>1, <1>7, OwedFinite, FS_RemoveElement
    <3> QED
      BY <3>1, <3>2, <1>2, <1>7, OwedFinite DEF Owed
  <2>3. CASE WVec(u) = "owe1"
    <3>1. Ones' = Ones \ {u} /\ Twos' = Twos
      BY <2>1, <2>3, <1>3, <1>5 DEF OwesOne, OwesTwo
    <3>2. Cardinality(Ones') = Cardinality(Ones) - 1
      BY <2>1, <3>1, <1>7, OwedFinite, FS_RemoveElement
    <3> QED
      BY <3>1, <3>2, <1>2, <1>7, OwedFinite DEF Owed
  <2> QED
    BY <2>2, <2>3, <1>3
<1>9. Owed \in Nat /\ Owed # 0
  <2>1. u \in Ones
    BY <1>3, <1>5 DEF Ones, OwesOne
  <2> QED
    BY <2>1, <1>7, OwedFinite, FS_EmptySet DEF Owed
<1>10. ASSUME Ledger PROVE Ledger'
  <2>1. tracker = Owed
    BY <1>5, <1>10 DEF Ledger, Counted
  <2>2. Counted' /\ tracker # 0
    BY <2>1, <1>2, <1>8, <1>9 DEF Counted
  <2>3. AtEnd'
    <3>1. ~Calling
      BY <2>2, <1>10 DEF Ledger, AtEnd
    <3>2. Calling' => tracker = 1
      BY <3>1, <1>2, <1>3, <1>5 DEF Calling
    <3> QED
      BY <3>2, <1>2 DEF AtEnd
  <2>4. SettledFirst'
    BY <1>2, <1>10 DEF Ledger, SettledFirst
  <2>5. Accounted'
    BY <1>2, <1>5, <1>6, <1>7, <1>10, ExpectedIs DEF Ledger, Accounted
  <2>6. SentOnce'
    BY <1>2, <1>6, <1>10 DEF Ledger, SentOnce, TypeOK
  <2> QED
    BY <2>2, <2>3, <2>4, <2>5, <2>6 DEF Ledger
<1> QED
  BY <1>2, <1>5, <1>7, <1>10 DEF TrackInv

(* What a step of the handler h leaves alone.                               *)
LEMMA HandlerMoves ==
  ASSUME TypeOK, TrackInv, NEW h \in Handlers, NEW r, handler' = [handler EXCEPT ![h] = r],
         UNCHANGED <<work, tasks, exec>>, handler[h].pc # "idle" \/ queue # {}
  PROVE  /\ \A g \in Handlers : handler'[g] = IF g = h THEN r ELSE handler[g]
         /\ ~Early /\ ~Early' /\ NothingYet' /\ Unstarted' /\ OnlyTasks'
         /\ \A m \in Msgs : Unsent(m)' <=> Unsent(m)
         /\ \A u \in Items : WVec(u)' = WVec(u)
         /\ Expected' = Expected /\ Ones' = Ones /\ Twos' = Twos
         /\ Hands' = IF r.pc \in Busy THEN Hands \cup {h} ELSE Hands \ {h}
<1>1. \A g \in Handlers : handler'[g] = IF g = h THEN r ELSE handler[g]
  BY DEF TypeOK
<1>2. ~Early /\ ~Early'
  BY DEF TrackInv, NothingYet, Early
<1>3. NothingYet' /\ Unstarted' /\ OnlyTasks'
  BY <1>2 DEF TrackInv, NothingYet, Unstarted, OnlyTasks, WVec
<1>4. /\ \A m \in Msgs : Unsent(m)' <=> Unsent(m)
      /\ \A u \in Items : WVec(u)' = WVec(u)
      /\ Expected' = Expected /\ Ones' = Ones /\ Twos' = Twos
  BY DEF Unsent, WVec, Expected, Vectors, Ones, Twos
<1>5. Hands' = IF r.pc \in Busy THEN Hands \cup {h} ELSE Hands \ {h}
  BY <1>1 DEF Hands
<1> QED
  BY <1>1, <1>2, <1>3, <1>4, <1>5

(* A message is dequeued: the handler owes what the queue held.             *)
LEMMA DequeueTracked ==
  ASSUME TypeOK, TrackInv, NEW h \in Handlers, NEW m \in queue, Dequeue(h, m)
  PROVE  TrackInv'
<1>1. PICK p \in {"embed", "sleep"} : handler' = [handler EXCEPT ![h] = [pc |-> p, msg |-> m]]
  BY DEF Dequeue
<1> DEFINE r == [pc |-> p, msg |-> m]
<1>2. r.pc \in Busy /\ r.pc \notin {"settle", "call"} /\ r.msg = m
  BY DEF Busy
<1>3. /\ handler' = [handler EXCEPT ![h] = r] /\ handler[h].pc = "idle" /\ queue' = queue \ {m}
      /\ UNCHANGED <<work, tasks, exec, tracker, lock, settled, requeued>>
  BY <1>1 DEF Dequeue
<1> HIDE DEF r
<1>4. /\ \A g \in Handlers : handler'[g] = IF g = h THEN r ELSE handler[g]
      /\ ~Early /\ ~Early' /\ NothingYet' /\ Unstarted' /\ OnlyTasks'
      /\ \A n \in Msgs : Unsent(n)' <=> Unsent(n)
      /\ \A u \in Items : WVec(u)' = WVec(u)
      /\ Expected' = Expected /\ Ones' = Ones /\ Twos' = Twos
      /\ Hands' = Hands \cup {h} /\ h \notin Hands
  BY <1>2, <1>3, HandlerMoves DEF Hands, Busy
<1>5. Finite /\ Finite'
  BY <1>3, <1>4, FS_AddElement, FS_RemoveElement DEF TrackInv, Finite
<1>6. Owed' = Owed
  <2>1. /\ Cardinality(queue') = Cardinality(queue) - 1
        /\ Cardinality(Hands') = Cardinality(Hands) + 1
    BY <1>3, <1>4, <1>5, FS_AddElement, FS_RemoveElement DEF Finite
  <2> QED
    BY <2>1, <1>4, <1>5, OwedFinite DEF Owed
<1>7. ASSUME Ledger PROVE Ledger'
  <2>1. Counted'
    BY <1>3, <1>4, <1>6, <1>7 DEF Ledger, Counted
  <2>2. AtEnd'
    BY <1>2, <1>3, <1>4, <1>7 DEF Ledger, AtEnd, Calling
  <2>3. SettledFirst'
    BY <1>2, <1>3, <1>4, <1>7 DEF Ledger, SettledFirst
  <2>4. Accounted'
    <3> SUFFICES ASSUME NEW n \in Expected
                 PROVE  Unsent(n)' \/ n \in queue' \/ n \in settled'
                        \/ \E g \in Hands' : handler'[g].msg = n
      BY <1>4 DEF Accounted
    <3>1. CASE n = m
      BY <3>1, <1>2, <1>4
    <3>2. CASE n # m
      <4>1. ASSUME NEW g \in Hands, handler[g].msg = n
            PROVE  g \in Hands' /\ handler'[g].msg = n
        BY <4>1, <1>4 DEF Hands
      <4> QED
        BY <3>2, <4>1, <1>3, <1>4, <1>7, ExpectedIs DEF Ledger, Accounted
    <3> QED
      BY <3>1, <3>2
  <2>5. SentOnce'
    BY <1>3, <1>4, <1>7 DEF Ledger, SentOnce, TypeOK
  <2> QED
    BY <2>1, <2>2, <2>3, <2>4, <2>5 DEF Ledger
<1> QED
  BY <1>3, <1>4, <1>5, <1>7 DEF TrackInv

(* A handler goes on with its message.                                      *)
LEMMA BusyTracked ==
  ASSUME TypeOK, TrackInv, NEW h \in Handlers, NEW p \in Busy, handler[h].pc \in Busy,
         handler' = [handler EXCEPT ![h].pc = p],
         UNCHANGED <<work, tasks, exec, tracker, lock>>,
         \/ queue' = queue /\ requeued' = requeued
         \/ queue' = queue \cup {handler[h].msg} /\ requeued' = TRUE,
         settled \subseteq settled',
         p = "settle" /\ requeued' = FALSE => handler[h].msg \in settled'
  PROVE  TrackInv'
<1> DEFINE r == [handler[h] EXCEPT !.pc = p]
<1>1. handler' = [handler EXCEPT ![h] = r] /\ r.pc = p /\ r.msg = handler[h].msg
  BY DEF TypeOK
<1> HIDE DEF r
<1>2. handler[h].pc # "idle" /\ p # "call"
  BY DEF Busy
<1>3. /\ \A g \in Handlers : handler'[g] = IF g = h THEN r ELSE handler[g]
      /\ ~Early /\ ~Early' /\ NothingYet' /\ Unstarted' /\ OnlyTasks'
      /\ \A n \in Msgs : Unsent(n)' <=> Unsent(n)
      /\ \A u \in Items : WVec(u)' = WVec(u)
      /\ Expected' = Expected /\ Ones' = Ones /\ Twos' = Twos
      /\ Hands' = Hands
  <2>1. /\ \A g \in Handlers : handler'[g] = IF g = h THEN r ELSE handler[g]
        /\ ~Early /\ ~Early' /\ NothingYet' /\ Unstarted' /\ OnlyTasks'
        /\ \A n \in Msgs : Unsent(n)' <=> Unsent(n)
        /\ \A u \in Items : WVec(u)' = WVec(u)
        /\ Expected' = Expected /\ Ones' = Ones /\ Twos' = Twos
        /\ Hands' = IF r.pc \in Busy THEN Hands \cup {h} ELSE Hands \ {h}
    BY <1>1, <1>2, HandlerMoves
  <2>2. h \in Hands
    BY DEF Hands
  <2>3. r.pc \in Busy
    BY <1>1
  <2>4. Hands' = Hands \cup {h}
    BY <2>1, <2>3
  <2>5. Hands' = Hands
    BY <2>2, <2>4
  <2> QED
    BY <2>1, <2>5
<1>4. Finite'
  BY <1>3, FS_AddElement DEF TrackInv, Finite
<1>5. ASSUME Ledger, requeued' = FALSE PROVE Ledger'
  <2>0. queue' = queue
    BY <1>5
  <2>1. Counted'
    BY <2>0, <1>3, <1>5 DEF Ledger, Counted, Owed
  <2>2. AtEnd'
    BY <1>1, <1>2, <1>3, <1>5 DEF Ledger, AtEnd, Calling
  <2>3. SettledFirst'
    BY <1>1, <1>3, <1>5 DEF Ledger, SettledFirst
  <2>4. Accounted'
    BY <2>0, <1>1, <1>3, <1>5, ExpectedIs DEF Ledger, Accounted, Hands
  <2>5. SentOnce'
    BY <2>0, <1>3, <1>5 DEF Ledger, SentOnce, TypeOK
  <2> QED
    BY <2>1, <2>2, <2>3, <2>4, <2>5 DEF Ledger
<1>6. requeued' = FALSE => requeued = FALSE
  OBVIOUS
<1> QED
  BY <1>3, <1>4, <1>5, <1>6 DEF TrackInv

(* The finally block: the handler counts its message down.                  *)
LEMMA SettleTracked ==
  ASSUME TypeOK, TrackInv, NEW h \in Handlers, Settle(h)
  PROVE  TrackInv'
<1> DEFINE r == IF AtZero THEN [handler[h] EXCEPT !.pc = "call"] ELSE Idle
<1>1. /\ handler' = [handler EXCEPT ![h] = r] /\ handler[h].pc = "settle"
      /\ UNCHANGED <<work, tasks, exec, lock, queue, settled, requeued>>
      /\ tracker' = IF tracker = 0 THEN 0 ELSE tracker - 1
  BY DEF Settle, CountDown, TypeOK
<1>2. r.pc = IF tracker = 1 THEN "call" ELSE "idle"
  BY DEF AtZero, Idle, TypeOK
<1> HIDE DEF r
<1>3. /\ \A g \in Handlers : handler'[g] = IF g = h THEN r ELSE handler[g]
      /\ ~Early /\ ~Early' /\ NothingYet' /\ Unstarted' /\ OnlyTasks'
      /\ \A n \in Msgs : Unsent(n)' <=> Unsent(n)
      /\ \A u \in Items : WVec(u)' = WVec(u)
      /\ Expected' = Expected /\ Ones' = Ones /\ Twos' = Twos
      /\ Hands' = Hands \ {h} /\ h \in Hands
  BY <1>1, <1>2, HandlerMoves DEF Hands, Busy
<1>4. Finite /\ Finite'
  BY <1>1, <1>3, FS_RemoveElement DEF TrackInv, Finite
<1>5. Owed' = Owed - 1 /\ Owed \in Nat /\ Owed # 0
  <2>1. Cardinality(Hands') = Cardinality(Hands) - 1 /\ Cardinality(Hands) # 0
    BY <1>3, <1>4, FS_RemoveElement, FS_EmptySet DEF Finite
  <2> QED
    BY <2>1, <1>1, <1>3, <1>4, OwedFinite DEF Owed
<1>6. ASSUME Ledger PROVE Ledger'
  <2>1. Counted' /\ tracker # 0
    BY <1>1, <1>3, <1>5, <1>6 DEF Ledger, Counted
  <2>2. AtEnd'
    <3>1. ~Calling
      BY <2>1, <1>6 DEF Ledger, AtEnd
    <3>2. Calling' => tracker = 1
      BY <3>1, <1>1, <1>2, <1>3 DEF Calling
    <3> QED
      BY <3>2, <1>1 DEF AtEnd
  <2>3. SettledFirst'
    BY <1>1, <1>2, <1>3, <1>6 DEF Ledger, SettledFirst
  <2>4. Accounted'
    <3>1. handler[h].msg \in settled
      BY <1>1, <1>6 DEF Ledger, SettledFirst
    <3> QED
      BY <3>1, <1>1, <1>3, <1>6, ExpectedIs DEF Ledger, Accounted, Hands
  <2>5. SentOnce'
    BY <1>1, <1>3, <1>6 DEF Ledger, SentOnce, TypeOK
  <2> QED
    BY <2>1, <2>2, <2>3, <2>4, <2>5 DEF Ledger
<1> QED
  BY <1>1, <1>3, <1>4, <1>6 DEF TrackInv

(* The callback run for a handler closes the lock, with the tracker at zero. *)
LEMMA CallbackTracked ==
  ASSUME TypeOK, TrackInv, NEW h \in Handlers, HandlerCallback(h)
  PROVE  TrackInv'
<1> DEFINE r == Idle
<1>1. /\ handler' = [handler EXCEPT ![h] = r] /\ handler[h].pc = "call" /\ r.pc = "idle"
      /\ UNCHANGED <<work, tasks, exec, tracker, queue, settled, requeued>>
  BY DEF HandlerCallback, Idle
<1> HIDE DEF r
<1>2. /\ \A g \in Handlers : handler'[g] = IF g = h THEN r ELSE handler[g]
      /\ ~Early /\ ~Early' /\ NothingYet' /\ Unstarted' /\ OnlyTasks'
      /\ \A n \in Msgs : Unsent(n)' <=> Unsent(n)
      /\ \A u \in Items : WVec(u)' = WVec(u)
      /\ Expected' = Expected /\ Ones' = Ones /\ Twos' = Twos
      /\ Hands' = IF r.pc \in Busy THEN Hands \cup {h} ELSE Hands \ {h}
  BY <1>1, HandlerMoves
<1>h. Hands' = Hands
  <2>1. r.pc \notin Busy /\ h \notin Hands
    BY <1>1 DEF Hands, Busy
  <2> QED
    BY <2>1, <1>2
<1>3. Finite'
  BY <1>1, <1>2, <1>h DEF TrackInv, Finite
<1>4. ASSUME Ledger PROVE Ledger'
  <2>1. Counted'
    BY <1>1, <1>2, <1>h, <1>4 DEF Ledger, Counted, Owed
  <2>2. AtEnd'
    BY <1>1, <1>4 DEF Ledger, AtEnd, Calling
  <2>3. SettledFirst'
    BY <1>1, <1>2, <1>4 DEF Ledger, SettledFirst
  <2>4. Accounted'
    BY <1>1, <1>2, <1>4, ExpectedIs DEF Ledger, Accounted, Hands, Busy
  <2>5. SentOnce'
    BY <1>1, <1>2, <1>4 DEF Ledger, SentOnce, TypeOK
  <2> QED
    BY <2>1, <2>2, <2>3, <2>4, <2>5 DEF Ledger
<1> QED
  BY <1>1, <1>2, <1>3, <1>4 DEF TrackInv

(* Every step keeps the tracker's books.                                    *)
LEMMA TrackStep ==
  ASSUME DagInv, TrackInv, [Next]_vars
  PROVE  TrackInv'
<1>0. TypeOK /\ WalkInv
  BY DEF DagInv
<1>w. ASSUME NEW w \in Work, w.kind # "vectorize", NEW s, work' = [work EXCEPT ![w] = s]
      PROVE  \A u \in Items : WVec(u)' = WVec(u)
  BY <1>0, <1>w, WorkNames DEF WVec, TypeOK
<1>q. ASSUME NEW k \in {"dir", "overview", "file"}, NEW v, W(k, v) \in Work, NEW s,
             work' = [work EXCEPT ![W(k, v)] = s]
      PROVE  \A u \in Items : WVec(u)' = WVec(u)
  BY <1>q, <1>w, WorkNames
<1>t. ASSUME NEW u \in Items, u # Root, NEW ns,
             Tell(Parent[u], u, [work EXCEPT ![Last(u)] = "over"], ns)
      PROVE  \A v \in Items : WVec(v)' = WVec(v)
  <2> DEFINE ws == [work EXCEPT ![Last(u)] = "over"]
             o == W("overview", Parent[u])
  <2>1. work' \in {ws, [ws EXCEPT ![o] = "queued"]}
    BY <1>t DEF Tell
  <2>2. \A v \in Items : W("vectorize", v) # o /\ W("vectorize", v) # Last(u)
                         /\ W("vectorize", v) \in Work
    BY WorkNames DEF Last
  <2>3. \A w \in Work : w # Last(u) => ws[w] = work[w]
    BY <1>0 DEF TypeOK
  <2>4. DOMAIN ws = Work
    BY <1>0 DEF TypeOK
  <2>5. \A w \in Work : w # o => work'[w] = ws[w]
    BY <2>1, <2>4
  <2> HIDE DEF ws, o
  <2> QED
    BY <2>2, <2>3, <2>5 DEF WVec
<1>1. ASSUME NEW w \in Work, WorkStep(w) PROVE TrackInv'
  <2>1. w.kind = "vectorize" => w.uri \in Items /\ w = W("vectorize", w.uri)
    BY WorkNames
  <2>2. CASE AddVectorizeTask(w)
    BY <2>2, <1>0, AddTracked
  <2>3. CASE CountUnsent(w)
    <3>1. w.kind = "vectorize"
      BY <2>3, <1>0, WorkNames DEF CountUnsent, WalkInv, KindStates, States
    <3> QED
      BY <2>1, <2>3, <3>1, <1>0, UnsentTracked
  <2>4. CASE TaskCallback(w)
    <3>1. w.kind = "vectorize"
      BY <2>4, <1>0, WorkNames DEF TaskCallback, WalkInv, KindStates, States
    <3> QED
      BY <2>1, <2>4, <3>1, <1>0, TakeTracked
  <2>5. CASE Take(w) /\ w.kind = "vectorize"
    BY <2>1, <2>5, <1>0, TakeTracked
  <2>6. CASE Take(w) /\ w.kind # "vectorize"
    BY <2>6, <1>0, <1>w, WalkTracked DEF Take
  <2> QED
    BY <1>1, <2>2, <2>3, <2>4, <2>5, <2>6 DEF WorkStep
<1>2. ASSUME NEW d \in Dirs, DispatchDir(d) PROVE TrackInv'
  <2>1. \A u \in Items : WVec(u)' = WVec(u)
    <3>1. PICK L \in {Children(d), {}} : \A w \in Work : work'[w] =
            CASE w = W("dir", d) -> "over"
              [] w = W("overview", d) /\ Pending(L) = {} -> "queued"
              [] w.uri \in Pending(L) /\ w = W(Kind(w.uri), w.uri) -> "queued"
              [] OTHER -> work[w]
      BY <1>2 DEF DispatchDir
    <3>2. \A u \in Items : /\ W("vectorize", u) \in Work
                           /\ W("vectorize", u) # W("dir", d)
                           /\ W("vectorize", u) # W("overview", d)
                           /\ \A v : W("vectorize", u) # W(Kind(v), v)
      BY WorkNames DEF Kind
    <3>3. ASSUME NEW u \in Items PROVE work'[W("vectorize", u)] = work[W("vectorize", u)]
      BY <3>1, <3>2
    <3> QED
      BY <3>3 DEF WVec
  <2> QED
    BY <2>1, <1>0, <1>2, WalkTracked DEF DispatchDir
<1>f. ASSUME NEW d \in Dirs, DispatchFails(d) PROVE TrackInv'
  <2>1. \A u \in Items : /\ W("vectorize", u) \in Work
                         /\ W("vectorize", u) # W("dir", d)
                         /\ W("vectorize", u) # W("overview", d)
    BY WorkNames
  <2>2. \A w \in Work : w # W("dir", d) /\ w # W("overview", d) => work'[w] = work[w]
    BY <1>f, <1>0 DEF DispatchFails, TypeOK
  <2>3. \A u \in Items : WVec(u)' = WVec(u)
    BY <2>1, <2>2 DEF WVec
  <2> QED
    BY <2>3, <1>0, <1>f, WalkTracked DEF DispatchFails
<1>3. ASSUME NEW d \in Dirs, OverviewTask(d) \/ WriteDirectorySemantics(d) PROVE TrackInv'
  <2>1. W("overview", d) \in Work
    BY WorkNames
  <2>2. \A u \in Items : WVec(u)' = WVec(u)
    BY <2>1, <1>3, <1>q DEF OverviewTask, WriteDirectorySemantics
  <2> QED
    BY <2>2, <1>0, <1>3, WalkTracked DEF OverviewTask, WriteDirectorySemantics
<1>4. ASSUME NEW d \in Dirs, OnChildDone(d) PROVE TrackInv'
  <2>1. W("overview", d) \in Work /\ d \in Items /\ Last(d) = W("overview", d)
    BY WorkNames, TreeFacts DEF Last, Items
  <2>2. /\ UNCHANGED <<tasks, tracker, lock, queue, handler, settled, requeued>>
        /\ work[W("overview", d)] = "tell"
    BY <1>4 DEF OnChildDone
  <2>3. CASE d = Root
    <3>1. exec = "graph" /\ exec' = "count"
      BY <2>2, <2>3, <1>0, <1>4 DEF OnChildDone, WalkInv, RootFirst, WOv
    <3>2. \A u \in Items : WVec(u)' = WVec(u)
      BY <2>1, <2>3, <1>4, <1>q DEF OnChildDone
    <3> QED
      BY <2>2, <3>1, <3>2, <1>0, WalkTracked
  <2>4. CASE d # Root
    <3> DEFINE ns == [node EXCEPT ![d].on = FALSE]
    <3>1. /\ Tell(Parent[d], d, [work EXCEPT ![Last(d)] = "over"], ns)
          /\ exec' = exec
      BY <2>1, <2>4, <1>4 DEF OnChildDone
    <3> HIDE DEF ns
    <3>2. \A u \in Items : WVec(u)' = WVec(u)
      BY <2>1, <2>4, <3>1, <1>t
    <3> QED
      BY <2>2, <3>1, <3>2, <1>0, WalkTracked
  <2> QED
    BY <2>3, <2>4
<1>5. ASSUME NEW f \in Files, FileSummaryTask(f) PROVE TrackInv'
  <2>1. W("file", f) \in Work
    BY WorkNames
  <2>2. \A u \in Items : WVec(u)' = WVec(u)
    BY <2>1, <1>5, <1>q DEF FileSummaryTask
  <2> QED
    BY <2>2, <1>0, <1>5, WalkTracked DEF FileSummaryTask
<1>6. ASSUME NEW f \in Files, OnFileDone(f) PROVE TrackInv'
  <2>1. f \in Items /\ f # Root /\ Last(f) = W("file", f)
    BY TreeFacts DEF Items, Last
  <2>2. \A u \in Items : WVec(u)' = WVec(u)
    BY <2>1, <1>6, <1>t DEF OnFileDone
  <2> QED
    BY <2>2, <1>0, <1>6, WalkTracked DEF OnFileDone
<1>7. CASE Register
  BY <1>0, <1>7, RegisterTracked
<1>8. CASE DispatchVectorizeTasks
  BY <1>0, <1>8, DispatchTracked
<1>9. CASE Return \/ Supersede \/ UNCHANGED vars
  <2>1. \A u \in Items : WVec(u)' = WVec(u)
    BY <1>9 DEF Return, Supersede, vars, WVec
  <2> QED
    BY <2>1, <1>0, <1>9, WalkTracked DEF Return, Returned, Supersede, vars
<1>10. ASSUME NEW h \in Handlers, Handle(h) PROVE TrackInv'
  <2>1. CASE \E m \in queue : Dequeue(h, m)
    BY <2>1, <1>0, DequeueTracked
  <2>2. CASE Embed(h)
    BY <2>2, <1>0, BusyTracked DEF Embed, Busy, GivenUp, Retried
  <2>3. CASE Requeue(h)
    BY <2>3, <1>0, BusyTracked DEF Requeue, Busy, TypeOK
  <2>4. CASE Upsert(h)
    BY <2>4, <1>0, BusyTracked DEF Upsert, Busy
  <2>5. CASE Settle(h)
    BY <2>5, <1>0, SettleTracked
  <2>6. CASE HandlerCallback(h)
    BY <2>6, <1>0, CallbackTracked
  <2> QED
    BY <1>10, <2>1, <2>2, <2>3, <2>4, <2>5, <2>6 DEF Handle
<1>11. ASSUME NEW f \in Files, VectorizeFile(f) PROVE TrackInv'
  BY <1>0, <1>11, VectorizeTracked
<1>12. ASSUME NEW d \in Dirs, VectorizeAbstract(d) \/ VectorizeOverview(d) PROVE TrackInv'
  BY <1>0, <1>12, VectorizeTracked
<1> QED
  BY <1>1, <1>2, <1>f, <1>3, <1>4, <1>5, <1>6, <1>7, <1>8, <1>9, <1>10, <1>11, <1>12
     DEF Next, Execute, Run, DirStep, FileStep

(* The tree lock is held until every vector of the execution is settled,    *)
(* unless an embedding message was enqueued again: for every tree, every    *)
(* order of the workers and handlers, every failing read, enqueue or        *)
(* embedding, the count that run() registers is the number of count-downs.  *)
THEOREM LockHeld == Spec => []HeldWhileIndexing
<1>1. Init => TrackInv
  <2> SUFFICES ASSUME Init PROVE TrackInv
    OBVIOUS
  <2>1. \A u \in Items : WVec(u) = "none"
    BY WorkNames DEF Init, WVec
  <2>2. /\ exec = "graph" /\ tracker = 0 /\ lock = "held" /\ queue = {} /\ tasks = {}
        /\ \A h \in Handlers : handler[h].pc = "idle"
    BY DEF Init, Idle
  <2>3. Hands = {} /\ Finite
    BY <2>2, FS_EmptySet DEF Hands, Busy, Finite
  <2>4. NothingYet /\ Unstarted /\ OnlyTasks
    BY <2>1, <2>2 DEF NothingYet, Unstarted, OnlyTasks
  <2>5. SentOnce /\ SettledFirst /\ Accounted /\ Counted /\ AtEnd
    BY <2>1, <2>2 DEF SentOnce, SettledFirst, Accounted, Expected, Counted, Early, AtEnd
  <2> QED
    BY <2>3, <2>4, <2>5 DEF TrackInv, Ledger
<1>2. DagInv /\ TrackInv /\ [Next]_vars => TrackInv'
  BY TrackStep
<1>3. DagInv /\ TrackInv => HeldWhileIndexing
  <2> SUFFICES ASSUME DagInv, TrackInv, lock = "closed", requeued = FALSE, NEW m \in Expected
               PROVE  m \in settled
    BY DEF HeldWhileIndexing, DagInv, TypeOK
  <2>1. TypeOK /\ Finite /\ Ledger /\ ~Early
    BY DEF DagInv, TrackInv, NothingYet
  <2>2. Owed = 0
    BY <2>1 DEF Ledger, Counted, AtEnd, Calling
  <2>3. Ones = {} /\ queue = {} /\ Hands = {}
    BY <2>1, <2>2, NothingOwed
  <2>4. m \in Msgs /\ m.uri \in tasks /\ m.uri \in Items
    BY ExpectedIs, MsgNames
  <2>5. ~OwesOne(WVec(m.uri))
    BY <2>3, <2>4 DEF Ones
  <2>6. ~Unsent(m)
    BY <2>4, <2>5, MsgNames DEF OwesOne, Unsent, Before
  <2> QED
    BY <2>1, <2>3, <2>6 DEF Ledger, Accounted
<1> QED
  BY <1>1, <1>2, <1>3, WalkHolds, PTL DEF Spec
=============================================================================
