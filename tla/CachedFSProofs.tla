--------------------------- MODULE CachedFSProofs ---------------------------
(* Proofs about CachedFS, for every tree, every policy, any number of       *)
(* readers and every bound on changes, faults and restarts.                 *)
EXTENDS CachedFS, FiniteSetTheorems, TLAPS

(* Abbreviations of the specification that every proof may expand.          *)
USE DEF shared, provider, wrapper, bounds
-----------------------------------------------------------------------------
(* The parts of the inductive invariant.                                    *)

(* What keeps the generations within their bounds: an epoch for every start *)
(* and, for every node, at most one bump for every change.                  *)
EpochIs == epoch = restarts + 1
BumpsOnce ==
  \A i, j \in DOMAIN script :
    script[i].do = "bump" /\ script[j].do = "bump" /\ script[i].at = script[j].at => i = j
CopyDeletes == \A i \in DOMAIN copy : copy[i].do = "delete"
ToBump(n) == \E i \in DOMAIN script : script[i].do = "bump" /\ script[i].at = n
BumpRoom ==
  \A n \in Nodes : /\ gen[n][2] <= changes /\ local[n][2] <= changes
                   /\ ToBump(n) => gen[n][2] < changes /\ local[n][2] < changes

(* A mutex and its owners.                                                  *)
Joined == {"queue", "backend", "fill", "release"}
Holding == {"probe", "backend", "fill"}
LockState ==
  \A x \in Readers : /\ reader[x].pc \in Joined => reader[x].lock # 0
                     /\ reader[x].pc \in {"idle", "between", "join"} => reader[x].lock = 0
InTable == \A x \in Readers : reader[x].lock # 0 => inflight[reader[x].obj] = reader[x].lock
OneEach == \A o, p \in policy : inflight[o] = inflight[p] /\ inflight[o] # 0 => o = p
OneHolder ==
  \A x, y \in Readers : reader[x].lock # 0 /\ reader[x].lock = reader[y].lock
                        /\ reader[x].pc \in Holding /\ reader[y].pc \in Holding => x = y
LockInv == LockState /\ InTable /\ OneEach /\ OneHolder

(* The order of the generations.                                            *)
Leq(g, h) == g[1] < h[1] \/ (g[1] = h[1] /\ g[2] <= h[2])
Lt(g, h) == g[1] < h[1] \/ (g[1] = h[1] /\ g[2] < h[2])

(* The generation that the provider has is not ahead of the one remembered, *)
(* and of an earlier epoch when none is: losing it never turns one back.    *)
GenOrder ==
  \A n \in Nodes :
    /\ gen[n][1] <= epoch /\ local[n][1] <= epoch
    /\ gen[n] # NoGen => IF local[n] # NoGen THEN Leq(gen[n], local[n]) ELSE gen[n][1] < epoch
EntryOld ==
  \A o \in policy : entry[o].on = TRUE =>
    \A n \in Scopes[o[2]] : Leq(entry[o].gens[n], Current(n))

(* What is about to be put into the cache is what the backend has.          *)
FillCurrent ==
  /\ \A r \in Readers : reader[r].pc = "fill" =>
       reader[r].got = version[reader[r].obj] \/ reader[r].obj \in suspect
  /\ \A i \in DOMAIN script : script[i].do = "fill" =>
       script[i].version = version[script[i].at] \/ script[i].at \in suspect
Alone == script # <<>> => \A r \in Readers : reader[r].pc \in {"idle", "between"}
VersionPast == \A o \in policy : version[o] <= changes
StaleInv == GenOrder /\ EntryOld /\ FillCurrent /\ Alone /\ VersionPast /\ StaleIsDoomed

(* What a reader may not fall behind is not in its reach.                   *)
Active(r) == reader[r].pc # "idle"
SincePast == \A r \in Readers, o \in policy : reader[r].since[o] <= version[o]
FillFresh ==
  \A r \in Readers : Active(r) =>
    /\ \A x \in Readers : reader[x].pc = "fill" => reader[x].got >= reader[r].since[reader[x].obj]
    /\ \A i \in DOMAIN script : script[i].do = "fill" =>
         script[i].version >= reader[r].since[script[i].at]
Away(r, o) == reader[r].pc = "between" \/ reader[r].obj # o
DeadFor(r, o) == \E n \in Scopes[o[2]] : Lt(entry[o].gens[n], Seen(r, n))
OutOfReach ==
  \A r \in Readers, o \in policy :
    Active(r) /\ entry[o].on = TRUE /\ entry[o].version < reader[r].since[o] =>
      DeadFor(r, o) \/ (Bypassed(o[2]) /\ Away(r, o))
ReadInv == SincePast /\ FillFresh /\ OutOfReach
-----------------------------------------------------------------------------
(* Generations.                                                             *)
LEMMA GenFacts ==
  /\ NoGen \notin Gens /\ NoGen[1] = 0 /\ NoGen[2] = 0
  /\ \A g \in Gens : g[1] \in Nat /\ g[1] >= 1 /\ g[1] <= MaxRestarts + 1
                     /\ g[2] \in Nat /\ g[2] <= MaxChanges
  /\ \A a, b \in Nat : a >= 1 /\ a <= MaxRestarts + 1 /\ b <= MaxChanges => <<a, b>> \in Gens
  /\ \A a, b : <<a, b>>[1] = a /\ <<a, b>>[2] = b
  /\ \A g, h \in Gens \cup {NoGen} : g[1] = h[1] /\ g[2] = h[2] => g = h
<1>1. /\ NoGen \notin Gens /\ NoGen[1] = 0 /\ NoGen[2] = 0
  BY BoundsAssumption DEF Gens, NoGen
<1>2. \A g \in Gens : g[1] \in Nat /\ g[1] >= 1 /\ g[1] <= MaxRestarts + 1
                     /\ g[2] \in Nat /\ g[2] <= MaxChanges
  BY BoundsAssumption DEF Gens
<1>3. \A a, b \in Nat : a >= 1 /\ a <= MaxRestarts + 1 /\ b <= MaxChanges => <<a, b>> \in Gens
  BY BoundsAssumption DEF Gens
<1>4. \A a, b : <<a, b>>[1] = a /\ <<a, b>>[2] = b
  OBVIOUS
<1>5. \A g, h \in Gens \cup {NoGen} : g[1] = h[1] /\ g[2] = h[2] => g = h
  BY DEF Gens, NoGen
<1> QED
  BY <1>1, <1>2, <1>3, <1>4, <1>5

(* The parts of any generation are numbers, and the order is one.           *)
LEMMA GenParts == \A g \in Gens \cup {NoGen} : g[1] \in Nat /\ g[2] \in Nat
BY GenFacts

LEMMA OrderFacts ==
  /\ \A g \in Gens \cup {NoGen} : Leq(g, g) /\ ~Lt(g, g)
  /\ \A g, h \in Gens \cup {NoGen} : Leq(g, h) <=> Lt(g, h) \/ g = h
  /\ \A g, h, k \in Gens \cup {NoGen} : Leq(g, h) /\ Leq(h, k) => Leq(g, k)
  /\ \A g, h, k \in Gens \cup {NoGen} : Lt(g, h) /\ Leq(h, k) => Lt(g, k)
  /\ \A g, h, k \in Gens \cup {NoGen} : Leq(g, h) /\ Lt(h, k) => Lt(g, k)
<1>1. \A g \in Gens \cup {NoGen} : Leq(g, g) /\ ~Lt(g, g)
  BY GenParts DEF Leq, Lt
<1>2. \A g, h \in Gens \cup {NoGen} : Leq(g, h) <=> Lt(g, h) \/ g = h
  BY GenParts, GenFacts DEF Leq, Lt
<1>3. \A g, h, k \in Gens \cup {NoGen} : Leq(g, h) /\ Leq(h, k) => Leq(g, k)
  BY GenParts DEF Leq
<1>4. \A g, h, k \in Gens \cup {NoGen} : Lt(g, h) /\ Leq(h, k) => Lt(g, k)
  BY GenParts DEF Leq, Lt
<1>5. \A g, h, k \in Gens \cup {NoGen} : Leq(g, h) /\ Lt(h, k) => Lt(g, k)
  BY GenParts DEF Leq, Lt
<1> QED
  BY <1>1, <1>2, <1>3, <1>4, <1>5

(* The current generation of a node.                                        *)
LEMMA CurrentIs ==
  ASSUME TypeOK
  PROVE  /\ \A n \in Nodes : Current(n) \in Gens
         /\ \A n \in Nodes : gen[n] \in Gens \cup {NoGen} /\ local[n] \in Gens \cup {NoGen}
         /\ \A n \in Nodes : Current(n) = gen[n] \/ Current(n) = local[n] \/ Current(n)[2] = 0
<1>1. \A n \in Nodes : gen[n] \in Gens \cup {NoGen} /\ local[n] \in Gens \cup {NoGen}
  BY DEF TypeOK, GenMaps
<1>2. <<epoch, 0>> \in Gens /\ <<epoch, 0>>[2] = 0
  BY GenFacts, BoundsAssumption DEF TypeOK
<1> QED
  BY <1>1, <1>2 DEF Current

(* A generation that is remembered, or put back, is the current one.        *)
LEMMA RememberKeeps ==
  ASSUME TypeOK, NEW S \in SUBSET Nodes, Remember(S), PutBack(S) \/ gen' = gen, epoch' = epoch
  PROVE  /\ \A n \in Nodes : Current(n)' = Current(n)
         /\ gen' \in GenMaps /\ local' \in GenMaps
         /\ \A n \in Nodes : gen'[n] \in {gen[n], Current(n)} /\ local'[n] \in {local[n], Current(n)}
         /\ GenOrder => GenOrder'
<1>1. \A n \in Nodes : local'[n] = IF n \in S THEN Current(n) ELSE local[n]
  BY DEF Remember
<1>2. \A n \in Nodes : Current(n) # NoGen /\ Current(n) \in Gens
  BY CurrentIs, GenFacts
<1>3. \A n \in Nodes : gen'[n] = gen[n] \/ (n \in S /\ gen'[n] = Current(n))
  BY DEF PutBack
<1>4. gen' \in GenMaps /\ local' \in GenMaps
  BY <1>2 DEF Remember, PutBack, GenMaps, TypeOK
<1>5. \A n \in Nodes : Current(n)' = Current(n)
  <2> SUFFICES ASSUME NEW n \in Nodes PROVE Current(n)' = Current(n)
    OBVIOUS
  <2>1. CASE gen[n] # NoGen
    BY <2>1, <1>2, <1>3 DEF Current
  <2>2. CASE gen[n] = NoGen
    BY <2>2, <1>1, <1>2, <1>3 DEF Current
  <2> QED
    BY <2>1, <2>2
<1>6. ASSUME GenOrder PROVE GenOrder'
  <2> SUFFICES ASSUME NEW n \in Nodes
               PROVE  /\ gen'[n][1] <= epoch /\ local'[n][1] <= epoch
                      /\ gen'[n] # NoGen => IF local'[n] # NoGen THEN Leq(gen'[n], local'[n])
                                            ELSE gen'[n][1] < epoch
    BY DEF GenOrder, Leq
  <2>1. Current(n)[1] <= epoch
    BY <1>6, GenFacts DEF Current, GenOrder, TypeOK
  <2>2. CASE n \in S
    <3>1. local'[n] = Current(n) /\ gen'[n] \in {gen[n], Current(n)}
      BY <2>2, <1>1, <1>3
    <3>2. gen'[n] # NoGen => gen'[n] = Current(n)
      BY <3>1 DEF Current
    <3>3. gen'[n][1] <= epoch
      BY <2>1, <3>1, <1>6 DEF GenOrder
    <3> QED
      BY <2>1, <3>1, <3>2, <3>3, <1>2, OrderFacts
  <2>3. CASE n \notin S
    BY <2>3, <1>1, <1>3, <1>6 DEF GenOrder
  <2> QED
    BY <2>2, <2>3
<1> QED
  BY <1>1, <1>3, <1>4, <1>5, <1>6
-----------------------------------------------------------------------------
(* Objects, calls and sequences of calls.                                   *)
LEMMA PolicyFacts ==
  ASSUME TypeOK
  PROVE  /\ policy \subseteq Objects /\ policy # {}
         /\ \A o \in policy : o[2] \in Nodes /\ Scopes[o[2]] \subseteq Nodes /\ o[2] \in Scopes[o[2]]
<1>1. policy \in SUBSET Objects /\ policy # {}
  BY PolicyAssumption DEF TypeOK
<1>2. \A o \in Objects : o[2] \in Nodes
  BY DEF Objects
<1>3. \A n \in Nodes : Scopes[n] \subseteq Nodes /\ n \in Scopes[n]
  BY TreeAssumption
<1> QED
  BY <1>1, <1>2, <1>3

LEMMA CallFacts ==
  \A c \in Calls :
    \/ c.do = "bump" /\ c.at \in Nodes
    \/ c.do = "delete" /\ c.at \in policy
    \/ c.do = "fill" /\ c.at \in policy /\ c.version \in Versions
BY DEF Calls

LEMMA TailFacts ==
  ASSUME NEW C, NEW s \in Seq(C), s # <<>>
  PROVE  /\ Tail(s) \in Seq(C) /\ Head(s) \in C /\ Head(s) = s[1] /\ 1 \in DOMAIN s
         /\ \A i \in DOMAIN Tail(s) : i + 1 \in DOMAIN s /\ i \in Nat /\ Tail(s)[i] = s[i + 1]
         /\ \A i \in DOMAIN s : i # 1 => i - 1 \in DOMAIN Tail(s) /\ i \in Nat /\ Tail(s)[i - 1] = s[i]
<1>1. Tail(s) \in Seq(C) /\ Head(s) \in C /\ Head(s) = s[1] /\ 1 \in DOMAIN s
  OBVIOUS
<1>2. Len(s) \in Nat /\ Len(s) # 0 /\ DOMAIN s = 1 .. Len(s)
  OBVIOUS
<1>3. Len(Tail(s)) = Len(s) - 1 /\ DOMAIN Tail(s) = 1 .. Len(s) - 1
  BY <1>1, <1>2
<1>4. \A i \in DOMAIN Tail(s) : i + 1 \in DOMAIN s /\ i \in Nat /\ Tail(s)[i] = s[i + 1]
  BY <1>2, <1>3
<1>5. \A i \in DOMAIN s : i # 1 => i - 1 \in DOMAIN Tail(s) /\ i \in Nat /\ Tail(s)[i - 1] = s[i]
  BY <1>2, <1>3, <1>4
<1> QED
  BY <1>1, <1>4, <1>5

(* What a sequence of calls still has to forget.                            *)
LEMMA OwedTail ==
  ASSUME NEW C, NEW s \in Seq(C), s # <<>>
  PROVE  Owed(s) = Forgets(Head(s)) \cup Owed(Tail(s))
<1>1. \A o : o \in Owed(s) => o \in Forgets(Head(s)) \cup Owed(Tail(s))
  <2> SUFFICES ASSUME NEW o, NEW i \in DOMAIN s, o \in Forgets(s[i])
               PROVE  o \in Forgets(Head(s)) \cup Owed(Tail(s))
    BY DEF Owed
  <2>1. CASE i = 1
    BY <2>1, TailFacts
  <2>2. CASE i # 1
    <3>1. i - 1 \in DOMAIN Tail(s) /\ Tail(s)[i - 1] = s[i]
      BY <2>2, TailFacts
    <3> QED
      BY <3>1 DEF Owed
  <2> QED
    BY <2>1, <2>2
<1>2. \A o : o \in Forgets(Head(s)) \cup Owed(Tail(s)) => o \in Owed(s)
  <2>1. \A o : o \in Forgets(Head(s)) => o \in Owed(s)
    BY TailFacts DEF Owed
  <2>2. \A o : o \in Owed(Tail(s)) => o \in Owed(s)
    BY TailFacts DEF Owed
  <2> QED
    BY <2>1, <2>2
<1> QED
  BY <1>1, <1>2
-----------------------------------------------------------------------------
(* What the calls of the cache do, whoever makes them.                      *)

(* No generation goes back, no path comes back from the bypass, and what is *)
(* put into the cache is under the current generations; the generations of  *)
(* the nodes B may be bumped once.                                          *)
NewEntry(p) == entry'[p].on = TRUE /\ entry'[p] # entry[p]
Steady(B) ==
  \A n \in Nodes :
    /\ gen'[n] \in {gen[n], Current(n), NoGen} \/ (n \in B /\ gen'[n] = BumpedTo(n))
    /\ local'[n] \in {local[n], Current(n), NoGen} \/ (n \in B /\ local'[n] = BumpedTo(n))
Effect ==
  /\ entry' \in [policy -> Entries] /\ gen' \in GenMaps /\ local' \in GenMaps
  /\ bypass' \subseteq Nodes
  /\ \A n \in Nodes : Leq(Current(n), Current(n)')
  /\ \A n \in Nodes : Bypassed(n) => Bypassed(n)'
  /\ GenOrder'
  /\ \A p \in policy : NewEntry(p) => \A n \in Scopes[p[2]] : entry'[p].gens[n] = Current(n)'
Fills(o, v) == \A p \in policy : NewEntry(p) => p = o /\ entry'[p].version = v
NoFill == \A p \in policy : ~NewEntry(p)

(* bump_generation.                                                         *)
LEMMA BumpMoves ==
  ASSUME TypeOK, GenOrder, NEW n \in Nodes, Current(n)[2] < MaxChanges, epoch' = epoch,
         local' = [local EXCEPT ![n] = BumpedTo(n)],
         \/ gen' = gen \/ gen' = [gen EXCEPT ![n] = BumpedTo(n)]
         \/ gen' = [gen EXCEPT ![n] = Current(n)]
  PROVE  /\ gen' \in GenMaps /\ local' \in GenMaps /\ GenOrder'
         /\ \A m \in Nodes : Leq(Current(m), Current(m)')
         /\ gen' = [gen EXCEPT ![n] = BumpedTo(n)] => Lt(Current(n), Current(n)')
         /\ Steady({n})
<1> DEFINE b == BumpedTo(n)
<1>1. b \in Gens /\ b # NoGen /\ b[1] = Current(n)[1] /\ b[2] = Current(n)[2] + 1
  <2> DEFINE x == Current(n)[1]
             y == Current(n)[2] + 1
  <2>1. x \in Nat /\ y \in Nat /\ x >= 1 /\ x <= MaxRestarts + 1 /\ y <= MaxChanges
    BY CurrentIs, GenFacts, BoundsAssumption
  <2>2. b = <<x, y>>
    BY DEF BumpedTo
  <2> HIDE DEF x, y, b
  <2>3. b \in Gens /\ b[1] = x /\ b[2] = y
    BY <2>1, <2>2, GenFacts
  <2> QED
    BY <2>3, GenFacts DEF x, y
<1>2. Lt(Current(n), b) /\ Leq(Current(n), b)
  BY <1>1, CurrentIs, GenFacts DEF Lt, Leq
<1>3. \A m \in Nodes : /\ local'[m] = IF m = n THEN b ELSE local[m]
                       /\ gen'[m] = gen[m] \/ (m = n /\ gen'[m] \in {b, Current(n)})
  BY DEF TypeOK, GenMaps
<1>c. Current(n) \in Gens /\ Current(n) # NoGen
  BY CurrentIs, GenFacts
<1>4. gen' \in GenMaps /\ local' \in GenMaps
  BY <1>1, <1>c DEF TypeOK, GenMaps
<1>5. gen' = [gen EXCEPT ![n] = BumpedTo(n)] => gen'[n] = b
  BY DEF TypeOK, GenMaps
<1> HIDE DEF b
<1>6. \A m \in Nodes : m # n => Current(m)' = Current(m)
  BY <1>3 DEF Current
<1>7. /\ gen'[n] # NoGen => Current(n)' = gen'[n]
      /\ Current(n)' = b \/ Current(n)' = Current(n)
  BY <1>1, <1>3, <1>c DEF Current
<1>8. \A m \in Nodes : Leq(Current(m), Current(m)')
  BY <1>2, <1>6, <1>7, CurrentIs, OrderFacts
<1>9. gen' = [gen EXCEPT ![n] = BumpedTo(n)] => Lt(Current(n), Current(n)')
  BY <1>1, <1>2, <1>5, <1>7 DEF Current
<1>10. GenOrder'
  <2> SUFFICES ASSUME NEW m \in Nodes
               PROVE  /\ gen'[m][1] <= epoch /\ local'[m][1] <= epoch
                      /\ gen'[m] # NoGen => IF local'[m] # NoGen THEN Leq(gen'[m], local'[m])
                                            ELSE gen'[m][1] < epoch
    BY DEF GenOrder, Leq
  <2>1. CASE m # n
    BY <2>1, <1>3 DEF GenOrder
  <2>2. CASE m = n
    <3>1. Current(n)[1] <= epoch
      BY GenFacts DEF Current, GenOrder, TypeOK
    <3>2. local'[n] = b /\ b # NoGen /\ b[1] <= epoch /\ gen'[n] \in {gen[n], b, Current(n)}
      BY <3>1, <1>1, <1>3
    <3>3. gen[n] # NoGen => gen[n] = Current(n)
      BY DEF Current
    <3>4. Leq(b, b)
      BY <1>1, OrderFacts
    <3>5. gen[n][1] <= epoch
      BY DEF GenOrder
    <3> QED
      BY <2>2, <3>1, <3>2, <3>3, <3>4, <3>5, <1>2
  <2> QED
    BY <2>1, <2>2
<1>11. Steady({n})
  BY <1>3 DEF Steady, b
<1> QED
  BY <1>4, <1>8, <1>9, <1>10, <1>11

(* mark_bypass: a scope that goes is covered by the one that comes.         *)
LEMMA BypassGrows ==
  ASSUME TypeOK, NEW n \in Nodes, MarkBypass(n)
  PROVE  /\ bypass' \subseteq Nodes
         /\ \A m \in Nodes : Bypassed(m) => Bypassed(m)'
         /\ \A m \in Nodes : n \in Scopes[m] => Bypassed(m)'
<1>1. bypass' \subseteq Nodes
  BY DEF MarkBypass, TypeOK
<1>2. CASE Bypassed(n)
  <2>1. bypass' = bypass
    BY <1>2 DEF MarkBypass
  <2>2. ASSUME NEW m \in Nodes, n \in Scopes[m] PROVE Scopes[n] \subseteq Scopes[m]
    BY <2>2, TreeAssumption
  <2> QED
    BY <1>1, <1>2, <2>1, <2>2 DEF Bypassed
<1>3. CASE ~Bypassed(n)
  <2>1. bypass' = {s \in bypass : n \notin Scopes[s]} \cup {n}
    BY <1>3 DEF MarkBypass
  <2>2. \A m \in Nodes : n \in Scopes[m] => Bypassed(m)'
    BY <2>1 DEF Bypassed
  <2>3. ASSUME NEW m \in Nodes, NEW s \in bypass \cap Scopes[m] PROVE Bypassed(m)'
    <3>1. CASE n \notin Scopes[s]
      BY <2>1, <2>3, <3>1 DEF Bypassed
    <3>2. CASE n \in Scopes[s]
      <4>1. s \in Nodes /\ n \in Scopes[m]
        BY <2>3, <3>2, TreeAssumption DEF TypeOK
      <4> QED
        BY <2>2, <4>1
    <3> QED
      BY <3>1, <3>2
  <2> QED
    BY <1>1, <2>2, <2>3 DEF Bypassed
<1> QED
  BY <1>2, <1>3

LEMMA SameGens ==
  ASSUME TypeOK, GenOrder, UNCHANGED <<gen, local, epoch>>
  PROVE  /\ gen' \in GenMaps /\ local' \in GenMaps /\ GenOrder' /\ Steady({})
         /\ \A n \in Nodes : Current(n)' = Current(n) /\ Leq(Current(n), Current(n)')
<1>1. \A n \in Nodes : Current(n)' = Current(n)
  BY DEF Current
<1>2. \A n \in Nodes : Leq(Current(n), Current(n)')
  BY <1>1, CurrentIs, OrderFacts
<1>3. GenOrder'
  BY DEF GenOrder, Leq
<1> QED
  BY <1>1, <1>2, <1>3 DEF TypeOK, Steady

LEMMA SameBypass ==
  ASSUME TypeOK, bypass' = bypass
  PROVE  bypass' \subseteq Nodes /\ \A n \in Nodes : Bypassed(n) => Bypassed(n)'
BY DEF TypeOK, Bypassed

(* The envelope of an object.                                               *)
LEMMA EnvelopeIs ==
  ASSUME TypeOK, NEW o \in policy, NEW v \in Versions
  PROVE  /\ Envelope(o, v) \in Entries /\ Envelope(o, v).on = TRUE
         /\ Envelope(o, v).version = v
         /\ \A n \in Scopes[o[2]] : Envelope(o, v).gens[n] = Current(n)
<1> DEFINE g == [n \in Nodes |-> IF n \in Scopes[o[2]] THEN Current(n) ELSE NoGen]
<1>1. g \in GenMaps
  BY CurrentIs DEF GenMaps
<1>2. \A n \in Scopes[o[2]] : g[n] = Current(n)
  BY PolicyFacts
<1>3. Envelope(o, v) = [on |-> TRUE, version |-> v, gens |-> g]
  BY DEF Envelope
<1> HIDE DEF g
<1>4. [on |-> TRUE, version |-> v, gens |-> g] \in Entries
  BY <1>1, Zenon DEF Entries
<1> QED
  BY <1>2, <1>3, <1>4

LEMMA NoEntryType == NoEntry \in Entries /\ NoEntry.on = FALSE
<1>1. NoGens \in GenMaps /\ 0 \in Versions
  BY BoundsAssumption DEF NoGens, GenMaps, Versions
<1>2. NoEntry \in Entries
  BY <1>1, Zenon DEF NoEntry, Entries
<1> QED
  BY <1>2 DEF NoEntry

(* The object keys stay, one goes, or one is put.                           *)
LEMMA EntryKept ==
  ASSUME TypeOK, entry' = entry
  PROVE  entry' \in [policy -> Entries] /\ NoFill
BY DEF TypeOK, NoFill, NewEntry

LEMMA EntryRemoved ==
  ASSUME TypeOK, NEW o \in policy, entry' = Removed(o)
  PROVE  entry' \in [policy -> Entries] /\ NoFill /\ entry'[o].on = FALSE
<1>1. \A p \in policy : entry'[p] = IF p = o THEN NoEntry ELSE entry[p]
  BY DEF Removed
<1>2. entry' \in [policy -> Entries]
  BY NoEntryType DEF Removed, TypeOK
<1> QED
  BY <1>1, <1>2, NoEntryType DEF NoFill, NewEntry

LEMMA EntryPut ==
  ASSUME TypeOK, NEW o \in policy, NEW v \in Versions,
         entry' = [entry EXCEPT ![o] = Envelope(o, v)],
         \A n \in Nodes : Current(n)' = Current(n)
  PROVE  /\ entry' \in [policy -> Entries] /\ Fills(o, v)
         /\ \A p \in policy : NewEntry(p) => \A n \in Scopes[p[2]] : entry'[p].gens[n] = Current(n)'
<1> DEFINE e == Envelope(o, v)
<1>1. \A p \in policy : entry'[p] = IF p = o THEN e ELSE entry[p]
  BY DEF TypeOK
<1>2. entry' \in [policy -> Entries]
  BY EnvelopeIs DEF TypeOK
<1>3. e.version = v /\ \A n \in Scopes[o[2]] : e.gens[n] = Current(n) /\ n \in Nodes
  BY EnvelopeIs, PolicyFacts
<1> HIDE DEF e
<1> QED
  BY <1>1, <1>2, <1>3 DEF Fills, NewEntry

(* fill_file and fill_directory.                                            *)
LEMMA PutEffect ==
  ASSUME TypeOK, GenOrder, NEW o \in policy, NEW v \in Versions, epoch' = epoch,
         Put(o, v) \/ PutFails(o, v)
  PROVE  Effect /\ Fills(o, v) /\ Steady({})
<1>1. o[2] \in Nodes /\ Scopes[o[2]] \in SUBSET Nodes
  BY PolicyFacts
<1>2. Remember(Scopes[o[2]]) /\ (PutBack(Scopes[o[2]]) \/ gen' = gen)
  BY DEF Put, PutFails
<1>3. /\ \A n \in Nodes : Current(n)' = Current(n)
      /\ gen' \in GenMaps /\ local' \in GenMaps /\ GenOrder'
      /\ \A n \in Nodes : gen'[n] \in {gen[n], Current(n)} /\ local'[n] \in {local[n], Current(n)}
  BY <1>1, <1>2, RememberKeeps
<1>4. \A n \in Nodes : Leq(Current(n), Current(n)')
  BY <1>3, CurrentIs, OrderFacts
<1>5. bypass' \subseteq Nodes /\ \A n \in Nodes : Bypassed(n) => Bypassed(n)'
  BY <1>1, BypassGrows, SameBypass DEF Put, PutFails
<1>6. entry' = entry \/ entry' = [entry EXCEPT ![o] = Envelope(o, v)]
  BY DEF Put, PutFails
<1>7. /\ entry' \in [policy -> Entries] /\ Fills(o, v)
      /\ \A p \in policy : NewEntry(p) => \A n \in Scopes[p[2]] : entry'[p].gens[n] = Current(n)'
  BY <1>3, <1>6, EntryPut, EntryKept DEF NoFill, Fills
<1>8. Steady({})
  BY <1>3 DEF Steady
<1> QED
  BY <1>3, <1>4, <1>5, <1>7, <1>8 DEF Effect

(* A call forgets what it is to forget, or leaves it bypassed.              *)
Gone(o) ==
  \/ entry'[o].on = FALSE
  \/ Bypassed(o[2])'
  \/ \E n \in Scopes[o[2]] : Lt(Current(n), Current(n)')

LEMMA CallEffect ==
  ASSUME TypeOK, GenOrder, NEW c \in Calls, c.do = "bump" => Current(c.at)[2] < MaxChanges,
         epoch' = epoch, Perform(c) \/ PerformFails(c)
  PROVE  /\ Effect /\ Steady(IF c.do = "bump" THEN {c.at} ELSE {})
         /\ IF c.do = "fill" THEN Fills(c.at, c.version) ELSE NoFill
         /\ \A o \in Forgets(c) : Gone(o)
<1>1. CASE c.do = "bump"
  <2>1. c.at \in Nodes
    BY <1>1, CallFacts
  <2>2. entry' \in [policy -> Entries] /\ NoFill
    BY <1>1, EntryKept DEF Perform, PerformFails
  <2>3. \A o \in Forgets(c) : o \in policy /\ c.at \in Scopes[o[2]] /\ o[2] \in Nodes
    BY <1>1, PolicyFacts DEF Forgets, Under
  <2>4. CASE Perform(c)
    <3>1. /\ local' = [local EXCEPT ![c.at] = BumpedTo(c.at)]
          /\ gen' = [gen EXCEPT ![c.at] = BumpedTo(c.at)] /\ bypass' = bypass
      BY <1>1, <2>4 DEF Perform
    <3>2. /\ gen' \in GenMaps /\ local' \in GenMaps /\ GenOrder' /\ Steady({c.at})
          /\ \A m \in Nodes : Leq(Current(m), Current(m)')
          /\ Lt(Current(c.at), Current(c.at)')
      BY <1>1, <2>1, <3>1, BumpMoves
    <3>3. bypass' \subseteq Nodes /\ \A n \in Nodes : Bypassed(n) => Bypassed(n)'
      BY <3>1, SameBypass
    <3> QED
      BY <1>1, <2>2, <2>3, <3>2, <3>3 DEF Effect, NoFill, Gone
  <2>5. CASE PerformFails(c)
    <3>1. /\ MarkBypass(c.at)
          /\ \/ UNCHANGED <<local, gen>>
             \/ /\ local' = [local EXCEPT ![c.at] = BumpedTo(c.at)]
                /\ \/ gen' = gen \/ gen' = [gen EXCEPT ![c.at] = BumpedTo(c.at)]
                   \/ gen' = [gen EXCEPT ![c.at] = Current(c.at)]
      BY <1>1, <2>5 DEF PerformFails
    <3>2. /\ bypass' \subseteq Nodes /\ \A n \in Nodes : Bypassed(n) => Bypassed(n)'
          /\ \A m \in Nodes : c.at \in Scopes[m] => Bypassed(m)'
      BY <2>1, <3>1, BypassGrows
    <3>3. /\ gen' \in GenMaps /\ local' \in GenMaps /\ GenOrder' /\ Steady({c.at})
          /\ \A m \in Nodes : Leq(Current(m), Current(m)')
      <4>1. CASE UNCHANGED <<local, gen>>
        BY <4>1, SameGens DEF Steady
      <4>2. CASE /\ local' = [local EXCEPT ![c.at] = BumpedTo(c.at)]
                 /\ \/ gen' = gen \/ gen' = [gen EXCEPT ![c.at] = BumpedTo(c.at)]
                    \/ gen' = [gen EXCEPT ![c.at] = Current(c.at)]
        BY <1>1, <2>1, <4>2, BumpMoves
      <4> QED
        BY <3>1, <4>1, <4>2
    <3> QED
      BY <1>1, <2>2, <2>3, <3>2, <3>3 DEF Effect, NoFill, Gone
  <2> QED
    BY <2>4, <2>5
<1>2. CASE c.do = "delete"
  <2>1. c.at \in policy /\ c.at[2] \in Nodes /\ c.at[2] \in Scopes[c.at[2]]
    BY <1>2, CallFacts, PolicyFacts
  <2>2. /\ UNCHANGED <<gen, local>>
        /\ \/ entry' = Removed(c.at) /\ bypass' = bypass
           \/ entry' \in {entry, Removed(c.at)} /\ MarkBypass(c.at[2])
    BY <1>2 DEF Perform, PerformFails
  <2>3. entry' \in [policy -> Entries] /\ NoFill
    BY <2>1, <2>2, EntryKept, EntryRemoved
  <2>4. /\ gen' \in GenMaps /\ local' \in GenMaps /\ GenOrder' /\ Steady({})
        /\ \A n \in Nodes : Leq(Current(n), Current(n)')
    BY <2>2, SameGens
  <2>5. bypass' \subseteq Nodes /\ \A n \in Nodes : Bypassed(n) => Bypassed(n)'
    BY <2>1, <2>2, BypassGrows, SameBypass
  <2>6. Gone(c.at)
    BY <2>1, <2>2, EntryRemoved, BypassGrows DEF Gone
  <2> QED
    BY <1>2, <2>3, <2>4, <2>5, <2>6 DEF Effect, NoFill, Forgets
<1>3. CASE c.do = "fill"
  <2>1. c.at \in policy /\ c.version \in Versions
    BY <1>3, CallFacts
  <2>2. CASE UNCHANGED <<entry, gen, local, bypass>>
    BY <1>3, <2>2, EntryKept, SameGens, SameBypass DEF Effect, NoFill, Fills, Forgets
  <2>3. CASE Put(c.at, c.version) \/ PutFails(c.at, c.version)
    BY <1>3, <2>1, <2>3, PutEffect DEF Forgets
  <2> QED
    BY <1>3, <2>2, <2>3 DEF Perform, PerformFails
<1> QED
  BY <1>1, <1>2, <1>3, CallFacts

(* probe_file and probe_directory.                                          *)
LEMMA ProbeEffect ==
  ASSUME TypeOK, GenOrder, NEW r \in Readers, Probe(r)
  PROVE  Effect /\ NoFill /\ Steady({})
<1>1. reader[r].obj \in policy /\ reader[r].obj[2] \in Nodes /\ epoch' = epoch
  BY PolicyFacts DEF TypeOK, ReaderStates, Probe
<1>2. Unseen(r) \in SUBSET Nodes
  BY <1>1, PolicyFacts DEF Unseen
<1>3. entry' \in {entry, Removed(reader[r].obj)}
  BY DEF Probe, Absent, Present, Hit, Drop, DropFails
<1>4. bypass' = bypass \/ MarkBypass(reader[r].obj[2])
  BY DEF Probe, Absent, Present, Hit, Drop, DropFails, MissBypassed
<1>5. \/ UNCHANGED <<gen, local>>
      \/ Remember(Unseen(r)) /\ (PutBack(Unseen(r)) \/ gen' = gen)
  BY DEF Probe, Absent, Present
<1>6. entry' \in [policy -> Entries] /\ NoFill
  BY <1>1, <1>3, EntryKept, EntryRemoved
<1>7. bypass' \subseteq Nodes /\ \A n \in Nodes : Bypassed(n) => Bypassed(n)'
  BY <1>1, <1>4, BypassGrows, SameBypass
<1>8. /\ gen' \in GenMaps /\ local' \in GenMaps /\ GenOrder' /\ Steady({})
      /\ \A n \in Nodes : Current(n)' = Current(n)
  <2>1. CASE UNCHANGED <<gen, local>>
    BY <2>1, <1>1, SameGens
  <2>2. CASE Remember(Unseen(r)) /\ (PutBack(Unseen(r)) \/ gen' = gen)
    BY <2>2, <1>1, <1>2, RememberKeeps DEF Steady
  <2> QED
    BY <2>1, <2>2, <1>5
<1>9. \A n \in Nodes : Leq(Current(n), Current(n)')
  BY <1>8, CurrentIs, OrderFacts
<1> QED
  BY <1>6, <1>7, <1>8, <1>9 DEF Effect, NoFill

(* The provider loses a generation: the remembered one counts, or the epoch. *)
LEMMA LoseGen ==
  ASSUME TypeOK, GenOrder, NEW n \in Nodes, gen' = [gen EXCEPT ![n] = NoGen],
         UNCHANGED <<local, epoch>>
  PROVE  /\ gen' \in GenMaps /\ local' \in GenMaps /\ GenOrder' /\ Steady({})
         /\ \A m \in Nodes : Leq(Current(m), Current(m)')
<1>1. \A m \in Nodes : gen'[m] = IF m = n THEN NoGen ELSE gen[m]
  BY DEF TypeOK, GenMaps
<1>2. gen' \in GenMaps /\ local' \in GenMaps
  BY DEF TypeOK, GenMaps
<1>3. \A m \in Nodes : m # n => Current(m)' = Current(m)
  BY <1>1 DEF Current
<1>4. Leq(Current(n), Current(n)')
  <2>1. Current(n)' = IF local[n] # NoGen THEN local[n] ELSE <<epoch, 0>>
    BY <1>1 DEF Current
  <2>2. CASE gen[n] = NoGen
    BY <2>1, <2>2, CurrentIs, OrderFacts DEF Current
  <2>3. CASE gen[n] # NoGen /\ local[n] # NoGen
    BY <2>1, <2>3 DEF Current, GenOrder
  <2>4. CASE gen[n] # NoGen /\ local[n] = NoGen
    BY <2>1, <2>4, GenFacts DEF Current, GenOrder, Leq
  <2> QED
    BY <2>2, <2>3, <2>4
<1>5. \A m \in Nodes : Leq(Current(m), Current(m)')
  BY <1>3, <1>4, CurrentIs, OrderFacts
<1>6. GenOrder'
  BY <1>1, GenFacts DEF GenOrder, TypeOK, Leq
<1>7. Steady({})
  BY <1>1 DEF Steady
<1> QED
  BY <1>2, <1>5, <1>6, <1>7

LEMMA EvictEffect ==
  ASSUME TypeOK, GenOrder, Evict
  PROVE  Effect /\ NoFill /\ Steady({})
<1>1. epoch' = epoch /\ bypass' = bypass /\ local' = local
  BY DEF Evict
<1>2. CASE UNCHANGED gen /\ \E o \in policy : entry' = Removed(o)
  BY <1>1, <1>2, SameGens, SameBypass, EntryRemoved DEF Effect, NoFill
<1>3. CASE UNCHANGED entry /\ \E n \in Nodes : gen' = [gen EXCEPT ![n] = NoGen]
  BY <1>1, <1>3, LoseGen, SameBypass, EntryKept DEF Effect, NoFill
<1> QED
  BY <1>2, <1>3 DEF Evict

(* A restart forgets the remembered generations, not the provider's; a new  *)
(* epoch is ahead of all.                                                   *)
LEMMA RestartGens ==
  ASSUME TypeOK, GenOrder, Restart, EpochIs
  PROVE  /\ gen' \in GenMaps /\ local' \in GenMaps /\ GenOrder' /\ Steady({})
         /\ \A m \in Nodes : Leq(Current(m), Current(m)')
         /\ epoch' \in 1 .. MaxRestarts + 1
<1>1. gen' = gen /\ epoch' = epoch + 1 /\ \A n \in Nodes : local'[n] = NoGen
  BY DEF Restart, NoGens
<1>2. gen' \in GenMaps /\ local' \in GenMaps
  BY DEF TypeOK, GenMaps, Restart, NoGens
<1>3. epoch \in Nat /\ restarts < MaxRestarts /\ restarts \in Nat
  BY DEF TypeOK, Restart
<1>4. epoch' \in 1 .. MaxRestarts + 1
  BY <1>1, <1>3, BoundsAssumption DEF EpochIs
<1>5. \A n \in Nodes : Current(n)[1] <= epoch
  BY GenFacts, <1>3 DEF Current, GenOrder
<1>6. \A n \in Nodes : gen[n][1] \in Nat /\ Current(n)[1] \in Nat
  BY CurrentIs, GenParts
<1>7. GenOrder'
  BY <1>1, <1>3, <1>6, GenFacts DEF GenOrder, Leq
<1>8. ASSUME NEW n \in Nodes PROVE Leq(Current(n), Current(n)')
  <2>1. CASE gen[n] # NoGen
    BY <2>1, <1>1, CurrentIs, OrderFacts DEF Current
  <2>2. CASE gen[n] = NoGen
    <3>1. Current(n)' = <<epoch + 1, 0>>
      BY <2>2, <1>1 DEF Current
    <3>2. Current(n)'[1] = epoch + 1
      BY <3>1
    <3> QED
      BY <3>2, <1>3, <1>5, <1>6 DEF Leq
  <2> QED
    BY <2>1, <2>2
<1>9. Steady({})
  BY <1>1 DEF Steady
<1> QED
  BY <1>2, <1>4, <1>7, <1>8, <1>9
-----------------------------------------------------------------------------
(* The state of a reader, field by field.                                   *)
State(p, o, s, m, l, d, g) ==
  [pc |-> p, obj |-> o, since |-> s, memo |-> m, lock |-> l, leader |-> d, got |-> g]

LEMMA ReaderFields ==
  ASSUME TypeOK, NEW r \in Readers
  PROVE  /\ reader[r].pc \in ReaderPCs /\ reader[r].obj \in policy
         /\ reader[r].since \in [policy -> Versions] /\ reader[r].memo \in GenMaps
         /\ reader[r].lock \in Locks \cup {0} /\ reader[r].leader \in BOOLEAN
         /\ reader[r].got \in Versions
         /\ reader[r] = State(reader[r].pc, reader[r].obj, reader[r].since, reader[r].memo,
                              reader[r].lock, reader[r].leader, reader[r].got)
<1>1. reader[r] \in ReaderStates
  BY DEF TypeOK
<1>2. \A x \in ReaderStates :
         /\ x.pc \in ReaderPCs /\ x.obj \in policy
         /\ x.since \in [policy -> Versions] /\ x.memo \in GenMaps
         /\ x.lock \in Locks \cup {0} /\ x.leader \in BOOLEAN
         /\ x.got \in Versions
  BY Zenon DEF ReaderStates
<1>3. \A x \in ReaderStates :
         x = State(x.pc, x.obj, x.since, x.memo, x.lock, x.leader, x.got)
  BY DEF ReaderStates, State
<1> QED
  BY <1>1, <1>2, <1>3

(* The reader r comes to be in a state; the others stay in theirs.          *)
Becomes(r, p, o, s, m, l, d, g) ==
  /\ reader' \in [Readers -> ReaderStates]
  /\ \A x \in Readers : x # r => reader'[x] = reader[x]
  /\ reader'[r].pc = p /\ reader'[r].obj = o /\ reader'[r].since = s /\ reader'[r].memo = m
  /\ reader'[r].lock = l /\ reader'[r].leader = d /\ reader'[r].got = g

LEMMA Moved ==
  ASSUME TypeOK, NEW r \in Readers, NEW p \in ReaderPCs, NEW o \in policy,
         NEW s \in [policy -> Versions], NEW m \in GenMaps, NEW l \in Locks \cup {0},
         NEW d, d \in BOOLEAN, NEW g \in Versions,
         reader' = [reader EXCEPT ![r] = State(p, o, s, m, l, d, g)]
  PROVE  Becomes(r, p, o, s, m, l, d, g)
<1> DEFINE y == State(p, o, s, m, l, d, g)
<1>1. y \in ReaderStates
  BY Zenon DEF State, ReaderStates
<1>2. /\ y.pc = p /\ y.obj = o /\ y.since = s /\ y.memo = m /\ y.lock = l
      /\ y.leader = d /\ y.got = g
  BY DEF State
<1> HIDE DEF y
<1>3. reader' = [reader EXCEPT ![r] = y]
  BY DEF y
<1>4. /\ reader' \in [Readers -> ReaderStates] /\ reader'[r] = y
      /\ \A x \in Readers : x # r => reader'[x] = reader[x]
  BY <1>1, <1>3 DEF TypeOK
<1> QED
  BY <1>2, <1>4 DEF Becomes

(* A reader at rest.                                                        *)
Rest == CHOOSE o \in policy : TRUE
Zero == [o \in policy |-> 0]
LEMMA IdleIs ==
  ASSUME TypeOK
  PROVE  /\ Idle = State("idle", Rest, Zero, NoGens, 0, FALSE, 0)
         /\ Rest \in policy /\ Zero \in [policy -> Versions] /\ NoGens \in GenMaps /\ 0 \in Versions
<1>1. Rest \in policy
  BY PolicyFacts DEF Rest
<1>2. 0 \in Versions
  BY BoundsAssumption DEF Versions
<1>3. Zero \in [policy -> Versions] /\ NoGens \in GenMaps
  BY <1>2 DEF Zero, NoGens, GenMaps
<1> QED
  BY <1>1, <1>2, <1>3 DEF Idle, State, Rest, Zero

(* A read takes the lock.                                                   *)
LEMMA AcquireMoves ==
  ASSUME TypeOK, NEW r \in Readers, NEW o \in policy, NEW s \in [policy -> Versions],
         NEW m \in GenMaps, Acquire(r, o, s, m)
  PROVE  Becomes(r, "probe", o, s, m, 0, FALSE, 0)
<1>1. [Idle EXCEPT !.pc = "probe", !.obj = o, !.since = s, !.memo = m]
        = State("probe", o, s, m, 0, FALSE, 0)
  <2> DEFINE i == Idle
             d == FALSE
             a == "probe"
  <2>1. i = State("idle", Rest, Zero, NoGens, 0, d, 0)
    BY IdleIs
  <2> HIDE DEF i, d, a
  <2> DEFINE x == [i EXCEPT !.pc = a]
             y == [x EXCEPT !.obj = o]
             z == [y EXCEPT !.since = s]
  <2>2. [i EXCEPT !.pc = a, !.obj = o, !.since = s, !.memo = m] = [z EXCEPT !.memo = m]
    OBVIOUS
  <2>3. x = State(a, Rest, Zero, NoGens, 0, d, 0)
    BY <2>1 DEF State
  <2> HIDE DEF x
  <2>4. y = State(a, o, Zero, NoGens, 0, d, 0)
    BY <2>3 DEF State
  <2> HIDE DEF y
  <2>5. z = State(a, o, s, NoGens, 0, d, 0)
    BY <2>4 DEF State
  <2> HIDE DEF z
  <2>6. [z EXCEPT !.memo = m] = State(a, o, s, m, 0, d, 0)
    BY <2>5 DEF State
  <2> QED
    BY <2>2, <2>6 DEF i, d, a
<1>2. reader' = [reader EXCEPT ![r] = State("probe", o, s, m, 0, FALSE, 0)]
  BY <1>1 DEF Acquire
<1> QED
  BY <1>2, Moved, IdleIs DEF ReaderPCs

(* It goes on.                                                              *)
Goes(r, p, m) ==
  Becomes(r, p, reader[r].obj, reader[r].since, m, reader[r].lock, reader[r].leader,
          reader[r].got)
LEMMA GoesOn ==
  ASSUME TypeOK, NEW r \in Readers, NEW p \in ReaderPCs, NEW m \in GenMaps,
         reader' = [reader EXCEPT ![r].pc = p, ![r].memo = m]
         \/ (reader' = [reader EXCEPT ![r].pc = p] /\ m = reader[r].memo)
         \/ reader' = [reader EXCEPT ![r] = [reader[r] EXCEPT !.pc = p, !.memo = m]]
  PROVE  Goes(r, p, m)
<1> DEFINE x == reader[r]
           y == State(p, x.obj, x.since, m, x.lock, x.leader, x.got)
<1>1. x = State(x.pc, x.obj, x.since, x.memo, x.lock, x.leader, x.got)
  BY ReaderFields
<1>2. [x EXCEPT !.pc = p, !.memo = m] = y
  <2> DEFINE z == [x EXCEPT !.pc = p]
  <2>1. [x EXCEPT !.pc = p, !.memo = m] = [z EXCEPT !.memo = m]
    OBVIOUS
  <2>2. z = State(p, x.obj, x.since, x.memo, x.lock, x.leader, x.got)
    BY <1>1 DEF State
  <2> HIDE DEF z
  <2>3. [z EXCEPT !.memo = m] = y
    BY <2>2 DEF State
  <2> QED
    BY <2>1, <2>3
<1>3. m = x.memo => [x EXCEPT !.pc = p] = y
  BY <1>1 DEF State
<1>4. reader' = [reader EXCEPT ![r] = y]
  BY <1>2, <1>3 DEF TypeOK
<1>5. y \in ReaderStates
  <2>1. /\ x.obj \in policy /\ x.since \in [policy -> Versions] /\ x.lock \in Locks \cup {0}
        /\ x.leader \in BOOLEAN /\ x.got \in Versions
    BY ReaderFields
  <2> HIDE DEF x
  <2> QED
    BY <2>1, Zenon DEF State, ReaderStates
<1>6. /\ y.pc = p /\ y.obj = x.obj /\ y.since = x.since /\ y.memo = m /\ y.lock = x.lock
      /\ y.leader = x.leader /\ y.got = x.got
  BY DEF State
<1> HIDE DEF y
<1>7. /\ reader' \in [Readers -> ReaderStates] /\ reader'[r] = y
      /\ \A v \in Readers : v # r => reader'[v] = reader[v]
  BY <1>4, <1>5 DEF TypeOK
<1> QED
  BY <1>6, <1>7 DEF Becomes, Goes

(* The read returns; a grep stays between its reads.                        *)
Ends(r, m) ==
  \/ r \in Greps /\ Becomes(r, "between", Rest, reader[r].since, m, 0, FALSE, 0)
  \/ r \notin Greps /\ Becomes(r, "idle", Rest, Zero, NoGens, 0, FALSE, 0)
LEMMA EndsIt ==
  ASSUME TypeOK, NEW r \in Readers, NEW m \in GenMaps,
         reader' = [reader EXCEPT ![r] = Returned(r, m)]
  PROVE  Ends(r, m)
<1>1. CASE r \in Greps
  <2>1. [Idle EXCEPT !.pc = "between", !.since = reader[r].since, !.memo = m]
          = State("between", Rest, reader[r].since, m, 0, FALSE, 0)
    <3> DEFINE i == Idle
               d == FALSE
               a == "between"
               s == reader[r].since
    <3>1. i = State("idle", Rest, Zero, NoGens, 0, d, 0)
      BY IdleIs
    <3> HIDE DEF i, d, a, s
    <3> DEFINE x == [i EXCEPT !.pc = a]
               y == [x EXCEPT !.since = s]
    <3>2. [i EXCEPT !.pc = a, !.since = s, !.memo = m] = [y EXCEPT !.memo = m]
      OBVIOUS
    <3>3. x = State(a, Rest, Zero, NoGens, 0, d, 0)
      BY <3>1 DEF State
    <3> HIDE DEF x
    <3>4. y = State(a, Rest, s, NoGens, 0, d, 0)
      BY <3>3 DEF State
    <3> HIDE DEF y
    <3>5. [y EXCEPT !.memo = m] = State(a, Rest, s, m, 0, d, 0)
      BY <3>4 DEF State
    <3> QED
      BY <3>2, <3>5 DEF i, d, a, s
  <2>2. reader' = [reader EXCEPT ![r] = State("between", Rest, reader[r].since, m, 0, FALSE, 0)]
    BY <1>1, <2>1 DEF Returned
  <2> QED
    BY <1>1, <2>2, Moved, IdleIs, ReaderFields DEF ReaderPCs, Ends
<1>2. CASE r \notin Greps
  <2>1. reader' = [reader EXCEPT ![r] = State("idle", Rest, Zero, NoGens, 0, FALSE, 0)]
    BY <1>2, IdleIs DEF Returned
  <2> QED
    BY <1>2, <2>1, Moved, IdleIs DEF ReaderPCs, Ends
<1> QED
  BY <1>1, <1>2

LEMMA GrepEndsMoves ==
  ASSUME TypeOK, NEW r \in Readers, GrepEnds(r)
  PROVE  Becomes(r, "idle", Rest, Zero, NoGens, 0, FALSE, 0)
BY IdleIs, Moved DEF GrepEnds, ReaderPCs

(* What a reader has seen.                                                  *)
LEMMA MemoIs ==
  ASSUME TypeOK, NEW r \in Readers
  PROVE  /\ Memo(r) \in GenMaps
         /\ \A n \in Nodes : Memo(r)[n] \in {reader[r].memo[n]}
                             \/ (reader[r].memo[n] = NoGen /\ Memo(r)[n] = Current(n))
         /\ \A n \in Nodes : Seen(r, n) \in Gens
<1>1. \A n \in Nodes : reader[r].memo[n] \in Gens \cup {NoGen}
  BY ReaderFields DEF GenMaps
<1>2. Memo(r) \in GenMaps
  BY <1>1, CurrentIs DEF Memo, GenMaps
<1>3. \A n \in Nodes : Memo(r)[n] = IF r \in Greps /\ n \in Unseen(r) THEN Current(n)
                                    ELSE reader[r].memo[n]
  BY DEF Memo
<1>4. \A n \in Nodes : Seen(r, n) \in Gens
  BY <1>1, CurrentIs DEF Seen
<1> QED
  BY <1>2, <1>3, <1>4 DEF Unseen

(* A probe ends in a miss, with the mutex or without, or in a hit.          *)
MissPC(r) == IF reader[r].lock = 0 THEN "join" ELSE "backend"
LEMMA ProbeMoves ==
  ASSUME TypeOK, NEW r \in Readers, Probe(r)
  PROVE  /\ reader[r].pc = "probe" /\ UNCHANGED <<policy, inflight, suspect, script, copy, version>>
         /\ \E m \in {reader[r].memo, Memo(r)} :
              \/ Goes(r, MissPC(r), m)
              \/ reader[r].lock # 0 /\ Goes(r, "release", m)
              \/ reader[r].lock = 0 /\ Ends(r, m)
<1>1. reader[r].memo \in GenMaps /\ Memo(r) \in GenMaps /\ MissPC(r) \in ReaderPCs
      /\ "release" \in ReaderPCs
  BY ReaderFields, MemoIs DEF MissPC, ReaderPCs
<1>2. ASSUME NEW m \in {reader[r].memo, Memo(r)}, Miss(r, m) PROVE Goes(r, MissPC(r), m)
  BY <1>1, <1>2, GoesOn DEF Miss, MissPC
<1>3. ASSUME Hit(r)
      PROVE  \/ reader[r].lock # 0 /\ Goes(r, "release", Memo(r))
             \/ reader[r].lock = 0 /\ Ends(r, Memo(r))
  <2>1. CASE reader[r].lock = 0
    <3>1. reader' = [reader EXCEPT ![r] = Returned(r, Memo(r))]
      BY <1>3, <2>1 DEF Hit
    <3> QED
      BY <1>1, <2>1, <3>1, EndsIt
  <2>2. CASE reader[r].lock # 0
    <3>1. reader' = [reader EXCEPT ![r] = [reader[r] EXCEPT !.pc = "release", !.memo = Memo(r)]]
      BY <1>3, <2>2 DEF Hit
    <3> QED
      BY <1>1, <2>2, <3>1, GoesOn
  <2> QED
    BY <2>1, <2>2
<1>4. \/ \E m \in {reader[r].memo, Memo(r)} : Miss(r, m)
      \/ Hit(r)
  BY DEF Probe, Absent, Drop, DropFails, MissBypassed
<1>5. reader[r].pc = "probe" /\ UNCHANGED <<policy, inflight, suspect, script, copy, version>>
  BY DEF Probe
<1> QED
  BY <1>2, <1>3, <1>4, <1>5

(* A reader that has read the backend, or has filled the cache.             *)
LEMMA GotMoves ==
  ASSUME TypeOK, NEW r \in Readers, NEW p \in ReaderPCs, NEW g \in Versions,
         reader' = [reader EXCEPT ![r].pc = p, ![r].got = g]
  PROVE  Becomes(r, p, reader[r].obj, reader[r].since, reader[r].memo, reader[r].lock,
                 reader[r].leader, g)
<1> DEFINE x == reader[r]
           y == State(p, x.obj, x.since, x.memo, x.lock, x.leader, g)
<1>1. x = State(x.pc, x.obj, x.since, x.memo, x.lock, x.leader, x.got)
  BY ReaderFields
<1>2. [x EXCEPT !.pc = p, !.got = g] = y
  <2> DEFINE z == [x EXCEPT !.pc = p]
  <2>1. [x EXCEPT !.pc = p, !.got = g] = [z EXCEPT !.got = g]
    OBVIOUS
  <2>2. z = State(p, x.obj, x.since, x.memo, x.lock, x.leader, x.got)
    BY <1>1 DEF State
  <2> HIDE DEF z
  <2>3. [z EXCEPT !.got = g] = y
    BY <2>2 DEF State
  <2> QED
    BY <2>1, <2>3
<1>3. reader' = [reader EXCEPT ![r] = y]
  BY <1>2 DEF TypeOK
<1>4. y \in ReaderStates
  <2>1. /\ x.obj \in policy /\ x.since \in [policy -> Versions] /\ x.lock \in Locks \cup {0}
        /\ x.leader \in BOOLEAN /\ x.memo \in GenMaps
    BY ReaderFields
  <2> HIDE DEF x
  <2> QED
    BY <2>1, Zenon DEF State, ReaderStates
<1>5. /\ y.pc = p /\ y.obj = x.obj /\ y.since = x.since /\ y.memo = x.memo /\ y.lock = x.lock
      /\ y.leader = x.leader /\ y.got = g
  BY DEF State
<1> HIDE DEF y
<1>6. /\ reader' \in [Readers -> ReaderStates] /\ reader'[r] = y
      /\ \A v \in Readers : v # r => reader'[v] = reader[v]
  BY <1>3, <1>4 DEF TypeOK
<1> QED
  BY <1>5, <1>6 DEF Becomes

LEMMA ObjectsFinite == IsFiniteSet(Objects)
<1>1. IsFiniteSet({"file", "dir"})
  <2>1. {"file", "dir"} = {"file"} \cup {"dir"}
    OBVIOUS
  <2>2. IsFiniteSet({"file"})
    BY FS_Singleton
  <2> QED
    BY <2>1, <2>2, FS_AddElement
<1> QED
  BY <1>1, FiniteAssumption, FS_Product DEF Objects

(* acquire_inflight: there is a mutex that nobody has.                      *)
LEMMA FreeLock ==
  ASSUME TypeOK, NEW q \in policy, inflight[q] = 0
  PROVE  \E k \in Locks : Free(k)
<1> DEFINE I == {inflight[o] : o \in policy}
           L == {reader[x].lock : x \in Readers}
<1>1. IsFiniteSet(policy) /\ Cardinality(policy) <= Cardinality(Objects)
      /\ Cardinality(Objects) \in Nat
  BY ObjectsFinite, PolicyFacts, FS_Subset, FS_CardinalityType
<1>2. IsFiniteSet(I) /\ Cardinality(I) <= Cardinality(policy)
  <2> DEFINE f == [o \in policy |-> inflight[o]]
  <2>1. f \in Surjection(policy, I)
    BY DEF Surjection
  <2> QED
    BY <1>1, <2>1, FS_Surjection
<1>3. IsFiniteSet(L) /\ Cardinality(L) <= Cardinality(Readers) /\ Cardinality(Readers) \in Nat
  <2> DEFINE f == [x \in Readers |-> reader[x].lock]
  <2>1. f \in Surjection(Readers, L)
    BY DEF Surjection
  <2> QED
    BY <2>1, FiniteAssumption, FS_Surjection, FS_CardinalityType
<1>0. 0 \in I /\ \A k : Free(k) <=> k \notin I \cup L
  BY DEF Free
<1> HIDE DEF I, L
<1>4. IsFiniteSet(I \cup L) /\ Cardinality(I \cup L) <= Cardinality(I) + Cardinality(L)
      /\ Cardinality(I) \in Nat /\ Cardinality(L) \in Nat /\ Cardinality(I \cup L) \in Nat
  <2>1. Cardinality(I \cap L) \in Nat
    BY <1>2, FS_Intersection, FS_CardinalityType
  <2>2. IsFiniteSet(I \cup L)
        /\ Cardinality(I \cup L) = Cardinality(I) + Cardinality(L) - Cardinality(I \cap L)
    BY <1>2, <1>3, FS_Union
  <2>3. Cardinality(I) \in Nat /\ Cardinality(L) \in Nat /\ Cardinality(I \cup L) \in Nat
    BY <1>2, <1>3, <2>2, FS_CardinalityType
  <2> QED
    BY <2>1, <2>2, <2>3
<1> DEFINE N == Cardinality(Readers) + Cardinality(Objects)
<1>5. Cardinality(I \cup L) <= N /\ N \in Nat /\ Cardinality(policy) \in Nat
  BY <1>1, <1>2, <1>3, <1>4, FS_CardinalityType
<1>6. IsFiniteSet(Locks) /\ Cardinality(Locks) = N /\ 0 \notin Locks
  BY <1>5, FS_Interval DEF Locks
<1>7. SUFFICES ASSUME \A k \in Locks : ~Free(k) PROVE FALSE
  OBVIOUS
<1>8. Locks \in SUBSET (I \cup L)
  BY <1>0, <1>7
<1>9. Cardinality(Locks) <= Cardinality(I \cup L) /\ (Cardinality(I \cup L) = Cardinality(Locks) => I \cup L = Locks)
  BY <1>4, <1>8, FS_Subset
<1> HIDE DEF N
<1> QED
  BY <1>0, <1>4, <1>5, <1>6, <1>9

(* acquire_inflight joins the mutex of the object, or makes one.            *)
LEMMA JoinMoves ==
  ASSUME TypeOK, NEW r \in Readers, Join(r)
  PROVE  \E k \in Locks :
           /\ inflight[reader[r].obj] # 0 => k = inflight[reader[r].obj]
           /\ inflight[reader[r].obj] = 0 => Free(k)
           /\ inflight' = [inflight EXCEPT ![reader[r].obj] = k]
           /\ \E d \in BOOLEAN :
                Becomes(r, "queue", reader[r].obj, reader[r].since, reader[r].memo, k, d,
                        reader[r].got)
<1> DEFINE x == reader[r]
           k == IF inflight[x.obj] # 0 THEN inflight[x.obj] ELSE CHOOSE j \in Locks : Free(j)
           d == inflight[x.obj] = 0
           y == State("queue", x.obj, x.since, x.memo, k, d, x.got)
<1>1. /\ x = State(x.pc, x.obj, x.since, x.memo, x.lock, x.leader, x.got)
      /\ x.obj \in policy /\ x.since \in [policy -> Versions] /\ x.memo \in GenMaps
      /\ x.got \in Versions
  BY ReaderFields
<1>2. /\ k \in Locks
      /\ inflight[x.obj] # 0 => k = inflight[x.obj]
      /\ inflight[x.obj] = 0 => Free(k)
  <2>1. inflight[x.obj] \in Locks \cup {0}
    BY <1>1 DEF TypeOK
  <2>2. CASE inflight[x.obj] = 0
    <3>1. \E j \in Locks : Free(j)
      BY <1>1, <2>2, FreeLock
    <3>2. (CHOOSE j \in Locks : Free(j)) \in Locks /\ Free(CHOOSE j \in Locks : Free(j))
      BY <3>1
    <3> QED
      BY <2>2, <3>2
  <2> QED
    BY <2>1, <2>2
<1>3. d \in BOOLEAN
  OBVIOUS
<1>4. /\ reader' = [reader EXCEPT ![r].pc = "queue", ![r].lock = k, ![r].leader = d]
      /\ inflight' = [inflight EXCEPT ![x.obj] = k]
  BY DEF Join
<1> HIDE DEF k, d
<1>5. reader' = [reader EXCEPT ![r] = [x EXCEPT !.pc = "queue", !.lock = k, !.leader = d]]
  BY <1>4 DEF TypeOK
<1>6. [x EXCEPT !.pc = "queue", !.lock = k, !.leader = d] = y
  <2> DEFINE z == [x EXCEPT !.pc = "queue"]
             v == [z EXCEPT !.lock = k]
  <2>1. [x EXCEPT !.pc = "queue", !.lock = k, !.leader = d] = [v EXCEPT !.leader = d]
    OBVIOUS
  <2>2. z = State("queue", x.obj, x.since, x.memo, x.lock, x.leader, x.got)
    BY <1>1 DEF State
  <2> HIDE DEF z
  <2>3. v = State("queue", x.obj, x.since, x.memo, k, x.leader, x.got)
    BY <2>2 DEF State
  <2> HIDE DEF v
  <2>4. [v EXCEPT !.leader = d] = y
    BY <2>3 DEF State
  <2> QED
    BY <2>1, <2>4
<1>7. y \in ReaderStates
  <2> HIDE DEF x
  <2>1. "queue" \in ReaderPCs /\ k \in Locks \cup {0}
    BY <1>2 DEF ReaderPCs
  <2> QED
    BY <1>1, <1>3, <2>1, Zenon DEF State, ReaderStates
<1>8. /\ y.pc = "queue" /\ y.obj = x.obj /\ y.since = x.since /\ y.memo = x.memo /\ y.lock = k
      /\ y.leader = d /\ y.got = x.got
  BY DEF State
<1> HIDE DEF y
<1>9. /\ reader' \in [Readers -> ReaderStates] /\ reader'[r] = y
      /\ \A v \in Readers : v # r => reader'[v] = reader[v]
  BY <1>5, <1>6, <1>7 DEF TypeOK
<1>10. Becomes(r, "queue", x.obj, x.since, x.memo, k, d, x.got)
  BY <1>8, <1>9 DEF Becomes
<1> HIDE DEF x
<1> QED
  BY <1>2, <1>3, <1>4, <1>10 DEF x

LEMMA EnterMoves ==
  ASSUME TypeOK, NEW r \in Readers, Enter(r)
  PROVE  \E p \in {"backend", "probe"} : Goes(r, p, reader[r].memo)
<1>1. PICK p \in {"backend", "probe"} : reader' = [reader EXCEPT ![r].pc = p]
  BY DEF Enter, Goto
<1>2. p \in ReaderPCs /\ reader[r].memo \in GenMaps
  BY ReaderFields DEF ReaderPCs
<1> QED
  BY <1>1, <1>2, GoesOn

LEMMA ReadBackendMoves ==
  ASSUME TypeOK, NEW r \in Readers, ReadBackend(r)
  PROVE  \/ Goes(r, "release", reader[r].memo)
         \/ Becomes(r, "fill", reader[r].obj, reader[r].since, reader[r].memo, reader[r].lock,
                    reader[r].leader, version[reader[r].obj])
<1>1. /\ "fill" \in ReaderPCs /\ "release" \in ReaderPCs /\ reader[r].memo \in GenMaps
      /\ version[reader[r].obj] \in Versions
  BY ReaderFields DEF ReaderPCs, TypeOK
<1>2. CASE Goto(r, "release")
  BY <1>1, <1>2, GoesOn DEF Goto
<1>3. CASE reader' = [reader EXCEPT ![r].pc = "fill", ![r].got = version[reader[r].obj]]
  BY <1>1, <1>3, GotMoves
<1> QED
  BY <1>2, <1>3 DEF ReadBackend

LEMMA FillMissMoves ==
  ASSUME TypeOK, NEW r \in Readers, FillMiss(r)
  PROVE  Becomes(r, "release", reader[r].obj, reader[r].since, reader[r].memo, reader[r].lock,
                 reader[r].leader, 0)
<1>1. "release" \in ReaderPCs /\ 0 \in Versions
  BY IdleIs DEF ReaderPCs
<1> QED
  BY <1>1, GotMoves DEF FillMiss
-----------------------------------------------------------------------------
(* The calls that a mutation has to make.                                   *)
Plain(a) == a \in Seq(Calls) /\ \A i \in DOMAIN a : a[i].do = "delete"
Script(a, S) ==
  /\ a \in Seq(Calls)
  /\ \A i, j \in DOMAIN a : a[i].do = "bump" /\ a[j].do = "bump" /\ a[i].at = a[j].at => i = j
  /\ \A i \in DOMAIN a : a[i].do = "fill" => a[i].version = changes + 1 /\ a[i].at \in S

LEMMA Joining ==
  ASSUME NEW C, NEW a \in Seq(C), NEW b \in Seq(C)
  PROVE  /\ a \o b \in Seq(C) /\ Len(a) \in Nat
         /\ \A i \in DOMAIN (a \o b) :
              \/ i \in DOMAIN a /\ (a \o b)[i] = a[i]
              \/ i - Len(a) \in DOMAIN b /\ (a \o b)[i] = b[i - Len(a)] /\ i \in Int
         /\ \A i \in DOMAIN a : i \in DOMAIN (a \o b) /\ (a \o b)[i] = a[i]
         /\ \A i \in DOMAIN b : i + Len(a) \in DOMAIN (a \o b) /\ (a \o b)[i + Len(a)] = b[i]
<1>1. /\ a \o b \in Seq(C) /\ Len(a) \in Nat /\ Len(b) \in Nat
      /\ Len(a \o b) = Len(a) + Len(b) /\ DOMAIN a = 1 .. Len(a) /\ DOMAIN b = 1 .. Len(b)
      /\ DOMAIN (a \o b) = 1 .. Len(a) + Len(b)
  OBVIOUS
<1>2. \A i \in 1 .. Len(a) + Len(b) :
        (a \o b)[i] = IF i <= Len(a) THEN a[i] ELSE b[i - Len(a)]
  OBVIOUS
<1> QED
  BY <1>1, <1>2

LEMMA Appended ==
  ASSUME NEW a \in Seq(Calls), NEW b, Plain(b)
  PROVE  /\ a \o b \in Seq(Calls)
         /\ Owed(a \o b) = Owed(a) \cup Owed(b)
         /\ Plain(a) => Plain(a \o b)
         /\ \A S : Script(a, S) => Script(a \o b, S)
<1>0. b \in Seq(Calls) /\ \A i \in DOMAIN b : b[i].do = "delete"
  BY DEF Plain
<1>1. /\ a \o b \in Seq(Calls) /\ Len(a) \in Nat
      /\ \A i \in DOMAIN (a \o b) :
           \/ i \in DOMAIN a /\ (a \o b)[i] = a[i]
           \/ i - Len(a) \in DOMAIN b /\ (a \o b)[i] = b[i - Len(a)] /\ i \in Int
      /\ \A i \in DOMAIN a : i \in DOMAIN (a \o b) /\ (a \o b)[i] = a[i]
      /\ \A i \in DOMAIN b : i + Len(a) \in DOMAIN (a \o b) /\ (a \o b)[i + Len(a)] = b[i]
  BY <1>0, Joining
<1> DEFINE c == a \o b
<1> HIDE DEF c
<1>2. \A o : o \in Owed(c) <=> o \in Owed(a) \/ o \in Owed(b)
  <2>1. ASSUME NEW o, o \in Owed(c) PROVE o \in Owed(a) \/ o \in Owed(b)
    <3>1. PICK i \in DOMAIN c : o \in Forgets(c[i])
      BY <2>1 DEF Owed
    <3> QED
      BY <3>1, <1>1 DEF Owed, c
  <2>2. ASSUME NEW o, o \in Owed(a) PROVE o \in Owed(c)
    BY <2>2, <1>1 DEF Owed, c
  <2>3. ASSUME NEW o, o \in Owed(b) PROVE o \in Owed(c)
    BY <2>3, <1>1 DEF Owed, c
  <2> QED
    BY <2>1, <2>2, <2>3
<1>3. Plain(a) => Plain(c)
  BY <1>0, <1>1 DEF Plain, c
<1>4. ASSUME NEW S, Script(a, S) PROVE Script(c, S)
  <2>1. \A i \in DOMAIN c : (i \in DOMAIN a /\ c[i] = a[i]) \/ c[i].do = "delete"
    BY <1>0, <1>1 DEF c
  <2> QED
    BY <1>1, <1>4, <2>1 DEF Script, c
<1> QED
  BY <1>1, <1>2, <1>3, <1>4 DEF c

LEMMA Singles ==
  /\ \A o : Plain(Delete(o)) /\ Owed(Delete(o)) = {o} \cap policy
  /\ \A n \in Nodes : \A S : Script(<<Bump(n)>>, S) /\ Owed(<<Bump(n)>>) = Under(n)
  /\ \A n, m \in Nodes : \A S : n # m =>
       Script(<<Bump(n), Bump(m)>>, S) /\ Owed(<<Bump(n), Bump(m)>>) = Under(n) \cup Under(m)
<1>1. ASSUME NEW o PROVE Plain(Delete(o)) /\ Owed(Delete(o)) = {o} \cap policy
  <2> DEFINE c == [do |-> "delete", at |-> o]
  <2>1. CASE o \in policy
    <3>1. c \in Calls /\ c.do = "delete" /\ c.at = o
      BY <2>1 DEF Calls
    <3>2. Delete(o) = <<c>>
      BY <2>1 DEF Delete
    <3> HIDE DEF c
    <3>3. <<c>> \in Seq(Calls) /\ DOMAIN <<c>> = {1} /\ <<c>>[1] = c
      BY <3>1
    <3>4. Forgets(c) = {o}
      BY <3>1 DEF Forgets
    <3> QED
      BY <2>1, <3>1, <3>2, <3>3, <3>4 DEF Plain, Owed
  <2>2. CASE o \notin policy
    <3>1. Delete(o) = <<>> /\ <<>> \in Seq(Calls) /\ DOMAIN <<>> = {}
      BY <2>2 DEF Delete
    <3> QED
      BY <2>2, <3>1 DEF Plain, Owed
  <2> QED
    BY <2>1, <2>2
<1>2. \A n \in Nodes : /\ Bump(n) \in Calls /\ Bump(n).do = "bump" /\ Bump(n).at = n
                       /\ Forgets(Bump(n)) = Under(n)
  BY DEF Bump, Calls, Forgets
<1>3. ASSUME NEW n \in Nodes, NEW S
      PROVE  Script(<<Bump(n)>>, S) /\ Owed(<<Bump(n)>>) = Under(n)
  <2> DEFINE c == Bump(n)
  <2>1. c \in Calls /\ c.do = "bump" /\ Forgets(c) = Under(n)
    BY <1>2
  <2> HIDE DEF c
  <2>2. <<c>> \in Seq(Calls) /\ DOMAIN <<c>> = {1} /\ <<c>>[1] = c
    BY <2>1
  <2> QED
    BY <2>1, <2>2 DEF Script, Owed, c
<1>4. ASSUME NEW n \in Nodes, NEW m \in Nodes, NEW S, n # m
      PROVE  /\ Script(<<Bump(n), Bump(m)>>, S)
             /\ Owed(<<Bump(n), Bump(m)>>) = Under(n) \cup Under(m)
  <2> DEFINE c == Bump(n)
             d == Bump(m)
             a == <<c, d>>
  <2>1. /\ c \in Calls /\ c.do = "bump" /\ Forgets(c) = Under(n) /\ c.at = n
        /\ d \in Calls /\ d.do = "bump" /\ Forgets(d) = Under(m) /\ d.at = m
    BY <1>2
  <2> HIDE DEF c, d
  <2>2. a \in Seq(Calls) /\ DOMAIN a = {1, 2} /\ a[1] = c /\ a[2] = d
    BY <2>1
  <2> HIDE DEF a
  <2>3. Script(a, S)
    BY <1>4, <2>1, <2>2 DEF Script
  <2>4. Owed(a) = Under(n) \cup Under(m)
    BY <2>1, <2>2 DEF Owed
  <2> QED
    BY <2>3, <2>4 DEF a, c, d
<1> QED
  BY <1>1, <1>3, <1>4

LEMMA KeyCalls ==
  \A p \in Nodes :
    /\ Plain(Both(p)) /\ Owed(Both(p)) = {File(p), Dir(p)} \cap policy
    /\ Plain(ParentOf(p)) /\ Owed(ParentOf(p)) = {Dir(Parent[p])} \cap policy
<1> SUFFICES ASSUME NEW p \in Nodes
             PROVE  /\ Plain(Both(p)) /\ Owed(Both(p)) = {File(p), Dir(p)} \cap policy
                    /\ Plain(ParentOf(p)) /\ Owed(ParentOf(p)) = {Dir(Parent[p])} \cap policy
  OBVIOUS
<1> DEFINE a == Delete(File(p))
           b == Delete(Dir(p))
<1>1. Plain(a) /\ Owed(a) = {File(p)} \cap policy /\ Plain(b) /\ Owed(b) = {Dir(p)} \cap policy
  BY Singles
<1>2. Plain(Delete(Dir(Parent[p]))) /\ Owed(Delete(Dir(Parent[p]))) = {Dir(Parent[p])} \cap policy
  BY Singles
<1> HIDE DEF a, b
<1>3. a \in Seq(Calls)
  BY <1>1 DEF Plain
<1>4. Plain(a \o b) /\ Owed(a \o b) = Owed(a) \cup Owed(b)
  BY <1>1, <1>3, Appended
<1>5. Both(p) = a \o b
  BY DEF Both, a, b
<1> QED
  BY <1>1, <1>2, <1>4, <1>5 DEF ParentOf

(* A write of the whole file ends with its fill.                            *)
LEMMA WholeWrite ==
  ASSUME NEW a, Plain(a), NEW o \in policy, NEW S, o \in S, changes + 1 \in Versions
  PROVE  /\ Script(a \o <<Fill(o, changes + 1)>>, S)
         /\ Owed(a) \subseteq Owed(a \o <<Fill(o, changes + 1)>>)
<1> DEFINE d == Fill(o, changes + 1)
           b == <<d>>
<1>1. d \in Calls /\ d.do = "fill" /\ d.at = o /\ d.version = changes + 1
  BY DEF Fill, Calls
<1> HIDE DEF d
<1>2. b \in Seq(Calls) /\ DOMAIN b = {1} /\ b[1] = d
  BY <1>1
<1> HIDE DEF b
<1>3. a \in Seq(Calls) /\ \A i \in DOMAIN a : a[i].do = "delete"
  BY DEF Plain
<1>4. /\ a \o b \in Seq(Calls) /\ Len(a) \in Nat
      /\ \A i \in DOMAIN (a \o b) :
           \/ i \in DOMAIN a /\ (a \o b)[i] = a[i]
           \/ i - Len(a) \in DOMAIN b /\ (a \o b)[i] = b[i - Len(a)] /\ i \in Int
      /\ \A i \in DOMAIN a : i \in DOMAIN (a \o b) /\ (a \o b)[i] = a[i]
  BY <1>2, <1>3, Joining
<1> DEFINE c == a \o b
<1> HIDE DEF c
<1>5. \A i \in DOMAIN c : c[i].do = "delete" \/ c[i] = d
  BY <1>2, <1>3, <1>4 DEF c
<1>6. Script(c, S)
  BY <1>1, <1>4, <1>5 DEF Script, c
<1>7. Owed(a) \subseteq Owed(c)
  BY <1>4 DEF Owed, c
<1> QED
  BY <1>6, <1>7 DEF c, b, d

(* Deletes are a script.                                                    *)
LEMMA PlainScript == \A a, S : Plain(a) => Script(a, S) /\ a \in Seq(Calls)
  BY DEF Plain, Script

(* The listings of all ancestors are deleted one by one.                    *)
LEMMA OrderedDeletes ==
  ASSUME TypeOK, NEW S, S \subseteq policy
  PROVE  LET calls == [i \in DOMAIN Ordered(S) |-> [do |-> "delete", at |-> Ordered(S)[i]]]
         IN  Plain(calls) /\ S \subseteq Owed(calls)
<1> DEFINE N == Cardinality(S)
           q == Ordered(S)
           calls == [i \in DOMAIN q |-> [do |-> "delete", at |-> q[i]]]
<1>1. IsFiniteSet(S)
  BY ObjectsFinite, PolicyFacts, FS_Subset
<1>2. N \in Nat /\ ExistsBijection(1 .. N, S)
  BY <1>1, FS_CardinalityType
<1>3. \E f \in [1 .. N -> S] : {f[i] : i \in DOMAIN f} = S
  <2>1. PICK f : f \in Bijection(1 .. N, S)
    BY <1>2 DEF ExistsBijection
  <2>2. f \in [1 .. N -> S] /\ \A o \in S : \E i \in 1 .. N : f[i] = o
    BY <2>1 DEF Bijection, Surjection
  <2> QED
    BY <2>2
<1>4. q \in [1 .. N -> S] /\ {q[i] : i \in DOMAIN q} = S
  BY <1>3 DEF Ordered
<1> HIDE DEF N, q
<1>5. DOMAIN q = 1 .. N /\ \A i \in 1 .. N : q[i] \in policy
  BY <1>4
<1>6. \A i \in 1 .. N : /\ calls[i] = [do |-> "delete", at |-> q[i]]
                        /\ calls[i] \in Calls /\ calls[i].do = "delete" /\ calls[i].at = q[i]
  BY <1>5 DEF Calls
<1>7. DOMAIN calls = 1 .. N /\ calls = [i \in 1 .. N |-> calls[i]]
  BY <1>5
<1> HIDE DEF calls
<1>8. calls \in Seq(Calls)
  BY <1>2, <1>6, <1>7 DEF N
<1>9. Plain(calls)
  BY <1>6, <1>7, <1>8 DEF Plain
<1>10. S \subseteq Owed(calls)
  <2> SUFFICES ASSUME NEW o \in S PROVE o \in Owed(calls)
    OBVIOUS
  <2>1. PICK i \in 1 .. N : q[i] = o
    BY <1>4, <1>5
  <2> QED
    BY <1>6, <1>7, <2>1 DEF Owed, Forgets
<1> QED
  BY <1>9, <1>10 DEF calls, q

LEMMA Longer ==
  ASSUME NEW S, NEW a, NEW b, Script(a, S), Plain(b)
  PROVE  Script(a \o b, S) /\ Owed(a \o b) = Owed(a) \cup Owed(b)
<1>1. a \in Seq(Calls)
  BY DEF Script
<1> QED
  BY <1>1, Appended

(* The calls invalidate what has changed.                                   *)
Covers(calls, S) == Script(calls, S) /\ S \cap policy \subseteq Owed(calls)
LEMMA CoverTwo ==
  ASSUME NEW S, NEW a, NEW b, Script(a, S), Plain(b),
         S \cap policy \subseteq Owed(a) \cup Owed(b)
  PROVE  Covers(a \o b, S)
<1>1. Script(a \o b, S) /\ Owed(a \o b) = Owed(a) \cup Owed(b)
  <2> HIDE DEF Script, Plain, Owed
  <2> QED
    BY ONLY Script(a, S), Plain(b), Longer
<1> QED
  BY <1>1, Zenon DEF Covers

LEMMA CoverThree ==
  ASSUME NEW S, NEW a, NEW b, NEW c, Script(a, S), Plain(b), Plain(c),
         S \cap policy \subseteq Owed(a) \cup Owed(b) \cup Owed(c)
  PROVE  Covers(a \o b \o c, S)
<1> DEFINE d == a \o b
<1>1. Script(d, S) /\ Owed(d) = Owed(a) \cup Owed(b)
  BY Longer
<1> HIDE DEF d
<1>2. S \cap policy \subseteq Owed(d) \cup Owed(c)
  BY <1>1
<1>3. Covers(d \o c, S)
  BY <1>1, <1>2, CoverTwo
<1> QED
  BY <1>3 DEF d

LEMMA CoverFour ==
  \A S, a, b, c, d :
    /\ Script(a, S) /\ Plain(b) /\ Plain(c) /\ Plain(d)
    /\ S \cap policy \subseteq Owed(a) \cup Owed(b) \cup Owed(c) \cup Owed(d)
    => Covers(a \o b \o c \o d, S)
<1>0. SUFFICES ASSUME NEW S, NEW a, NEW b, NEW c, NEW d,
                      Script(a, S) /\ Plain(b) /\ Plain(c) /\ Plain(d),
                      S \cap policy \subseteq Owed(a) \cup Owed(b) \cup Owed(c) \cup Owed(d)
               PROVE  Covers(a \o b \o c \o d, S)
  OBVIOUS
<1>1. Script(a, S) /\ Plain(b)
  BY <1>0
<1> DEFINE e == a \o b
<1>2. Script(e, S) /\ Owed(e) = Owed(a) \cup Owed(b)
  BY <1>1, Longer
<1> HIDE DEF e
<1>3. S \cap policy \subseteq Owed(e) \cup Owed(c) \cup Owed(d)
  BY <1>0, <1>2
<1>4. Script(e, S) /\ Plain(c) /\ Plain(d)
  BY <1>0, <1>2
<1>5. Covers(e \o c \o d, S)
  BY <1>3, <1>4, CoverThree
<1> QED
  BY <1>5 DEF e

LEMMA CoverFive ==
  ASSUME NEW S, NEW a, NEW b, NEW c, NEW d, NEW e,
         Script(a, S), Plain(b), Plain(c), Plain(d), Plain(e),
         S \cap policy \subseteq Owed(a) \cup Owed(d) \cup Owed(e)
  PROVE  Covers(a \o b \o c \o d \o e, S)
<1> DEFINE f == a \o b
<1>1. Script(f, S) /\ Owed(f) = Owed(a) \cup Owed(b)
  BY Longer
<1> HIDE DEF f
<1>2. S \cap policy \subseteq Owed(f) \cup Owed(c) \cup Owed(d) \cup Owed(e)
  BY <1>1
<1>3. Covers(f \o c \o d \o e, S)
  BY <1>1, <1>2, CoverFour
<1> QED
  BY <1>3 DEF f

(* Every mutation has invalidated what it changes once its calls are made.  *)
LEMMA MutationScript ==
  ASSUME TypeOK, Mutation
  PROVE  \E S, calls : Mutate(S, calls) /\ Covers(calls, S)
<1>p. PICK p \in Nodes : \/ Create(p) \/ Mkdir(p) \/ Remove(p) \/ Write(p) \/ EnsureParentDirs(p)
                         \/ \E q \in Nodes : Rename(p, q)
  BY DEF Mutation
<1> DEFINE both == Both(p)
           par == ParentOf(p)
<1>0. /\ Plain(both) /\ Owed(both) = {File(p), Dir(p)} \cap policy
      /\ Plain(par) /\ Owed(par) = {Dir(Parent[p])} \cap policy
  BY KeyCalls
<1>00. Plain(both) /\ Plain(par)
  BY <1>0
<1>1. CASE Create(p)
  <2> DEFINE S == {File(p), Dir(Parent[p])}
  <2>1. Mutate(S, both \o par)
    BY <1>1 DEF Create
  <2>2. Script(both, S)
    BY <1>00, PlainScript
  <2> HIDE DEF both, par
  <2>3. S \cap policy \subseteq Owed(both) \cup Owed(par)
    BY <1>0
  <2> HIDE DEF S
  <2>4. Covers(both \o par, S)
    BY <1>00, <2>2, <2>3, CoverTwo
  <2> QED
    BY <2>1, <2>4
<1>2. CASE Mkdir(p)
  <2> DEFINE S == {Dir(p), Dir(Parent[p])}
             a == <<Bump(p)>>
             b == Delete(Dir(p))
  <2>1. Mutate(S, a \o b \o par)
    BY <1>2 DEF Mkdir
  <2>2. Script(a, S)
    BY Singles
  <2>3. Plain(b)
    BY Singles
  <2>4. Owed(b) = {Dir(p)} \cap policy
    BY Singles
  <2> HIDE DEF a, b, par
  <2>5. S \cap policy \subseteq Owed(a) \cup Owed(b) \cup Owed(par)
    BY <1>0, <2>4
  <2> HIDE DEF S
  <2>6. Covers(a \o b \o par, S)
    BY <1>00, <2>2, <2>3, <2>5, CoverThree
  <2> QED
    BY <2>1, <2>6
<1>3. CASE Remove(p)
  <2> DEFINE S == Under(p) \cup {Dir(Parent[p])}
             a == <<Bump(p)>>
  <2>1. Mutate(S, a \o both \o par)
    BY <1>3 DEF Remove
  <2>2. Script(a, S)
    BY Singles
  <2>3. Owed(a) = Under(p)
    BY Singles
  <2> HIDE DEF a, both, par
  <2>4. S \cap policy \subseteq Owed(a) \cup Owed(both) \cup Owed(par)
    BY <1>0, <2>3
  <2> HIDE DEF S
  <2>5. Covers(a \o both \o par, S)
    BY <1>00, <2>2, <2>4, CoverThree
  <2> QED
    BY <2>1, <2>5
<1>4. CASE Write(p)
  <2> DEFINE S == {File(p), Dir(Parent[p])}
             a == Delete(File(p))
             w(whole) == IF whole /\ File(p) \in policy
                         THEN <<Fill(File(p), changes + 1)>> ELSE <<>>
  <2>1. PICK whole \in BOOLEAN : Mutate(S, a \o w(whole) \o par)
    BY <1>4, Zenon DEF Write
  <2>2. Plain(a) /\ Owed(a) = {File(p)} \cap policy
    BY Singles
  <2>3. changes + 1 \in Versions
    BY <2>1, BoundsAssumption DEF Mutate, Change, TypeOK, Versions
  <2>4. Script(a \o w(whole), S) /\ Owed(a) \subseteq Owed(a \o w(whole))
    <3>1. CASE whole /\ File(p) \in policy
      <4>1. w(whole) = <<Fill(File(p), changes + 1)>>
        BY <3>1, Zenon
      <4> QED
        BY <2>2, <2>3, <3>1, <4>1, WholeWrite
    <3>2. CASE ~(whole /\ File(p) \in policy)
      <4>1. w(whole) = <<>>
        BY <3>2, Zenon
      <4> HIDE DEF a
      <4>2. a \o <<>> = a
        BY <2>2 DEF Plain
      <4> QED
        BY <2>2, <4>1, <4>2, PlainScript
    <3> QED
      BY <3>1, <3>2
  <2> DEFINE c == a \o w(whole)
  <2>5. Mutate(S, c \o par) /\ Script(c, S) /\ Owed(a) \subseteq Owed(c)
    BY <2>1, <2>4
  <2> HIDE DEF a, c, par
  <2>6. S \cap policy \subseteq Owed(c) \cup Owed(par)
    BY <1>0, <2>2, <2>5
  <2> HIDE DEF S
  <2>7. Script(c, S)
    BY <2>5
  <2>8. Covers(c \o par, S)
    BY <1>00, <2>6, <2>7, CoverTwo
  <2> QED
    BY <2>5, <2>8
<1>5. CASE EnsureParentDirs(p)
  <2> DEFINE S == {Dir(s) : s \in Scopes[Parent[p]]} \cap policy
             c == [i \in DOMAIN Ordered(S) |-> [do |-> "delete", at |-> Ordered(S)[i]]]
  <2>1. Mutate(S, c)
    BY <1>5 DEF EnsureParentDirs
  <2>2. S \subseteq policy
    OBVIOUS
  <2> HIDE DEF S
  <2>3. Plain(c) /\ S \subseteq Owed(c)
    BY <2>2, OrderedDeletes
  <2> HIDE DEF c
  <2> QED
    BY <2>1, <2>3, PlainScript DEF Covers
<1>6. ASSUME NEW q \in Nodes, Rename(p, q)
      PROVE  \E S, calls : Mutate(S, calls) /\ Covers(calls, S)
  <2> DEFINE S == Under(p) \cup Under(q) \cup {Dir(Parent[p]), Dir(Parent[q])}
             a == <<Bump(p), Bump(q)>>
             both2 == Both(q)
             par2 == ParentOf(q)
             c == a \o both \o both2 \o par \o par2
  <2>1. Mutate(S, c)
    BY <1>6 DEF Rename
  <2>2. p # q
    BY <1>6, TreeAssumption DEF Rename
  <2>3. Script(a, S)
    BY <2>2, Singles
  <2>4. Owed(a) = Under(p) \cup Under(q)
    BY <2>2, Singles
  <2>5. Owed(par2) = {Dir(Parent[q])} \cap policy
    BY KeyCalls
  <2>6. Plain(both2) /\ Plain(par2)
    BY KeyCalls
  <2> HIDE DEF a, both, both2, par, par2
  <2>7. S \cap policy \subseteq Owed(a) \cup Owed(par) \cup Owed(par2)
    BY <1>0, <2>4, <2>5
  <2> HIDE DEF S
  <2>8. Covers(c, S)
    BY <1>00, <2>3, <2>6, <2>7, CoverFive
  <2> HIDE DEF c
  <2> QED
    BY <2>1, <2>8
<1> QED
  BY <1>p, <1>1, <1>2, <1>3, <1>4, <1>5, <1>6
-----------------------------------------------------------------------------
(* What every step of a reader leaves alone, and what it does to the cache. *)
Quiet ==
  /\ UNCHANGED <<policy, changes, version, epoch, script, copy, suspect, restarts>>
  /\ faults' \in Nat /\ Effect /\ Steady({})
Others(r) ==
  /\ reader' \in [Readers -> ReaderStates]
  /\ \A x \in Readers : x # r => reader'[x] = reader[x]
ReaderAct(r) ==
  \/ \E o \in policy : Read(r, o) \/ GrepOn(r, o)
  \/ ReaderStep(r) \/ Enter(r) \/ GrepEnds(r)

LEMMA Untouched ==
  ASSUME TypeOK, GenOrder, UNCHANGED <<provider, wrapper>>
  PROVE  Effect /\ NoFill /\ Steady({})
<1>1. /\ gen' \in GenMaps /\ local' \in GenMaps /\ GenOrder' /\ Steady({})
      /\ \A n \in Nodes : Current(n)' = Current(n) /\ Leq(Current(n), Current(n)')
  BY SameGens
<1>2. bypass' \subseteq Nodes /\ \A n \in Nodes : Bypassed(n) => Bypassed(n)'
  BY SameBypass
<1>3. entry' \in [policy -> Entries] /\ NoFill
  BY EntryKept
<1> QED
  BY <1>1, <1>2, <1>3 DEF Effect, NoFill

LEMMA Counted ==
  ASSUME TypeOK
  PROVE  /\ UNCHANGED bounds => faults' \in Nat /\ restarts' = restarts
         /\ Fault => faults' \in Nat /\ restarts' = restarts
  BY DEF TypeOK, Fault

LEMMA SinceType == TypeOK => Since \in [policy -> Versions]
<1> SUFFICES ASSUME TypeOK PROVE Since \in [policy -> Versions]
  OBVIOUS
<1>1. version \in [policy -> Versions] /\ 0 \in Versions
  BY BoundsAssumption DEF TypeOK, Versions
<1> QED
  BY <1>1 DEF Since

LEMMA BecomesOthers ==
  ASSUME NEW r, NEW p, NEW o, NEW s, NEW m, NEW l, NEW d, NEW g,
         Becomes(r, p, o, s, m, l, d, g)
  PROVE  Others(r)
  BY DEF Becomes, Others
LEMMA GoesOthers == \A r, p, m : Goes(r, p, m) \/ Ends(r, m) => Others(r)
  BY DEF Goes, Ends, Becomes, Others

LEMMA ReaderQuiet ==
  ASSUME TypeOK, GenOrder, NEW r \in Readers, ReaderAct(r)
  PROVE  /\ Quiet /\ Others(r) /\ inflight' \in [policy -> Locks \cup {0}]
         /\ NoFill \/ (FillMiss(r) /\ Fills(reader[r].obj, reader[r].got))
<1>0. inflight \in [policy -> Locks \cup {0}]
  BY DEF TypeOK
<1>f. /\ reader[r].obj \in policy /\ reader[r].since \in [policy -> Versions]
      /\ reader[r].memo \in GenMaps /\ reader[r].got \in Versions
      /\ reader[r].lock \in Locks \cup {0}
  BY ReaderFields
<1>q. ASSUME UNCHANGED <<policy, changes, version, provider, wrapper, script, copy, suspect, bounds>>
      PROVE  Quiet /\ NoFill
  BY <1>q, Untouched, Counted DEF Quiet
<1>1. ASSUME NEW o \in policy, Read(r, o)
      PROVE  Quiet /\ NoFill /\ Others(r) /\ inflight' = inflight
  <2>1. Acquire(r, o, Since, NoGens)
    BY <1>1 DEF Read
  <2>2. Becomes(r, "probe", o, Since, NoGens, 0, FALSE, 0)
    BY <2>1, AcquireMoves, SinceType, IdleIs
  <2> QED
    BY <1>q, <2>1, <2>2, BecomesOthers DEF Acquire
<1>2. ASSUME NEW o \in policy, GrepOn(r, o)
      PROVE  Quiet /\ NoFill /\ Others(r) /\ inflight' = inflight
  <2>1. Acquire(r, o, reader[r].since, reader[r].memo)
    BY <1>2 DEF GrepOn
  <2>2. Becomes(r, "probe", o, reader[r].since, reader[r].memo, 0, FALSE, 0)
    BY <1>f, <2>1, AcquireMoves
  <2> QED
    BY <1>q, <2>1, <2>2, BecomesOthers DEF Acquire
<1>3. ASSUME Probe(r)
      PROVE  Quiet /\ NoFill /\ Others(r) /\ inflight' = inflight
  <2>1. Effect /\ NoFill /\ Steady({})
    BY <1>3, ProbeEffect
  <2>2. Others(r)
    BY <1>3, ProbeMoves, GoesOthers
  <2>3. /\ UNCHANGED <<policy, changes, version, epoch, script, copy, inflight, suspect>>
        /\ UNCHANGED bounds \/ Fault
    BY <1>3 DEF Probe
  <2> QED
    BY <2>1, <2>2, <2>3, Counted DEF Quiet
<1>4. ASSUME Join(r)
      PROVE  Quiet /\ NoFill /\ Others(r) /\ inflight' \in [policy -> Locks \cup {0}]
  <2>1. Others(r) /\ inflight' \in [policy -> Locks \cup {0}]
    BY <1>0, <1>4, <1>f, JoinMoves, BecomesOthers
  <2> QED
    BY <1>4, <1>q, <2>1 DEF Join
<1>5. ASSUME ReadBackend(r)
      PROVE  Quiet /\ NoFill /\ Others(r) /\ inflight' = inflight
  <2>1. Others(r)
    BY <1>5, ReadBackendMoves, GoesOthers, BecomesOthers
  <2> QED
    BY <1>5, <1>q, <2>1 DEF ReadBackend
<1>6. ASSUME FillMiss(r)
      PROVE  /\ Quiet /\ Others(r) /\ inflight' = inflight
             /\ Fills(reader[r].obj, reader[r].got)
  <2>1. Others(r)
    BY <1>6, FillMissMoves, BecomesOthers
  <2>2. UNCHANGED <<policy, changes, version, epoch, script, copy, inflight, suspect>>
    BY <1>6 DEF FillMiss
  <2>3. CASE UNCHANGED <<entry, gen, local, bypass, bounds>>
    <3>1. Effect /\ NoFill /\ Steady({})
      BY <2>2, <2>3, Untouched
    <3>2. Fills(reader[r].obj, reader[r].got)
      BY <3>1 DEF NoFill, Fills
    <3> QED
      BY <2>1, <2>2, <2>3, <3>1, <3>2, Counted DEF Quiet
  <2>4. CASE /\ Put(reader[r].obj, reader[r].got) \/ PutFails(reader[r].obj, reader[r].got)
             /\ UNCHANGED bounds \/ Fault
    <3>1. Effect /\ Fills(reader[r].obj, reader[r].got) /\ Steady({})
      BY <1>f, <2>2, <2>4, PutEffect
    <3> QED
      BY <2>1, <2>2, <2>4, <3>1, Counted DEF Quiet
  <2> QED
    BY <1>6, <2>3, <2>4 DEF FillMiss
<1>7. ASSUME Release(r)
      PROVE  Quiet /\ NoFill /\ Others(r) /\ inflight' \in [policy -> Locks \cup {0}]
  <2>1. reader' = [reader EXCEPT ![r] = Returned(r, reader[r].memo)]
    BY <1>7 DEF Release
  <2>2. Others(r)
    BY <1>f, <2>1, EndsIt, GoesOthers
  <2>3. inflight' \in [policy -> Locks \cup {0}]
    BY <1>0, <1>7, <1>f DEF Release
  <2> QED
    BY <1>7, <1>q, <2>2, <2>3 DEF Release
<1>8. ASSUME Enter(r)
      PROVE  Quiet /\ NoFill /\ Others(r) /\ inflight' = inflight
  <2>1. Others(r)
    BY <1>8, EnterMoves, GoesOthers
  <2> QED
    BY <1>8, <1>q, <2>1 DEF Enter
<1>9. ASSUME GrepEnds(r)
      PROVE  Quiet /\ NoFill /\ Others(r) /\ inflight' = inflight
  <2>1. Others(r)
    BY <1>9, GrepEndsMoves, BecomesOthers
  <2> QED
    BY <1>9, <1>q, <2>1 DEF GrepEnds
<1> QED
  BY <1>0, <1>1, <1>2, <1>3, <1>4, <1>5, <1>6, <1>7, <1>8, <1>9 DEF ReaderAct, ReaderStep

(* The steps of the others.                                                 *)
LEMMA EvictQuiet ==
  ASSUME TypeOK, GenOrder, Evict
  PROVE  Quiet /\ NoFill /\ UNCHANGED <<reader, inflight>>
<1>1. Effect /\ NoFill /\ Steady({})
  BY EvictEffect
<1> QED
  BY <1>1, Counted DEF Evict, Quiet
-----------------------------------------------------------------------------
(* Types, and the room that the generations have.                           *)
CacheInv == TypeOK /\ EpochIs /\ BumpsOnce /\ CopyDeletes /\ BumpRoom /\ GenOrder

LEMMA TypeNext ==
  ASSUME TypeOK, policy' = policy, changes' \in Versions, version' \in [policy -> Versions],
         entry' \in [policy -> Entries], gen' \in GenMaps, local' \in GenMaps,
         epoch' \in 1 .. MaxRestarts + 1, bypass' \subseteq Nodes,
         script' \in Seq(Calls), copy' \in Seq(Calls),
         reader' \in [Readers -> ReaderStates], inflight' \in [policy -> Locks \cup {0}],
         suspect' \subseteq policy, faults' \in Nat, restarts' \in Nat
  PROVE  TypeOK'
<1>1. Calls' = Calls
  BY DEF Calls
<1>2. ReaderStates' = ReaderStates
  BY DEF ReaderStates
<1>3. policy' \in Policies
  BY DEF TypeOK
<1> QED
  BY <1>1, <1>2, <1>3 DEF TypeOK

LEMMA RoomKept ==
  ASSUME TypeOK, BumpRoom, NEW B, Steady(B), changes' \in Nat, changes' >= changes,
         \A n \in B : ToBump(n) /\ ~ToBump(n)',
         \A n \in Nodes : ToBump(n)' => ToBump(n) \/ changes' > changes
  PROVE  BumpRoom'
<1> SUFFICES ASSUME NEW n \in Nodes
             PROVE  /\ gen'[n][2] <= changes' /\ local'[n][2] <= changes'
                    /\ ToBump(n)' => gen'[n][2] < changes' /\ local'[n][2] < changes'
  BY DEF BumpRoom
<1>0. /\ gen[n] \in Gens \cup {NoGen} /\ local[n] \in Gens \cup {NoGen}
      /\ Current(n) \in Gens
      /\ Current(n) = gen[n] \/ Current(n) = local[n] \/ Current(n)[2] = 0
  BY CurrentIs
<1>1. gen[n][2] \in Nat /\ local[n][2] \in Nat /\ Current(n)[2] \in Nat /\ changes \in Nat
  BY <1>0, GenParts DEF TypeOK, Versions
<1>2. /\ gen[n][2] <= changes /\ local[n][2] <= changes
      /\ ToBump(n) => gen[n][2] < changes /\ local[n][2] < changes
  BY DEF BumpRoom
<1>3. Current(n)[2] <= changes /\ (ToBump(n) => Current(n)[2] < changes)
  BY <1>0, <1>1, <1>2
<1>4. BumpedTo(n)[2] = Current(n)[2] + 1 /\ NoGen[2] = 0
  BY GenFacts DEF BumpedTo
<1>5. /\ gen'[n] \in {gen[n], Current(n), NoGen} \/ (n \in B /\ gen'[n] = BumpedTo(n))
      /\ local'[n] \in {local[n], Current(n), NoGen} \/ (n \in B /\ local'[n] = BumpedTo(n))
  BY DEF Steady
<1>6. CASE n \in B
  BY <1>1, <1>2, <1>3, <1>4, <1>5, <1>6
<1>7. CASE n \notin B
  BY <1>1, <1>2, <1>3, <1>4, <1>5, <1>7
<1> QED
  BY <1>6, <1>7

LEMMA ScriptParts ==
  ASSUME script' = script \/ script' = <<>>
  PROVE  /\ \A n : ToBump(n)' => ToBump(n)
         /\ BumpsOnce => BumpsOnce'
  BY DEF ToBump, BumpsOnce

(* A step of the mutation that has the lock, or of the copy that has not.   *)
LEMMA HeadBumps ==
  ASSUME TypeOK, BumpRoom, script # <<>>, Head(script).do = "bump"
  PROVE  Current(Head(script).at)[2] < MaxChanges
<1> DEFINE c == Head(script)
<1>1. c \in Calls /\ c = script[1] /\ 1 \in DOMAIN script
  BY TailFacts DEF TypeOK
<1>2. c.at \in Nodes
  BY <1>1, CallFacts
<1>3. ToBump(c.at)
  BY <1>1 DEF ToBump
<1> HIDE DEF c
<1>4. /\ gen[c.at] \in Gens \cup {NoGen} /\ local[c.at] \in Gens \cup {NoGen}
      /\ Current(c.at) = gen[c.at] \/ Current(c.at) = local[c.at] \/ Current(c.at)[2] = 0
  BY <1>2, CurrentIs
<1>5. gen[c.at][2] \in Nat /\ local[c.at][2] \in Nat
  BY <1>4, GenParts
<1>6. gen[c.at][2] < changes /\ local[c.at][2] < changes /\ changes \in 0 .. MaxChanges
  BY <1>2, <1>3 DEF BumpRoom, TypeOK, Versions
<1>7. Current(c.at)[2] < MaxChanges
  BY <1>4, <1>5, <1>6, BoundsAssumption
<1> QED
  BY <1>7 DEF c

LEMMA MutationStepFacts ==
  ASSUME CacheInv, MutationStep
  PROVE  /\ script # <<>> /\ script' = Tail(script) /\ Head(script) \in Calls
         /\ UNCHANGED <<policy, changes, version, epoch, copy, reader, inflight, restarts>>
         /\ faults' \in Nat /\ Effect
         /\ Steady(IF Head(script).do = "bump" THEN {Head(script).at} ELSE {})
         /\ IF Head(script).do = "fill" THEN Fills(Head(script).at, Head(script).version) ELSE NoFill
         /\ \A o \in Forgets(Head(script)) : Gone(o)
         /\ suspect' = suspect \/ suspect' = suspect \ (Forgets(Head(script)) \ Filling)
<1> DEFINE c == Head(script)
<1>1. /\ script # <<>> /\ script' = Tail(script)
      /\ UNCHANGED <<policy, changes, version, epoch, copy, reader, inflight>>
      /\ suspect' = suspect \/ suspect' = suspect \ (Forgets(c) \ Filling)
      /\ Perform(c) \/ PerformFails(c)
      /\ UNCHANGED bounds \/ Fault
  BY DEF MutationStep
<1>2. TypeOK /\ GenOrder /\ BumpRoom
  BY DEF CacheInv
<1>3. c \in Calls
  BY <1>1, <1>2, TailFacts DEF TypeOK
<1>4. c.do = "bump" => Current(c.at)[2] < MaxChanges
  BY <1>1, <1>2, HeadBumps
<1> HIDE DEF c
<1>5. /\ Effect /\ Steady(IF c.do = "bump" THEN {c.at} ELSE {})
      /\ IF c.do = "fill" THEN Fills(c.at, c.version) ELSE NoFill
      /\ \A o \in Forgets(c) : Gone(o)
  BY <1>1, <1>2, <1>3, <1>4, CallEffect
<1>6. faults' \in Nat /\ restarts' = restarts
  BY <1>1, <1>2, Counted
<1> QED
  BY <1>1, <1>3, <1>5, <1>6 DEF c

LEMMA CopyStepFacts ==
  ASSUME CacheInv, CopyStep
  PROVE  /\ copy # <<>> /\ copy' = Tail(copy) /\ Head(copy) \in Calls /\ Head(copy).do = "delete"
         /\ UNCHANGED <<policy, changes, version, epoch, script, reader, inflight, suspect, restarts>>
         /\ faults' \in Nat /\ Effect /\ Steady({}) /\ NoFill
         /\ \A o \in Forgets(Head(copy)) : Gone(o)
<1> DEFINE c == Head(copy)
<1>1. /\ copy # <<>> /\ copy' = Tail(copy)
      /\ UNCHANGED <<policy, changes, version, epoch, script, reader, inflight, suspect>>
      /\ Perform(c) \/ PerformFails(c)
      /\ UNCHANGED bounds \/ Fault
  BY DEF CopyStep
<1>2. TypeOK /\ GenOrder
  BY DEF CacheInv
<1>3. c \in Calls /\ c.do = "delete"
  BY <1>1, <1>2, TailFacts DEF TypeOK, CacheInv, CopyDeletes
<1> HIDE DEF c
<1>5. /\ Effect /\ Steady(IF c.do = "bump" THEN {c.at} ELSE {})
      /\ IF c.do = "fill" THEN Fills(c.at, c.version) ELSE NoFill
      /\ \A o \in Forgets(c) : Gone(o)
  BY <1>1, <1>2, <1>3, CallEffect
<1>6. faults' \in Nat /\ restarts' = restarts
  BY <1>1, <1>2, Counted
<1>7. (IF c.do = "bump" THEN {c.at} ELSE {}) = {}
  BY <1>3
<1>8. Steady({})
  BY <1>5, <1>7
<1>9. NoFill
  BY <1>3, <1>5
<1> QED
  BY <1>1, <1>3, <1>5, <1>6, <1>8, <1>9 DEF c

(* The backend changes.                                                     *)
LEMMA ChangeFacts ==
  ASSUME TypeOK, NEW S, Change(S)
  PROVE  /\ policy' = policy /\ changes' = changes + 1 /\ changes \in Nat /\ changes' \in Versions
         /\ version' \in [policy -> Versions]
         /\ \A o \in policy : version'[o] = IF o \in S THEN changes + 1 ELSE version[o]
<1>1. /\ policy' = policy /\ changes' = changes + 1 /\ changes \in Nat /\ changes' \in Versions
  BY BoundsAssumption DEF TypeOK, Versions, Change
<1>2. version \in [policy -> Versions]
  BY DEF TypeOK
<1>3. version' = [o \in policy |-> IF o \in S THEN changes + 1 ELSE version[o]]
  BY DEF Change
<1> QED
  BY <1>1, <1>2, <1>3

LEMMA OwedType ==
  ASSUME NEW s \in Seq(Calls)
  PROVE  Owed(s) \subseteq policy
<1> SUFFICES ASSUME NEW o \in Owed(s) PROVE o \in policy
  OBVIOUS
<1>1. PICK i \in DOMAIN s : o \in Forgets(s[i])
  BY DEF Owed
<1>2. s[i] \in Calls
  OBVIOUS
<1> QED
  BY <1>1, <1>2, CallFacts DEF Forgets, Under

LEMMA FillingType == TypeOK => Filling \subseteq policy
<1> SUFFICES ASSUME TypeOK, NEW o \in Filling PROVE o \in policy
  OBVIOUS
<1>1. CASE \E r \in Readers : o = reader[r].obj
  BY <1>1, ReaderFields
<1>2. CASE \E i \in DOMAIN script : script[i].do = "fill" /\ o = script[i].at
  <2>1. PICK i \in DOMAIN script : script[i].do = "fill" /\ o = script[i].at
    BY <1>2
  <2>2. script[i] \in Calls
    BY DEF TypeOK
  <2> QED
    BY <2>1, <2>2, CallFacts
<1> QED
  BY <1>1, <1>2 DEF Filling

(* A mutation changes what it is about and, in an object store, listings    *)
(* above it that it leaves in the cache.                                    *)
LEMMA MutateParts ==
  ASSUME NEW S, NEW calls, Mutate(S, calls)
  PROVE  /\ \E T \in SUBSET policy :
              Change(S \cup T) /\ suspect' = suspect \cup (T \ Owed(calls))
         /\ script' = calls /\ script = <<>>
         /\ \A r \in Readers : reader[r].pc \in {"idle", "between"}
         /\ UNCHANGED <<entry, gen, local, epoch, bypass, copy, reader, inflight, faults, restarts>>
<1>1. PICK T \in Implied(S) :
        Change(S \cup T) /\ suspect' = suspect \cup (T \ Owed(calls))
  BY DEF Mutate
<1>2. T \in SUBSET policy
  BY DEF Implied, Above
<1> QED
  BY <1>1, <1>2 DEF Mutate, Unlocked

LEMMA MutateFacts ==
  ASSUME CacheInv, NEW S, NEW calls, Mutate(S, calls), Covers(calls, S)
  PROVE  CacheInv'
<1>1. /\ TypeOK /\ GenOrder /\ BumpRoom /\ EpochIs /\ CopyDeletes
  BY DEF CacheInv
<1>t. PICK T \in SUBSET policy :
        Change(S \cup T) /\ suspect' = suspect \cup (T \ Owed(calls))
  BY MutateParts
<1>2. Change(S \cup T) /\ script' = calls /\ script = <<>>
      /\ UNCHANGED <<entry, gen, local, epoch, bypass, copy, reader, inflight, faults, restarts>>
  BY <1>t, MutateParts
<1>s. suspect' \subseteq policy
  BY <1>1, <1>t DEF TypeOK
<1>3. /\ policy' = policy /\ changes' = changes + 1 /\ changes \in Nat /\ changes' \in Versions
      /\ version' \in [policy -> Versions]
  BY <1>1, <1>2, ChangeFacts
<1>4. Effect /\ Steady({})
  BY <1>1, <1>2, Untouched
<1>5. script' \in Seq(Calls)
  BY <1>2 DEF Covers, Script
<1>6. TypeOK'
  BY <1>1, <1>2, <1>3, <1>5, <1>s, TypeNext DEF TypeOK
<1>7. BumpsOnce'
  BY <1>2 DEF Covers, Script, BumpsOnce
<1>8. EpochIs' /\ CopyDeletes'
  BY <1>1, <1>2 DEF EpochIs, CopyDeletes
<1>9. changes' \in Nat /\ changes' > changes /\ changes' >= changes
  BY <1>3
<1>10. BumpRoom'
  BY <1>1, <1>4, <1>9, RoomKept
<1> QED
  BY <1>4, <1>6, <1>7, <1>8, <1>10 DEF CacheInv, Effect

LEMMA EmptyOwes == Owed(<<>>) = {}
  BY DEF Owed

(* One write of a copy: what it changes is still to be invalidated, or is   *)
(* known not to be.                                                         *)
Copies(p) == CopyRaw(p) \/ CopyUnseen(p)
LEMMA CopyRawFacts ==
  ASSUME TypeOK, CopyDeletes, NEW p \in Nodes, Copies(p)
  PROVE  /\ \E S \in SUBSET policy :
              /\ Change(S) /\ Filling \cap S \subseteq suspect'
              /\ S \subseteq suspect' \cup Owed(copy')
         /\ suspect \subseteq suspect' /\ suspect' \subseteq policy
         /\ copy' \in Seq(Calls) /\ CopyDeletes' /\ Owed(copy) \subseteq Owed(copy')
         /\ UNCHANGED <<entry, gen, local, epoch, bypass, script, reader, inflight, faults, restarts>>
<1>0. suspect \subseteq policy /\ copy \in Seq(Calls)
  BY DEF TypeOK
<1>1. CASE CopyRaw(p)
  <2> DEFINE calls == CopyCalls(p)
  <2>1. PICK S \in SUBSET policy :
          /\ Change(S)
          /\ suspect' = suspect \cup (S \ Owed(calls)) \cup (S \cap Filling)
    BY <1>1 DEF CopyRaw
  <2>2. /\ copy \in {<<>>, calls} /\ copy' = calls
        /\ UNCHANGED <<entry, gen, local, epoch, bypass, script, reader, inflight, faults, restarts>>
    BY <1>1 DEF CopyRaw
  <2>3. Plain(calls)
    <3>1. Plain(Both(p)) /\ Plain(ParentOf(p)) /\ Both(p) \in Seq(Calls)
      BY KeyCalls DEF Plain
    <3> QED
      BY <3>1, Appended DEF CopyCalls
  <2> HIDE DEF calls
  <2>4. copy' \in Seq(Calls) /\ CopyDeletes'
    BY <2>2, <2>3 DEF Plain, CopyDeletes
  <2>5. Owed(copy) \subseteq Owed(copy')
    BY <2>2, EmptyOwes
  <2> QED
    BY <1>0, <2>1, <2>2, <2>4, <2>5
<1>2. CASE CopyUnseen(p)
  <2>1. PICK S \in SUBSET policy : Change(S) /\ suspect' = suspect \cup S
    BY <1>2 DEF CopyUnseen
  <2>2. /\ copy' = copy
        /\ UNCHANGED <<entry, gen, local, epoch, bypass, script, reader, inflight, faults, restarts>>
    BY <1>2 DEF CopyUnseen
  <2> QED
    BY <1>0, <2>1, <2>2 DEF CopyDeletes
<1> QED
  BY <1>1, <1>2 DEF Copies

LEMMA CopyRawCache ==
  ASSUME CacheInv, NEW p \in Nodes, Copies(p)
  PROVE  CacheInv'
<1>1. /\ TypeOK /\ GenOrder /\ BumpRoom /\ EpochIs /\ BumpsOnce /\ CopyDeletes
  BY DEF CacheInv
<1>2. PICK S \in SUBSET policy : Change(S)
  BY <1>1, CopyRawFacts
<1>3. UNCHANGED <<entry, gen, local, epoch, bypass, script, reader, inflight, faults, restarts>>
  BY <1>1, CopyRawFacts
<1>4. /\ policy' = policy /\ changes' = changes + 1 /\ changes \in Nat /\ changes' \in Versions
      /\ version' \in [policy -> Versions]
  BY <1>1, <1>2, ChangeFacts
<1>5. Effect /\ Steady({})
  BY <1>1, <1>3, Untouched
<1>6. copy' \in Seq(Calls) /\ CopyDeletes'
  BY <1>1, CopyRawFacts
<1>7. suspect' \subseteq policy
  BY <1>1, CopyRawFacts
<1>8. TypeOK'
  BY <1>1, <1>3, <1>4, <1>6, <1>7, TypeNext DEF TypeOK
<1>9. (\A n : ToBump(n)' => ToBump(n)) /\ BumpsOnce' /\ EpochIs'
  BY <1>1, <1>3, ScriptParts DEF EpochIs
<1>10. changes' \in Nat /\ changes' >= changes
  BY <1>4
<1>11. BumpRoom'
  BY <1>1, <1>5, <1>9, <1>10, RoomKept
<1> QED
  BY <1>5, <1>6, <1>8, <1>9, <1>11 DEF CacheInv, Effect

LEMMA BackendFailsFacts ==
  ASSUME CacheInv, BackendFails
  PROVE  /\ CacheInv'
         /\ \E S \in SUBSET policy : Change(S) /\ suspect' = suspect \cup S
         /\ UNCHANGED <<entry, gen, local, epoch, bypass, script, copy, reader, inflight, restarts>>
<1>1. /\ TypeOK /\ GenOrder /\ BumpRoom /\ EpochIs /\ BumpsOnce /\ CopyDeletes
  BY DEF CacheInv
<1>2. PICK p \in Nodes : \E S \in SUBSET Under(p) : Change(S) /\ suspect' = suspect \cup S
  BY DEF BackendFails
<1>3. PICK S \in SUBSET Under(p) : Change(S) /\ suspect' = suspect \cup S
  BY <1>2
<1>4. S \in SUBSET policy
  BY DEF Under
<1>5. Fault /\ UNCHANGED <<entry, gen, local, epoch, bypass, script, copy, reader, inflight>>
  BY DEF BackendFails
<1>6. faults' \in Nat /\ restarts' = restarts
  BY <1>1, <1>5, Counted
<1>7. /\ policy' = policy /\ changes' = changes + 1 /\ changes \in Nat /\ changes' \in Versions
      /\ version' \in [policy -> Versions]
  BY <1>1, <1>3, ChangeFacts
<1>8. Effect /\ Steady({})
  BY <1>1, <1>5, Untouched
<1>9. suspect' \subseteq policy
  BY <1>1, <1>3, <1>4 DEF TypeOK
<1>10. TypeOK'
  BY <1>1, <1>5, <1>6, <1>7, <1>9, TypeNext DEF TypeOK
<1>11. (\A n : ToBump(n)' => ToBump(n)) /\ BumpsOnce' /\ EpochIs' /\ CopyDeletes'
  BY <1>1, <1>5, <1>6, ScriptParts DEF EpochIs, CopyDeletes
<1>12. changes' \in Nat /\ changes' >= changes
  BY <1>7
<1>13. BumpRoom'
  BY <1>1, <1>8, <1>11, <1>12, RoomKept
<1>14. CacheInv'
  BY <1>8, <1>10, <1>11, <1>13 DEF CacheInv, Effect
<1> QED
  BY <1>3, <1>4, <1>5, <1>6, <1>14

LEMMA CacheInit == Init => CacheInv
<1> SUFFICES ASSUME Init PROVE CacheInv
  OBVIOUS
<1>1. policy \in Policies /\ policy # {} /\ policy \subseteq Objects
  BY PolicyAssumption DEF Init
<1>2. /\ changes = 0 /\ version = [o \in policy |-> 0] /\ entry = [o \in policy |-> NoEntry]
      /\ gen = NoGens /\ local = NoGens /\ epoch = 1 /\ bypass = {} /\ script = <<>> /\ copy = <<>>
      /\ reader = [r \in Readers |-> Idle] /\ inflight = [o \in policy |-> 0] /\ suspect = {}
      /\ faults = 0 /\ restarts = 0
  BY DEF Init
<1>3. 0 \in Versions /\ 1 \in 1 .. MaxRestarts + 1
  BY BoundsAssumption DEF Versions
<1>4. NoGens \in GenMaps
  BY DEF NoGens, GenMaps
<1>5. Idle \in ReaderStates
  <2>1. Rest \in policy
    BY <1>1 DEF Rest
  <2>2. [o \in policy |-> 0] \in [policy -> Versions]
    BY <1>3
  <2> DEFINE no == FALSE
             s == [o \in policy |-> 0]
  <2>3. no \in BOOLEAN /\ s \in [policy -> Versions]
    BY <2>2
  <2>4. Idle = State("idle", Rest, s, NoGens, 0, no, 0)
    BY DEF Idle, State, Rest
  <2> HIDE DEF no, s
  <2>5. "idle" \in ReaderPCs
    BY DEF ReaderPCs
  <2>6. State("idle", Rest, s, NoGens, 0, no, 0) \in ReaderStates
    BY <1>3, <1>4, <2>1, <2>3, <2>5, Zenon DEF State, ReaderStates
  <2> QED
    BY <2>4, <2>6
<1>6. <<>> \in Seq(Calls) /\ DOMAIN <<>> = {}
  OBVIOUS
<1>7. version \in [policy -> Versions] /\ inflight \in [policy -> Locks \cup {0}]
      /\ reader \in [Readers -> ReaderStates] /\ entry \in [policy -> Entries]
  BY <1>2, <1>3, <1>5, NoEntryType
<1>8. TypeOK
  BY <1>1, <1>2, <1>3, <1>4, <1>6, <1>7 DEF TypeOK
<1>9. EpochIs /\ BumpsOnce /\ CopyDeletes /\ BumpRoom /\ GenOrder
  <2>1. EpochIs /\ BumpsOnce /\ CopyDeletes
    BY <1>2, <1>6 DEF EpochIs, BumpsOnce, CopyDeletes
  <2>2. \A n \in Nodes : gen[n] = NoGen /\ local[n] = NoGen /\ ~ToBump(n)
    BY <1>2, <1>6 DEF NoGens, ToBump
  <2> QED
    BY <1>2, <2>1, <2>2, GenFacts DEF BumpRoom, GenOrder
<1> QED
  BY <1>8, <1>9 DEF CacheInv

LEMMA RestartCache ==
  ASSUME CacheInv, Restart
  PROVE  CacheInv'
<1>1. /\ TypeOK /\ GenOrder /\ BumpRoom /\ EpochIs /\ BumpsOnce /\ CopyDeletes
  BY DEF CacheInv
<1>2. /\ restarts' = restarts + 1 /\ epoch' = epoch + 1 /\ local' = NoGens /\ bypass' = {}
      /\ script' = <<>> /\ copy' = <<>> /\ reader' = [r \in Readers |-> Idle]
      /\ inflight' = [o \in policy |-> 0]
      /\ suspect' = suspect \cup Owed(script) \cup Owed(copy) \cup {o \in policy : Bypassed(o[2])}
      /\ UNCHANGED <<policy, changes, version, entry, gen, faults>>
  BY DEF Restart
<1>3. /\ gen' \in GenMaps /\ local' \in GenMaps /\ GenOrder' /\ Steady({})
      /\ epoch' \in 1 .. MaxRestarts + 1
  BY <1>1, RestartGens
<1>4. Idle \in ReaderStates
  <2> DEFINE no == FALSE
  <2>1. /\ Idle = State("idle", Rest, Zero, NoGens, 0, no, 0) /\ no \in BOOLEAN
        /\ Rest \in policy /\ Zero \in [policy -> Versions] /\ NoGens \in GenMaps /\ 0 \in Versions
    BY <1>1, IdleIs
  <2> HIDE DEF no
  <2>2. "idle" \in ReaderPCs
    BY DEF ReaderPCs
  <2>3. State("idle", Rest, Zero, NoGens, 0, no, 0) \in ReaderStates
    BY <2>1, <2>2, Zenon DEF State, ReaderStates
  <2> QED
    BY <2>1, <2>3
<1>5. /\ reader' \in [Readers -> ReaderStates] /\ inflight' \in [policy -> Locks \cup {0}]
      /\ script' \in Seq(Calls) /\ copy' \in Seq(Calls)
  BY <1>2, <1>4
<1>6. suspect' \subseteq policy
  <2>1. script \in Seq(Calls) /\ copy \in Seq(Calls) /\ suspect \subseteq policy
    BY <1>1 DEF TypeOK
  <2>2. Owed(script) \subseteq policy /\ Owed(copy) \subseteq policy
    BY <2>1, OwedType
  <2> QED
    BY <1>2, <2>1, <2>2
<1>7. faults' \in Nat /\ restarts' \in Nat /\ bypass' \subseteq Nodes
  BY <1>1, <1>2 DEF TypeOK
<1>8. TypeOK'
  BY <1>1, <1>2, <1>3, <1>5, <1>6, <1>7, TypeNext DEF TypeOK
<1>9. EpochIs'
  BY <1>1, <1>2 DEF EpochIs, TypeOK
<1>10. (\A n : ToBump(n)' => ToBump(n)) /\ BumpsOnce' /\ CopyDeletes'
  BY <1>1, <1>2, ScriptParts DEF CopyDeletes
<1>11. changes' \in Nat /\ changes' >= changes
  BY <1>1, <1>2 DEF TypeOK, Versions
<1>12. BumpRoom'
  BY <1>1, <1>3, <1>10, <1>11, RoomKept
<1> QED
  BY <1>3, <1>8, <1>9, <1>10, <1>12 DEF CacheInv

LEMMA QuietCache ==
  ASSUME CacheInv, Quiet, reader' \in [Readers -> ReaderStates],
         inflight' \in [policy -> Locks \cup {0}]
  PROVE  CacheInv'
<1>1. /\ TypeOK /\ GenOrder /\ BumpRoom /\ EpochIs /\ BumpsOnce /\ CopyDeletes
  BY DEF CacheInv
<1>2. /\ UNCHANGED <<policy, changes, version, epoch, script, copy, suspect, restarts>>
      /\ faults' \in Nat /\ Effect /\ Steady({})
  BY DEF Quiet
<1>3. TypeOK'
  BY <1>1, <1>2, TypeNext DEF TypeOK, Effect
<1>4. (\A n : ToBump(n)' => ToBump(n)) /\ BumpsOnce' /\ CopyDeletes' /\ EpochIs'
  BY <1>1, <1>2, ScriptParts DEF CopyDeletes, EpochIs
<1>5. changes' \in Nat /\ changes' >= changes
  BY <1>1, <1>2 DEF TypeOK, Versions
<1>6. BumpRoom'
  BY <1>1, <1>2, <1>4, <1>5, RoomKept
<1> QED
  BY <1>2, <1>3, <1>4, <1>6 DEF CacheInv, Effect

LEMMA MutationStepCache ==
  ASSUME CacheInv, MutationStep
  PROVE  CacheInv'
<1> DEFINE c == Head(script)
           B == IF c.do = "bump" THEN {c.at} ELSE {}
<1>1. /\ TypeOK /\ GenOrder /\ BumpRoom /\ EpochIs /\ BumpsOnce /\ CopyDeletes
  BY DEF CacheInv
<1>2. /\ script # <<>> /\ script' = Tail(script) /\ c \in Calls
      /\ UNCHANGED <<policy, changes, version, epoch, copy, reader, inflight, restarts>>
      /\ faults' \in Nat /\ Effect /\ Steady(B)
      /\ suspect' = suspect \/ suspect' = suspect \ (Forgets(c) \ Filling)
  BY MutationStepFacts
<1>3. script \in Seq(Calls)
  BY <1>1 DEF TypeOK
<1>4. /\ Tail(script) \in Seq(Calls) /\ c = script[1] /\ 1 \in DOMAIN script
      /\ \A i \in DOMAIN Tail(script) :
           i + 1 \in DOMAIN script /\ i \in Nat /\ Tail(script)[i] = script[i + 1]
      /\ \A i \in DOMAIN Tail(script) : i >= 1
  BY <1>2, <1>3, TailFacts
<1> HIDE DEF c
<1>5. TypeOK'
  BY <1>1, <1>2, <1>4, TypeNext DEF TypeOK, Effect
<1>6. BumpsOnce'
  <2>1. ASSUME NEW i \in DOMAIN Tail(script), NEW j \in DOMAIN Tail(script),
               Tail(script)[i].do = "bump", Tail(script)[j].do = "bump",
               Tail(script)[i].at = Tail(script)[j].at
        PROVE  i = j
    <3>1. i + 1 = j + 1
      BY <1>1, <1>4, <2>1 DEF BumpsOnce
    <3> QED
      BY <1>4, <3>1
  <2> QED
    BY <1>2, <2>1 DEF BumpsOnce
<1>7. \A n : ToBump(n)' => ToBump(n)
  BY <1>2, <1>4 DEF ToBump
<1>8. \A n \in B : ToBump(n) /\ ~ToBump(n)'
  <2> SUFFICES ASSUME NEW n \in B PROVE ToBump(n) /\ ~ToBump(n)'
    OBVIOUS
  <2>1. c.do = "bump" /\ c.at = n
    OBVIOUS
  <2>2. ToBump(n)
    BY <1>4, <2>1 DEF ToBump
  <2>3. ASSUME NEW i \in DOMAIN Tail(script), Tail(script)[i].do = "bump", Tail(script)[i].at = n
        PROVE  FALSE
    <3>1. i + 1 = 1
      BY <1>1, <1>4, <2>1, <2>3 DEF BumpsOnce
    <3> QED
      BY <1>4, <3>1
  <2> QED
    BY <1>2, <2>2, <2>3 DEF ToBump
<1> HIDE DEF B
<1>9. changes' \in Nat /\ changes' >= changes
  BY <1>1, <1>2 DEF TypeOK, Versions
<1>10. BumpRoom'
  BY <1>1, <1>2, <1>7, <1>8, <1>9, RoomKept
<1>11. EpochIs' /\ CopyDeletes'
  BY <1>1, <1>2 DEF EpochIs, CopyDeletes
<1> QED
  BY <1>2, <1>5, <1>6, <1>10, <1>11 DEF CacheInv, Effect

LEMMA CopyStepCache ==
  ASSUME CacheInv, CopyStep
  PROVE  CacheInv'
<1>1. /\ TypeOK /\ GenOrder /\ BumpRoom /\ EpochIs /\ BumpsOnce /\ CopyDeletes
  BY DEF CacheInv
<1>2. /\ copy # <<>> /\ copy' = Tail(copy)
      /\ UNCHANGED <<policy, changes, version, epoch, script, reader, inflight, suspect, restarts>>
      /\ faults' \in Nat /\ Effect /\ Steady({})
  BY CopyStepFacts
<1>3. copy \in Seq(Calls)
  BY <1>1 DEF TypeOK
<1>4. /\ Tail(copy) \in Seq(Calls)
      /\ \A i \in DOMAIN Tail(copy) : i + 1 \in DOMAIN copy /\ Tail(copy)[i] = copy[i + 1]
  BY <1>2, <1>3, TailFacts
<1>5. TypeOK'
  BY <1>1, <1>2, <1>4, TypeNext DEF TypeOK, Effect
<1>6. CopyDeletes' /\ EpochIs'
  BY <1>1, <1>2, <1>4 DEF CopyDeletes, EpochIs
<1>7. (\A n : ToBump(n)' => ToBump(n)) /\ BumpsOnce'
  BY <1>1, <1>2, ScriptParts
<1>8. changes' \in Nat /\ changes' >= changes
  BY <1>1, <1>2 DEF TypeOK, Versions
<1>9. BumpRoom'
  BY <1>1, <1>2, <1>7, <1>8, RoomKept
<1> QED
  BY <1>2, <1>5, <1>6, <1>7, <1>9 DEF CacheInv, Effect

(* The steps one by one: what the proofs split on.                          *)
LEMMA NextCases ==
  ASSUME Next
  PROVE  \/ Mutation \/ BackendFails \/ MutationStep \/ CopyStep \/ Evict \/ Restart
         \/ (\E p \in Nodes : Copies(p)) \/ (\E r \in Readers : ReaderAct(r))
  BY DEF Next, ReaderAct, Copies

LEMMA CacheStep == CacheInv /\ [Next]_vars => CacheInv'
<1> SUFFICES ASSUME CacheInv, [Next]_vars PROVE CacheInv'
  OBVIOUS
<1>0. TypeOK /\ GenOrder
  BY DEF CacheInv
<1>1. CASE Mutation
  <2>1. PICK S, calls : Mutate(S, calls) /\ Covers(calls, S)
    BY <1>0, <1>1, MutationScript
  <2> QED
    BY <2>1, MutateFacts
<1>2. CASE BackendFails
  BY <1>2, BackendFailsFacts
<1>3. CASE MutationStep
  BY <1>3, MutationStepCache
<1>4. CASE CopyStep
  BY <1>4, CopyStepCache
<1>5. CASE Evict
  <2>1. Quiet /\ UNCHANGED <<reader, inflight>>
    BY <1>0, <1>5, EvictQuiet
  <2> QED
    BY <1>0, <2>1, QuietCache DEF TypeOK
<1>6. CASE Restart
  BY <1>6, RestartCache
<1>7. CASE \E p \in Nodes : Copies(p)
  BY <1>7, CopyRawCache
<1>8. CASE \E r \in Readers : ReaderAct(r)
  <2>1. PICK r \in Readers : ReaderAct(r)
    BY <1>8
  <2>2. Quiet /\ Others(r) /\ inflight' \in [policy -> Locks \cup {0}]
    BY <1>0, <2>1, ReaderQuiet
  <2> QED
    BY <2>2, QuietCache DEF Others
<1>9. CASE UNCHANGED vars
  <2>1. /\ UNCHANGED <<policy, changes, version, provider, wrapper, script, copy, suspect, bounds>>
        /\ UNCHANGED <<reader, inflight>>
    BY <1>9 DEF vars
  <2>2. Quiet
    BY <1>0, <2>1, Untouched, Counted DEF Quiet
  <2> QED
    BY <1>0, <2>1, <2>2, QuietCache DEF TypeOK
<1> QED
  BY <1>1, <1>2, <1>3, <1>4, <1>5, <1>6, <1>7, <1>8, <1>9, NextCases

LEMMA CacheHolds == Spec => []CacheInv
  BY CacheInit, CacheStep, PTL DEF Spec

(* TypeOK for every tree, policy and bound: in particular no generation     *)
(* outgrows the number of changes, because a mutation bumps a path once.    *)
THEOREM TypeCorrect == Spec => []TypeOK
<1>1. CacheInv => TypeOK
  BY DEF CacheInv
<1> QED
  BY <1>1, CacheHolds, PTL
-----------------------------------------------------------------------------
(* The in-flight mutexes.                                                   *)
LEMMA LockKept ==
  ASSUME LockInv, UNCHANGED <<policy, reader, inflight>>
  PROVE  LockInv'
  BY DEF LockInv, LockState, InTable, OneEach, OneHolder

(* A reader keeps its mutex, or has none.                                   *)
LEMMA LockGoes ==
  ASSUME LockInv, NEW r \in Readers, Others(r), UNCHANGED <<policy, inflight>>,
         reader'[r].lock = reader[r].lock,
         reader[r].lock # 0 => reader'[r].obj = reader[r].obj,
         reader'[r].pc \in Joined => reader[r].lock # 0,
         reader'[r].pc \in {"idle", "between", "join"} => reader[r].lock = 0,
         reader'[r].pc \in Holding /\ reader[r].lock # 0 =>
           reader[r].pc \in Holding \/ \A x \in Readers : ~Holds(x, reader[r].lock)
  PROVE  LockInv'
<1>1. \A x \in Readers : x # r => reader'[x] = reader[x]
  BY DEF Others
<1>2. LockState'
  BY <1>1 DEF LockInv, LockState
<1>3. InTable'
  BY <1>1 DEF LockInv, InTable
<1>4. OneEach'
  BY DEF LockInv, OneEach
<1>5. OneHolder'
  <2> SUFFICES ASSUME NEW x \in Readers, NEW y \in Readers,
                      reader'[x].lock # 0, reader'[x].lock = reader'[y].lock,
                      reader'[x].pc \in Holding, reader'[y].pc \in Holding, x # y
               PROVE  FALSE
    BY DEF OneHolder
  <2>1. reader[x].lock # 0 /\ reader[x].lock = reader[y].lock
    BY <1>1
  <2>2. \A z \in Readers : Holds(z, reader[z].lock) <=> reader[z].pc \in Holding
    BY DEF Holds, Holding
  <2>3. CASE x = r
    <3>1. reader[y].pc \in Holding /\ Holds(y, reader[r].lock)
      BY <1>1, <2>1, <2>2, <2>3
    <3>2. reader[r].pc \in Holding
      BY <2>1, <2>3, <3>1
    <3> QED
      BY <2>1, <2>3, <3>1, <3>2 DEF LockInv, OneHolder
  <2>4. CASE y = r
    <3>1. reader[x].pc \in Holding /\ Holds(x, reader[r].lock)
      BY <1>1, <2>1, <2>2, <2>4
    <3>2. reader[r].pc \in Holding
      BY <2>1, <2>4, <3>1
    <3> QED
      BY <2>1, <2>4, <3>1, <3>2 DEF LockInv, OneHolder
  <2>5. CASE x # r /\ y # r
    BY <1>1, <2>1, <2>5 DEF LockInv, OneHolder
  <2> QED
    BY <2>3, <2>4, <2>5
<1> QED
  BY <1>2, <1>3, <1>4, <1>5 DEF LockInv

LEMMA LockJoin ==
  ASSUME TypeOK, LockInv, NEW r \in Readers, Join(r)
  PROVE  LockInv'
<1> DEFINE o == reader[r].obj
<1>0. o \in policy /\ reader[r].pc = "join" /\ policy' = policy /\ inflight \in [policy -> Locks \cup {0}]
  BY ReaderFields DEF Join, TypeOK
<1>1. PICK k \in Locks :
        /\ inflight[o] # 0 => k = inflight[o]
        /\ inflight[o] = 0 => Free(k)
        /\ inflight' = [inflight EXCEPT ![o] = k]
        /\ \E d \in BOOLEAN :
             Becomes(r, "queue", o, reader[r].since, reader[r].memo, k, d, reader[r].got)
  BY JoinMoves
<1>2. /\ \A x \in Readers : x # r => reader'[x] = reader[x]
      /\ reader'[r].pc = "queue" /\ reader'[r].obj = o /\ reader'[r].lock = k
  BY <1>1 DEF Becomes
<1>3. k # 0
  BY FiniteAssumption DEF Locks
<1> HIDE DEF o
<1>4. \A p \in policy : inflight'[p] = IF p = o THEN k ELSE inflight[p]
  BY <1>0, <1>1
<1>5. inflight[o] = 0 => (\A p \in policy : inflight[p] # k) /\ (\A x \in Readers : reader[x].lock # k)
  BY <1>1 DEF Free
<1>6. LockState'
  BY <1>2, <1>3 DEF LockInv, LockState, Joined
<1>7. InTable'
  <2> SUFFICES ASSUME NEW x \in Readers, reader'[x].lock # 0
               PROVE  inflight'[reader'[x].obj] = reader'[x].lock
    BY DEF InTable
  <2>1. CASE x = r
    BY <1>0, <1>2, <1>4, <2>1
  <2>2. CASE x # r
    <3>1. reader'[x] = reader[x] /\ inflight[reader[x].obj] = reader[x].lock
          /\ reader[x].obj \in policy /\ reader[x].lock # 0
      BY <1>2, <2>2, ReaderFields DEF LockInv, InTable
    <3> QED
      BY <1>1, <1>4, <3>1
  <2> QED
    BY <2>1, <2>2
<1>8. OneEach'
  <2> SUFFICES ASSUME NEW p \in policy, NEW q \in policy,
                      inflight'[p] = inflight'[q], inflight'[p] # 0
               PROVE  p = q
    BY <1>0 DEF OneEach
  <2>1. \A u, v \in policy : inflight[u] = inflight[v] /\ inflight[u] # 0 => u = v
    BY DEF LockInv, OneEach
  <2> QED
    BY <1>0, <1>1, <1>4, <1>5, <2>1
<1>9. OneHolder'
  <2> SUFFICES ASSUME NEW x \in Readers, NEW y \in Readers,
                      reader'[x].lock # 0, reader'[x].lock = reader'[y].lock,
                      reader'[x].pc \in Holding, reader'[y].pc \in Holding
               PROVE  x = y
    BY DEF OneHolder
  <2>1. x # r /\ y # r
    BY <1>2 DEF Holding
  <2> QED
    BY <1>2, <2>1 DEF LockInv, OneHolder
<1> QED
  BY <1>6, <1>7, <1>8, <1>9 DEF LockInv

(* release_inflight takes the mutex out of the table for the last one only. *)
LEMMA LockRelease ==
  ASSUME TypeOK, LockInv, NEW r \in Readers, Release(r)
  PROVE  LockInv'
<1> DEFINE o == reader[r].obj
           l == reader[r].lock
<1>0. o \in policy /\ policy' = policy /\ inflight \in [policy -> Locks \cup {0}]
      /\ reader[r].memo \in GenMaps
  BY ReaderFields DEF Release, TypeOK
<1>1. inflight' = inflight \/ (/\ inflight' = [inflight EXCEPT ![o] = 0]
                               /\ \A x \in Readers \ {r} : reader[x].lock # l
                               /\ inflight[o] = l)
  BY <1>0 DEF Release
<1>2. Ends(r, reader[r].memo)
  BY <1>0, EndsIt DEF Release
<1>3. /\ \A x \in Readers : x # r => reader'[x] = reader[x]
      /\ reader'[r].pc \in {"idle", "between"} /\ reader'[r].lock = 0
  BY <1>2 DEF Ends, Becomes
<1> HIDE DEF o, l
<1>4. \A p \in policy :
        \/ inflight'[p] = inflight[p]
        \/ p = o /\ inflight'[p] = 0 /\ inflight[o] = l /\ \A x \in Readers \ {r} : reader[x].lock # l
  BY <1>0, <1>1
<1>5. LockState'
  BY <1>3 DEF LockInv, LockState, Joined
<1>6. InTable'
  <2> SUFFICES ASSUME NEW x \in Readers, reader'[x].lock # 0
               PROVE  inflight'[reader'[x].obj] = reader'[x].lock
    BY DEF InTable
  <2>1. x # r
    BY <1>3
  <2>2. reader'[x] = reader[x] /\ inflight[reader[x].obj] = reader[x].lock
        /\ reader[x].obj \in policy
    BY <1>3, <2>1, ReaderFields DEF LockInv, InTable
  <2> QED
    BY <1>4, <2>1, <2>2
<1>7. OneEach'
  <2> SUFFICES ASSUME NEW p \in policy, NEW q \in policy,
                      inflight'[p] = inflight'[q], inflight'[p] # 0
               PROVE  p = q
    BY <1>0 DEF OneEach
  <2>1. inflight'[p] = inflight[p] /\ inflight'[q] = inflight[q]
    BY <1>4
  <2> QED
    BY <2>1 DEF LockInv, OneEach
<1>8. OneHolder'
  <2> SUFFICES ASSUME NEW x \in Readers, NEW y \in Readers,
                      reader'[x].lock # 0, reader'[x].lock = reader'[y].lock,
                      reader'[x].pc \in Holding, reader'[y].pc \in Holding
               PROVE  x = y
    BY DEF OneHolder
  <2>1. x # r /\ y # r
    BY <1>3
  <2> QED
    BY <1>3, <2>1 DEF LockInv, OneHolder
<1> QED
  BY <1>5, <1>6, <1>7, <1>8 DEF LockInv

LEMMA LockRead ==
  ASSUME TypeOK, GenOrder, LockInv, NEW r \in Readers, ReaderAct(r)
  PROVE  LockInv'
<1>0. Others(r) /\ policy' = policy
  BY ReaderQuiet DEF Quiet
<1>f. /\ reader[r].since \in [policy -> Versions] /\ reader[r].memo \in GenMaps
  BY ReaderFields
<1>l. /\ reader[r].pc \in Joined => reader[r].lock # 0
      /\ reader[r].pc \in {"idle", "between", "join"} => reader[r].lock = 0
  BY DEF LockInv, LockState
<1>g. ASSUME NEW p \in ReaderPCs, NEW m, Goes(r, p, m)
      PROVE  reader'[r].pc = p /\ reader'[r].lock = reader[r].lock /\ reader'[r].obj = reader[r].obj
  BY <1>g DEF Goes, Becomes
<1>e. ASSUME NEW m, Ends(r, m)
      PROVE  reader'[r].pc \in {"idle", "between"} /\ reader'[r].lock = 0
  BY <1>e DEF Ends, Becomes
<1>1. ASSUME NEW o \in policy, Read(r, o) \/ GrepOn(r, o) PROVE LockInv'
  <2>1. /\ reader[r].pc \in {"idle", "between"} /\ inflight' = inflight
        /\ Acquire(r, o, Since, NoGens) \/ Acquire(r, o, reader[r].since, reader[r].memo)
    BY <1>1 DEF Read, GrepOn, Acquire
  <2>2. reader'[r].pc = "probe" /\ reader'[r].lock = 0
    BY <1>f, <2>1, AcquireMoves, SinceType, IdleIs DEF Becomes
  <2>3. reader[r].lock = 0
    BY <1>l, <2>1
  <2> QED
    BY <1>0, <2>1, <2>2, <2>3, LockGoes DEF Joined
<1>2. CASE Probe(r)
  <2>1. reader[r].pc = "probe" /\ inflight' = inflight
    BY <1>2, ProbeMoves
  <2>2. PICK m \in {reader[r].memo, Memo(r)} :
          \/ Goes(r, MissPC(r), m)
          \/ reader[r].lock # 0 /\ Goes(r, "release", m)
          \/ reader[r].lock = 0 /\ Ends(r, m)
    BY <1>2, ProbeMoves
  <2>3. CASE Goes(r, MissPC(r), m)
    <3>1. MissPC(r) \in ReaderPCs
      BY DEF MissPC, ReaderPCs
    <3>2. reader'[r].pc = MissPC(r) /\ reader'[r].lock = reader[r].lock
          /\ reader'[r].obj = reader[r].obj
      BY <1>g, <2>3, <3>1
    <3>3. CASE reader[r].lock = 0
      BY <1>0, <2>1, <3>2, <3>3, LockGoes DEF MissPC, Joined, Holding
    <3>4. CASE reader[r].lock # 0
      BY <1>0, <2>1, <3>2, <3>4, LockGoes DEF MissPC, Joined, Holding
    <3> QED
      BY <3>3, <3>4
  <2>4. CASE reader[r].lock # 0 /\ Goes(r, "release", m)
    <3>1. reader'[r].pc = "release" /\ reader'[r].lock = reader[r].lock
          /\ reader'[r].obj = reader[r].obj
      BY <1>g, <2>4 DEF ReaderPCs
    <3> QED
      BY <1>0, <2>1, <2>4, <3>1, LockGoes DEF Joined, Holding
  <2>5. CASE reader[r].lock = 0 /\ Ends(r, m)
    <3>1. reader'[r].pc \in {"idle", "between"} /\ reader'[r].lock = 0
      BY <1>e, <2>5
    <3> QED
      BY <1>0, <2>1, <2>5, <3>1, LockGoes DEF Joined, Holding
  <2> QED
    BY <2>2, <2>3, <2>4, <2>5
<1>3. CASE Enter(r)
  <2>1. reader[r].pc = "queue" /\ inflight' = inflight /\ \A x \in Readers : ~Holds(x, reader[r].lock)
    BY <1>3 DEF Enter
  <2>2. PICK p \in {"backend", "probe"} : Goes(r, p, reader[r].memo)
    BY <1>3, EnterMoves
  <2>3. reader'[r].pc = p /\ reader'[r].lock = reader[r].lock /\ reader'[r].obj = reader[r].obj
    BY <1>g, <2>2 DEF ReaderPCs
  <2>4. reader[r].lock # 0
    BY <1>l, <2>1 DEF Joined
  <2> QED
    BY <1>0, <2>1, <2>3, <2>4, LockGoes
<1>4. CASE ReadBackend(r)
  <2>1. reader[r].pc = "backend" /\ inflight' = inflight
    BY <1>4 DEF ReadBackend
  <2>2. reader'[r].pc \in {"release", "fill"} /\ reader'[r].lock = reader[r].lock
        /\ reader'[r].obj = reader[r].obj
    BY <1>4, ReadBackendMoves DEF Goes, Becomes
  <2>3. reader[r].lock # 0
    BY <1>l, <2>1 DEF Joined
  <2> QED
    BY <1>0, <2>1, <2>2, <2>3, LockGoes DEF Holding
<1>5. CASE FillMiss(r)
  <2>1. reader[r].pc = "fill" /\ inflight' = inflight
    BY <1>5 DEF FillMiss
  <2>2. reader'[r].pc = "release" /\ reader'[r].lock = reader[r].lock
        /\ reader'[r].obj = reader[r].obj
    BY <1>5, FillMissMoves DEF Becomes
  <2>3. reader[r].lock # 0
    BY <1>l, <2>1 DEF Joined
  <2> QED
    BY <1>0, <2>1, <2>2, <2>3, LockGoes DEF Holding
<1>6. CASE GrepEnds(r)
  <2>1. reader[r].pc = "between" /\ inflight' = inflight
    BY <1>6 DEF GrepEnds
  <2>2. reader'[r].pc = "idle" /\ reader'[r].lock = 0
    BY <1>6, GrepEndsMoves DEF Becomes
  <2>3. reader[r].lock = 0
    BY <1>l, <2>1
  <2> QED
    BY <1>0, <2>1, <2>2, <2>3, LockGoes DEF Holding, Joined
<1> QED
  BY <1>1, <1>2, <1>3, <1>4, <1>5, <1>6, LockJoin, LockRelease DEF ReaderAct, ReaderStep

LEMMA LockStep == CacheInv /\ LockInv /\ [Next]_vars => LockInv'
<1> SUFFICES ASSUME CacheInv, LockInv, [Next]_vars PROVE LockInv'
  OBVIOUS
<1>0. TypeOK /\ GenOrder
  BY DEF CacheInv
<1>1. CASE Mutation
  <2>1. PICK S, calls : Mutate(S, calls) /\ Covers(calls, S)
    BY <1>0, <1>1, MutationScript
  <2> QED
    BY <2>1, LockKept DEF Mutate, Change
<1>2. CASE BackendFails
  BY <1>2, LockKept DEF BackendFails, Change
<1>3. CASE MutationStep
  BY <1>3, LockKept DEF MutationStep
<1>4. CASE CopyStep
  BY <1>4, LockKept DEF CopyStep
<1>5. CASE Evict
  BY <1>5, LockKept DEF Evict
<1>6. CASE Restart
  <2>1. /\ reader' = [r \in Readers |-> Idle] /\ inflight' = [o \in policy |-> 0] /\ policy' = policy
    BY <1>6 DEF Restart
  <2>2. Idle.pc = "idle" /\ Idle.lock = 0
    BY DEF Idle
  <2>3. \A x \in Readers : reader'[x].pc = "idle" /\ reader'[x].lock = 0
    BY <2>1, <2>2
  <2>4. \A o \in policy : inflight'[o] = 0
    BY <2>1
  <2> QED
    BY <2>1, <2>3, <2>4 DEF LockInv, LockState, InTable, OneEach, OneHolder, Joined
<1>7. CASE \E p \in Nodes : Copies(p)
  BY <1>7, LockKept DEF Copies, CopyRaw, CopyUnseen, Change
<1>8. CASE \E r \in Readers : ReaderAct(r)
  BY <1>0, <1>8, LockRead
<1>9. CASE UNCHANGED vars
  BY <1>9, LockKept DEF vars
<1> QED
  BY <1>1, <1>2, <1>3, <1>4, <1>5, <1>6, <1>7, <1>8, <1>9, NextCases

LEMMA LockInit == Init => LockInv
<1> SUFFICES ASSUME Init PROVE LockInv
  OBVIOUS
<1>1. \A x \in Readers : reader[x].pc = "idle" /\ reader[x].lock = 0
  BY DEF Init, Idle
<1>2. \A o \in policy : inflight[o] = 0
  BY DEF Init
<1> QED
  BY <1>1, <1>2 DEF LockInv, LockState, InTable, OneEach, OneHolder, Joined

(* SingleFlight for any number of readers: the table does not lose a mutex  *)
(* that somebody holds or waits for, because release_inflight takes it out  *)
(* for the last one only, and a new mutex is none that is in use.           *)
THEOREM MissesOneByOne == Spec => []SingleFlight
<1>1. Spec => []LockInv
  BY CacheHolds, LockInit, LockStep, PTL DEF Spec
<1>2. LockInv => SingleFlight
  BY DEF LockInv, LockState, InTable, OneHolder, SingleFlight, Joined, Holding
<1> QED
  BY <1>1, <1>2, PTL
-----------------------------------------------------------------------------
(* What is stale is doomed.                                                 *)
LEMMA StaleForm ==
  TypeOK => (StaleIsDoomed <=> \A o \in policy : entry[o].on = TRUE /\ entry[o].version # version[o]
                                                  => Doomed(o))
<1> SUFFICES ASSUME TypeOK
             PROVE  StaleIsDoomed <=> \A o \in policy : entry[o].on = TRUE
                                        /\ entry[o].version # version[o] => Doomed(o)
  OBVIOUS
<1>1. ASSUME NEW o \in policy PROVE entry[o].on \in BOOLEAN
  <2>1. entry[o] \in Entries
    BY DEF TypeOK
  <2> QED
    BY <2>1, Zenon DEF Entries
<1>2. ASSUME NEW o \in policy PROVE entry[o].on <=> entry[o].on = TRUE
  BY <1>1, Zenon
<1> QED
  BY <1>2, Zenon DEF StaleIsDoomed

LEMMA OwedNext ==
  ASSUME policy' = policy
  PROVE  Owed(script)' = Owed(script') /\ Owed(copy)' = Owed(copy')
  BY DEF Owed, Forgets, Under

LEMMA EntryFields ==
  ASSUME TypeOK, NEW o \in policy
  PROVE  /\ entry[o].version \in Versions
         /\ \A n \in Nodes : entry[o].gens[n] \in Gens \cup {NoGen}
<1>1. entry[o] \in Entries
  BY DEF TypeOK
<1>2. entry[o].version \in Versions /\ entry[o].gens \in GenMaps
  BY <1>1 DEF Entries
<1> QED
  BY <1>2 DEF GenMaps

LEMMA CurrentType == TypeOK => \A n \in Nodes : Current(n) \in Gens
  BY CurrentIs

(* The one argument for all steps: no generation goes back, what is put is  *)
(* current, and what need not be doomed any more is gone.                   *)
Excused(o) == o \in suspect \cup Owed(script) \cup Owed(copy)
LEMMA StaleKept ==
  ASSUME TypeOK, TypeOK', policy' = policy, EntryOld, StaleIsDoomed,
         \A n \in Nodes : Leq(Current(n), Current(n)'),
         \A p \in policy : NewEntry(p) => \A n \in Scopes[p[2]] : entry'[p].gens[n] = Current(n)',
         \A p \in policy : NewEntry(p) => entry'[p].version = version'[p] \/ p \in suspect',
         \A p \in policy : Excused(p) \/ Bypassed(p[2]) => Excused(p)' \/ Gone(p),
         \A p \in policy : version'[p] = version[p] \/ Excused(p)'
  PROVE  EntryOld' /\ StaleIsDoomed'
<1>0. \A o \in policy : Scopes[o[2]] \subseteq Nodes
  BY PolicyFacts
<1>1. \A n \in Nodes : Current(n) \in Gens \cup {NoGen}
  BY CurrentIs
<1>2. \A n \in Nodes : Current(n)' \in Gens \cup {NoGen}
  <2>1. (\A n \in Nodes : Current(n) \in Gens)'
    BY CurrentType, PTL
  <2> QED
    BY <2>1 DEF Gens, NoGen
<1>3. \A o \in policy : \A n \in Nodes : entry[o].gens[n] \in Gens \cup {NoGen}
  BY EntryFields
<1>4. \A o \in policy : entry[o].on = TRUE => \A n \in Scopes[o[2]] : Leq(entry[o].gens[n], Current(n))
  BY DEF EntryOld
<1>5. ASSUME NEW o \in policy, entry'[o].on = TRUE, NEW n \in Scopes[o[2]]
      PROVE  Leq(entry'[o].gens[n], Current(n)')
  <2>0. n \in Nodes
    BY <1>0
  <2>1. CASE NewEntry(o)
    <3>1. entry'[o].gens[n] = Current(n)'
      BY <2>1
    <3> QED
      BY <1>2, <2>0, <3>1, OrderFacts
  <2>2. CASE ~NewEntry(o)
    <3>1. entry'[o] = entry[o]
      BY <1>5, <2>2 DEF NewEntry
    <3>2. Leq(entry[o].gens[n], Current(n)) /\ Leq(Current(n), Current(n)')
      BY <1>4, <1>5, <2>0, <3>1
    <3> QED
      BY <1>1, <1>2, <1>3, <2>0, <3>1, <3>2, OrderFacts
  <2> QED
    BY <2>1, <2>2
<1>6. EntryOld'
  BY <1>5 DEF EntryOld
<1>7. ASSUME NEW o \in policy, entry'[o].on = TRUE, entry'[o].version # version'[o]
      PROVE  Doomed(o)'
  <2>1. CASE Excused(o)'
    BY <2>1 DEF Excused, Doomed
  <2>2. CASE ~Excused(o)'
    <3>1. ~NewEntry(o)
      BY <1>7, <2>2 DEF Excused
    <3>2. entry'[o] = entry[o] /\ version'[o] = version[o]
      BY <1>7, <2>2, <3>1 DEF NewEntry
    <3>3. Doomed(o)
      BY <1>7, <3>2, StaleForm
    <3>4. CASE Excused(o) \/ Bypassed(o[2])
      <4>1. Gone(o)
        BY <2>2, <3>4
      <4>2. CASE Bypassed(o[2])'
        BY <4>2 DEF Doomed
      <4>3. ASSUME NEW n \in Scopes[o[2]], Lt(Current(n), Current(n)')
            PROVE  entry'[o].gens[n] # Current(n)'
        <5>1. n \in Nodes /\ Leq(entry[o].gens[n], Current(n))
          BY <1>0, <1>4, <1>7, <3>2
        <5>2. Lt(entry[o].gens[n], Current(n)')
          BY <1>1, <1>2, <1>3, <4>3, <5>1, OrderFacts
        <5> QED
          BY <1>2, <1>3, <3>2, <5>1, <5>2, OrderFacts
      <4> QED
        BY <1>7, <4>1, <4>2, <4>3 DEF Gone, Doomed
    <3>5. CASE \E n \in Scopes[o[2]] : entry[o].gens[n] # Current(n)
      <4>1. PICK n \in Scopes[o[2]] : entry[o].gens[n] # Current(n)
        BY <3>5
      <4>2. n \in Nodes /\ Leq(entry[o].gens[n], Current(n)) /\ Leq(Current(n), Current(n)')
        BY <1>0, <1>4, <1>7, <3>2
      <4>3. Lt(entry[o].gens[n], Current(n))
        BY <1>1, <1>3, <4>1, <4>2, OrderFacts
      <4>4. Lt(entry[o].gens[n], Current(n)')
        BY <1>1, <1>2, <1>3, <4>2, <4>3, OrderFacts
      <4>5. entry'[o].gens[n] # Current(n)'
        BY <1>2, <1>3, <3>2, <4>2, <4>4, OrderFacts
      <4> QED
        BY <4>5 DEF Doomed
    <3> QED
      BY <3>3, <3>4, <3>5 DEF Doomed, Excused
  <2> QED
    BY <2>1, <2>2
<1>8. StaleIsDoomed'
  <2>1. (StaleIsDoomed <=> \A o \in policy : entry[o].on = TRUE /\ entry[o].version # version[o]
                                             => Doomed(o))'
    BY StaleForm, PTL
  <2> QED
    BY <1>7, <2>1
<1> QED
  BY <1>6, <1>8

(* The steps that leave the backend and the scripts alone.                  *)
LEMMA StaleQuiet ==
  ASSUME TypeOK, TypeOK', EntryOld, StaleIsDoomed, Quiet,
         \A p \in policy : NewEntry(p) => entry'[p].version = version[p] \/ p \in suspect
  PROVE  EntryOld' /\ StaleIsDoomed'
<1>1. UNCHANGED <<policy, version, script, copy, suspect>> /\ Effect
  BY DEF Quiet
<1>2. \A p \in policy : Excused(p) => Excused(p)'
  BY <1>1, OwedNext DEF Excused
<1>3. \A p \in policy : Bypassed(p[2]) => Gone(p)
  BY <1>1, PolicyFacts DEF Effect, Gone
<1>4. /\ \A n \in Nodes : Leq(Current(n), Current(n)')
      /\ \A p \in policy : NewEntry(p) => \A n \in Scopes[p[2]] : entry'[p].gens[n] = Current(n)'
  BY <1>1 DEF Effect
<1>5. \A p \in policy : NewEntry(p) => entry'[p].version = version'[p] \/ p \in suspect'
  BY <1>1
<1> QED
  BY <1>1, <1>2, <1>3, <1>4, <1>5, StaleKept

(* The steps that leave the cache alone.                                    *)
LEMMA StaleChange ==
  ASSUME TypeOK, TypeOK', policy' = policy, EntryOld, StaleIsDoomed, GenOrder,
         UNCHANGED <<provider, wrapper>>,
         \A p \in policy : Excused(p) => Excused(p)',
         \A p \in policy : version'[p] = version[p] \/ Excused(p)'
  PROVE  EntryOld' /\ StaleIsDoomed'
<1>1. Effect /\ NoFill
  BY Untouched
<1>2. \A p \in policy : Bypassed(p[2]) => Gone(p)
  BY <1>1, PolicyFacts DEF Effect, Gone
<1>3. \A n \in Nodes : Leq(Current(n), Current(n)')
  BY <1>1 DEF Effect
<1>4. \A p \in policy : ~NewEntry(p)
  BY <1>1 DEF NoFill
<1> QED
  BY <1>2, <1>3, <1>4, StaleKept

LEMMA FillingIs ==
  /\ \A r \in Readers : reader[r].pc = "fill" => reader[r].obj \in Filling
  /\ \A i \in DOMAIN script : script[i].do = "fill" => script[i].at \in Filling
  BY DEF Filling

LEMMA StaleMutate ==
  ASSUME CacheInv, CacheInv', StaleInv, NEW S, NEW calls, Mutate(S, calls), Covers(calls, S)
  PROVE  StaleInv'
<1>1. TypeOK /\ TypeOK' /\ GenOrder /\ GenOrder' /\ EntryOld /\ StaleIsDoomed /\ VersionPast
  BY DEF CacheInv, StaleInv
<1>t. PICK T \in SUBSET policy :
        Change(S \cup T) /\ suspect' = suspect \cup (T \ Owed(calls))
  BY MutateParts
<1>2. /\ script' = calls /\ script = <<>> /\ UNCHANGED <<copy, reader>>
      /\ UNCHANGED <<provider, wrapper>>
      /\ \A r \in Readers : reader[r].pc \in {"idle", "between"}
  BY MutateParts
<1>3. /\ policy' = policy /\ changes' = changes + 1 /\ changes \in Nat
      /\ \A o \in policy : version'[o] = IF o \in S \cup T THEN changes + 1 ELSE version[o]
  BY <1>1, <1>t, ChangeFacts
<1>4. S \cap policy \subseteq Owed(script)' /\ Owed(script) = {} /\ Owed(copy)' = Owed(copy)
      /\ T \subseteq suspect' \cup Owed(script)' /\ suspect \subseteq suspect'
  BY <1>2, <1>3, <1>t, OwedNext, EmptyOwes DEF Covers
<1>5. \A p \in policy : Excused(p) => Excused(p)'
  BY <1>2, <1>4 DEF Excused
<1>6. \A p \in policy : version'[p] = version[p] \/ Excused(p)'
  BY <1>3, <1>4 DEF Excused
<1>7. EntryOld' /\ StaleIsDoomed'
  BY <1>1, <1>2, <1>3, <1>5, <1>6, StaleChange
<1>8. Alone'
  BY <1>2 DEF Alone
<1>9. VersionPast'
  <2>1. \A o \in policy : version[o] \in Nat /\ version[o] <= changes
    BY <1>1 DEF VersionPast, TypeOK, Versions
  <2> QED
    BY <1>3, <2>1 DEF VersionPast
<1>10. FillCurrent'
  <2>1. \A r \in Readers : reader'[r].pc # "fill"
    BY <1>2
  <2>2. ASSUME NEW i \in DOMAIN script', script'[i].do = "fill"
        PROVE  script'[i].version = version'[script'[i].at]
    <3>1. script'[i].version = changes + 1 /\ script'[i].at \in S
      BY <1>2, <2>2 DEF Covers, Script
    <3>2. script'[i] \in Calls
      BY <1>2 DEF Covers, Script
    <3>3. script'[i].at \in policy
      BY <2>2, <3>2, CallFacts
    <3> QED
      BY <1>3, <3>1, <3>3
  <2> QED
    BY <2>1, <2>2 DEF FillCurrent
<1> QED
  BY <1>1, <1>7, <1>8, <1>9, <1>10 DEF StaleInv

(* A change that is made good by an invalidation to come, or that never is. *)
LEMMA StaleChanged ==
  ASSUME CacheInv, CacheInv', StaleInv, NEW S, Change(S), UNCHANGED <<provider, wrapper, script, reader>>,
         suspect \subseteq suspect', Owed(copy) \subseteq Owed(copy'),
         Filling \cap S \subseteq suspect',
         S \cap policy \subseteq suspect' \cup Owed(copy')
  PROVE  StaleInv'
<1>1. TypeOK /\ TypeOK' /\ GenOrder /\ GenOrder' /\ EntryOld /\ StaleIsDoomed /\ VersionPast
      /\ FillCurrent /\ Alone
  BY DEF CacheInv, StaleInv
<1>3. /\ policy' = policy /\ changes' = changes + 1 /\ changes \in Nat
      /\ \A o \in policy : version'[o] = IF o \in S THEN changes + 1 ELSE version[o]
  BY <1>1, ChangeFacts
<1>4. Owed(copy)' = Owed(copy') /\ Owed(script)' = Owed(script)
  BY <1>3, OwedNext
<1>5. \A p \in policy : Excused(p) => Excused(p)'
  BY <1>4 DEF Excused
<1>6. \A p \in policy : version'[p] = version[p] \/ Excused(p)'
  BY <1>3, <1>4 DEF Excused
<1>7. EntryOld' /\ StaleIsDoomed'
  BY <1>1, <1>3, <1>5, <1>6, StaleChange
<1>8. Alone'
  BY <1>1 DEF Alone
<1>9. VersionPast'
  <2>1. \A o \in policy : version[o] \in Nat /\ version[o] <= changes
    BY <1>1 DEF VersionPast, TypeOK, Versions
  <2> QED
    BY <1>3, <2>1 DEF VersionPast
<1>10. FillCurrent'
  <2>1. ASSUME NEW r \in Readers, reader[r].pc = "fill"
        PROVE  reader[r].got = version'[reader[r].obj] \/ reader[r].obj \in suspect'
    <3>1. reader[r].obj \in policy
      BY ReaderFields, <1>1
    <3>2. reader[r].obj \in Filling
      BY <2>1, FillingIs
    <3> QED
      BY <1>1, <1>3, <2>1, <3>1, <3>2 DEF FillCurrent
  <2>2. ASSUME NEW i \in DOMAIN script, script[i].do = "fill"
        PROVE  script[i].version = version'[script[i].at] \/ script[i].at \in suspect'
    <3>1. script[i] \in Calls
      BY <1>1 DEF TypeOK
    <3>2. script[i].at \in policy
      BY <2>2, <3>1, CallFacts
    <3>3. script[i].at \in Filling
      BY <2>2, FillingIs
    <3> QED
      BY <1>1, <1>3, <2>2, <3>2, <3>3 DEF FillCurrent
  <2> QED
    BY <2>1, <2>2 DEF FillCurrent
<1> QED
  BY <1>1, <1>7, <1>8, <1>9, <1>10 DEF StaleInv

LEMMA StaleBackendFails ==
  ASSUME CacheInv, CacheInv', StaleInv, BackendFails
  PROVE  StaleInv'
<1>1. PICK S \in SUBSET policy : Change(S) /\ suspect' = suspect \cup S
  BY BackendFailsFacts
<1>2. UNCHANGED <<provider, wrapper, script, copy, reader>>
  BY BackendFailsFacts
<1> QED
  BY <1>1, <1>2, StaleChanged

LEMMA StaleCopyRaw ==
  ASSUME CacheInv, CacheInv', StaleInv, NEW p \in Nodes, Copies(p)
  PROVE  StaleInv'
<1>0. TypeOK /\ CopyDeletes
  BY DEF CacheInv
<1>1. PICK S \in SUBSET policy :
        /\ Change(S) /\ Filling \cap S \subseteq suspect'
        /\ S \subseteq suspect' \cup Owed(copy')
  BY <1>0, CopyRawFacts
<1>2. /\ suspect \subseteq suspect' /\ Owed(copy) \subseteq Owed(copy')
      /\ UNCHANGED <<provider, wrapper, script, reader>>
  BY <1>0, CopyRawFacts
<1> QED
  BY <1>1, <1>2, StaleChanged

(* A call of the mutation: what it forgets is gone, unless somebody is      *)
(* about to fill it again.                                                  *)
LEMMA StaleMutationStep ==
  ASSUME CacheInv, CacheInv', StaleInv, MutationStep
  PROVE  StaleInv'
<1> DEFINE c == Head(script)
<1>1. TypeOK /\ TypeOK' /\ GenOrder' /\ EntryOld /\ StaleIsDoomed /\ VersionPast
      /\ FillCurrent /\ Alone
  BY DEF CacheInv, StaleInv
<1>2. /\ script # <<>> /\ script' = Tail(script) /\ c \in Calls
      /\ UNCHANGED <<policy, changes, version, copy, reader>>
      /\ Effect
      /\ IF c.do = "fill" THEN Fills(c.at, c.version) ELSE NoFill
      /\ \A o \in Forgets(c) : Gone(o)
      /\ suspect' = suspect \/ suspect' = suspect \ (Forgets(c) \ Filling)
  BY MutationStepFacts
<1>3. script \in Seq(Calls)
  BY <1>1 DEF TypeOK
<1>4. /\ c = script[1] /\ 1 \in DOMAIN script
      /\ \A i \in DOMAIN Tail(script) : i + 1 \in DOMAIN script /\ Tail(script)[i] = script[i + 1]
  BY <1>2, <1>3, TailFacts
<1>5. Owed(script) = Forgets(c) \cup Owed(Tail(script))
  BY <1>2, <1>3, OwedTail
<1>6. Owed(script)' = Owed(Tail(script)) /\ Owed(copy)' = Owed(copy)
  BY <1>2, OwedNext
<1> HIDE DEF c
<1>7. \A p \in policy : Excused(p) \/ Bypassed(p[2]) => Excused(p)' \/ Gone(p)
  <2>1. \A p \in policy : Bypassed(p[2]) => Gone(p)
    BY <1>1, <1>2, PolicyFacts DEF Effect, Gone
  <2>2. \A p \in policy : Excused(p) => Excused(p)' \/ Gone(p)
    BY <1>2, <1>5, <1>6 DEF Excused
  <2> QED
    BY <2>1, <2>2
<1>8. ASSUME NEW p \in policy, NewEntry(p)
      PROVE  entry'[p].version = version'[p] \/ p \in suspect'
  <2>1. c.do = "fill" /\ p = c.at /\ entry'[p].version = c.version
    BY <1>2, <1>8 DEF NoFill, Fills
  <2>2. c.version = version[c.at] \/ c.at \in suspect
    BY <1>1, <1>4, <2>1 DEF FillCurrent
  <2>3. Forgets(c) = {}
    BY <2>1 DEF Forgets
  <2> QED
    BY <1>2, <2>1, <2>2, <2>3
<1>9. /\ \A n \in Nodes : Leq(Current(n), Current(n)')
      /\ \A p \in policy : NewEntry(p) => \A n \in Scopes[p[2]] : entry'[p].gens[n] = Current(n)'
  BY <1>2 DEF Effect
<1>10. EntryOld' /\ StaleIsDoomed'
  BY <1>1, <1>2, <1>7, <1>8, <1>9, StaleKept
<1>11. Alone' /\ VersionPast'
  BY <1>1, <1>2 DEF Alone, VersionPast
<1>12. FillCurrent'
  <2>1. \A r \in Readers : reader'[r].pc # "fill"
    BY <1>1, <1>2 DEF Alone
  <2>2. ASSUME NEW i \in DOMAIN script', script'[i].do = "fill"
        PROVE  script'[i].version = version'[script'[i].at] \/ script'[i].at \in suspect'
    <3>1. i + 1 \in DOMAIN script /\ script'[i] = script[i + 1]
      BY <1>2, <1>4
    <3>2. script[i + 1].at \in Filling
      BY <2>2, <3>1, FillingIs
    <3>3. script[i + 1].version = version[script[i + 1].at] \/ script[i + 1].at \in suspect
      BY <1>1, <2>2, <3>1 DEF FillCurrent
    <3> QED
      BY <1>2, <3>1, <3>2, <3>3
  <2> QED
    BY <2>1, <2>2 DEF FillCurrent
<1> QED
  BY <1>1, <1>10, <1>11, <1>12 DEF StaleInv

LEMMA StaleCopyStep ==
  ASSUME CacheInv, CacheInv', StaleInv, CopyStep
  PROVE  StaleInv'
<1> DEFINE c == Head(copy)
<1>1. TypeOK /\ TypeOK' /\ GenOrder' /\ EntryOld /\ StaleIsDoomed /\ VersionPast
      /\ FillCurrent /\ Alone
  BY DEF CacheInv, StaleInv
<1>2. /\ copy # <<>> /\ copy' = Tail(copy) /\ c \in Calls
      /\ UNCHANGED <<policy, changes, version, script, reader, suspect>>
      /\ Effect /\ NoFill
      /\ \A o \in Forgets(c) : Gone(o)
  BY CopyStepFacts
<1>3. copy \in Seq(Calls)
  BY <1>1 DEF TypeOK
<1>5. Owed(copy) = Forgets(c) \cup Owed(Tail(copy))
  BY <1>2, <1>3, OwedTail
<1>6. Owed(copy)' = Owed(Tail(copy)) /\ Owed(script)' = Owed(script)
  BY <1>2, OwedNext
<1> HIDE DEF c
<1>7. \A p \in policy : Excused(p) \/ Bypassed(p[2]) => Excused(p)' \/ Gone(p)
  <2>1. \A p \in policy : Bypassed(p[2]) => Gone(p)
    BY <1>1, <1>2, PolicyFacts DEF Effect, Gone
  <2>2. \A p \in policy : Excused(p) => Excused(p)' \/ Gone(p)
    BY <1>2, <1>5, <1>6 DEF Excused
  <2> QED
    BY <2>1, <2>2
<1>8. \A p \in policy : ~NewEntry(p)
  BY <1>2 DEF NoFill
<1>9. \A n \in Nodes : Leq(Current(n), Current(n)')
  BY <1>2 DEF Effect
<1>10. EntryOld' /\ StaleIsDoomed'
  BY <1>1, <1>2, <1>7, <1>8, <1>9, StaleKept
<1>11. Alone' /\ VersionPast' /\ FillCurrent'
  BY <1>1, <1>2 DEF Alone, VersionPast, FillCurrent
<1> QED
  BY <1>1, <1>10, <1>11 DEF StaleInv

(* Where the pc of a reader comes from.                                     *)
LEMMA ReaderPC ==
  ASSUME TypeOK, NEW r \in Readers, ReaderAct(r)
  PROVE  /\ reader'[r].pc = "fill" =>
              reader'[r].obj = reader[r].obj /\ reader'[r].got = version[reader[r].obj]
         /\ reader[r].pc \in {"idle", "between"} /\ script # <<>> =>
              reader'[r].pc \in {"idle", "between"}
<1>f. /\ reader[r].since \in [policy -> Versions] /\ reader[r].memo \in GenMaps
  BY ReaderFields
<1>1. ASSUME NEW o \in policy, Read(r, o) \/ GrepOn(r, o)
      PROVE  reader'[r].pc = "probe" /\ script = <<>>
  <2>1. Acquire(r, o, Since, NoGens) \/ Acquire(r, o, reader[r].since, reader[r].memo)
    BY <1>1 DEF Read, GrepOn
  <2>2. script = <<>>
    BY <2>1 DEF Acquire
  <2>3. reader'[r].pc = "probe"
    BY <1>f, <2>1, AcquireMoves, SinceType, IdleIs DEF Becomes
  <2> QED
    BY <2>2, <2>3
<1>2. ASSUME Probe(r) PROVE reader[r].pc = "probe" /\ reader'[r].pc # "fill"
  <2>1. reader[r].pc = "probe"
    BY <1>2, ProbeMoves
  <2>2. PICK m \in {reader[r].memo, Memo(r)} :
          \/ Goes(r, MissPC(r), m)
          \/ reader[r].lock # 0 /\ Goes(r, "release", m)
          \/ reader[r].lock = 0 /\ Ends(r, m)
    BY <1>2, ProbeMoves
  <2>3. CASE Goes(r, MissPC(r), m)
    BY <2>1, <2>3 DEF Goes, Becomes, MissPC
  <2>4. CASE Goes(r, "release", m)
    BY <2>1, <2>4 DEF Goes, Becomes
  <2>5. CASE Ends(r, m)
    BY <2>1, <2>5 DEF Ends, Becomes
  <2> QED
    BY <2>2, <2>3, <2>4, <2>5
<1>3. ASSUME Join(r) PROVE reader[r].pc = "join" /\ reader'[r].pc = "queue"
  BY <1>3, JoinMoves DEF Join, Becomes
<1>4. ASSUME ReadBackend(r)
      PROVE  /\ reader[r].pc = "backend"
             /\ reader'[r].pc = "fill" =>
                  reader'[r].obj = reader[r].obj /\ reader'[r].got = version[reader[r].obj]
  <2>1. reader[r].pc = "backend"
    BY <1>4 DEF ReadBackend
  <2>2. CASE Goes(r, "release", reader[r].memo)
    BY <2>1, <2>2 DEF Goes, Becomes
  <2>3. CASE Becomes(r, "fill", reader[r].obj, reader[r].since, reader[r].memo, reader[r].lock,
                     reader[r].leader, version[reader[r].obj])
    BY <2>1, <2>3 DEF Becomes
  <2> QED
    BY <1>4, <2>2, <2>3, ReadBackendMoves
<1>5. ASSUME FillMiss(r) PROVE reader[r].pc = "fill" /\ reader'[r].pc = "release"
  BY <1>5, FillMissMoves DEF FillMiss, Becomes
<1>6. ASSUME Release(r) PROVE reader[r].pc = "release" /\ reader'[r].pc \in {"idle", "between"}
  <2>1. reader[r].pc = "release" /\ reader' = [reader EXCEPT ![r] = Returned(r, reader[r].memo)]
    BY <1>6 DEF Release
  <2>2. Ends(r, reader[r].memo)
    BY <1>f, <2>1, EndsIt
  <2> QED
    BY <2>1, <2>2 DEF Ends, Becomes
<1>7. ASSUME Enter(r) PROVE reader[r].pc = "queue" /\ reader'[r].pc \in {"backend", "probe"}
  BY <1>7, EnterMoves DEF Enter, Goes, Becomes
<1>8. ASSUME GrepEnds(r) PROVE reader'[r].pc = "idle"
  BY <1>8, GrepEndsMoves DEF Becomes
<1> QED
  BY <1>1, <1>2, <1>3, <1>4, <1>5, <1>6, <1>7, <1>8 DEF ReaderAct, ReaderStep

LEMMA StaleRead ==
  ASSUME CacheInv, CacheInv', StaleInv, NEW r \in Readers, ReaderAct(r)
  PROVE  StaleInv'
<1>1. TypeOK /\ TypeOK' /\ GenOrder /\ GenOrder' /\ EntryOld /\ StaleIsDoomed /\ VersionPast
      /\ FillCurrent /\ Alone
  BY DEF CacheInv, StaleInv
<1>2. /\ Quiet /\ Others(r)
      /\ NoFill \/ (FillMiss(r) /\ Fills(reader[r].obj, reader[r].got))
  BY <1>1, ReaderQuiet
<1>3. \A p \in policy : NewEntry(p) => entry'[p].version = version[p] \/ p \in suspect
  <2>1. CASE NoFill
    BY <2>1 DEF NoFill
  <2>2. CASE FillMiss(r) /\ Fills(reader[r].obj, reader[r].got)
    <3>1. reader[r].pc = "fill"
      BY <2>2 DEF FillMiss
    <3>2. reader[r].got = version[reader[r].obj] \/ reader[r].obj \in suspect
      BY <1>1, <3>1 DEF FillCurrent
    <3> QED
      BY <2>2, <3>2 DEF Fills
  <2> QED
    BY <1>2, <2>1, <2>2
<1>4. EntryOld' /\ StaleIsDoomed'
  BY <1>1, <1>2, <1>3, StaleQuiet
<1>5. UNCHANGED <<policy, changes, version, script, suspect>>
  BY <1>2 DEF Quiet
<1>6. \A x \in Readers : x # r => reader'[x] = reader[x]
  BY <1>2 DEF Others
<1>7. /\ reader'[r].pc = "fill" =>
           reader'[r].obj = reader[r].obj /\ reader'[r].got = version[reader[r].obj]
      /\ reader[r].pc \in {"idle", "between"} /\ script # <<>> =>
           reader'[r].pc \in {"idle", "between"}
  BY <1>1, ReaderPC
<1>8. FillCurrent'
  BY <1>1, <1>5, <1>6, <1>7 DEF FillCurrent
<1>9. Alone'
  BY <1>1, <1>5, <1>6, <1>7 DEF Alone
<1>10. VersionPast'
  BY <1>1, <1>5 DEF VersionPast
<1> QED
  BY <1>1, <1>4, <1>8, <1>9, <1>10 DEF StaleInv

LEMMA StaleRestart ==
  ASSUME CacheInv, CacheInv', StaleInv, Restart
  PROVE  StaleInv'
<1>1. TypeOK /\ TypeOK' /\ GenOrder /\ GenOrder' /\ EpochIs /\ EntryOld /\ StaleIsDoomed /\ VersionPast
  BY DEF CacheInv, StaleInv
<1>2. /\ script' = <<>> /\ copy' = <<>> /\ reader' = [r \in Readers |-> Idle]
      /\ suspect' = suspect \cup Owed(script) \cup Owed(copy) \cup {o \in policy : Bypassed(o[2])}
      /\ UNCHANGED <<policy, changes, version, entry>>
  BY DEF Restart
<1>3. \A n \in Nodes : Leq(Current(n), Current(n)')
  BY <1>1, RestartGens
<1>4. \A p \in policy : ~NewEntry(p)
  BY <1>2 DEF NewEntry
<1>5. \A p \in policy : Excused(p) \/ Bypassed(p[2]) => Excused(p)'
  BY <1>2 DEF Excused
<1>6. EntryOld' /\ StaleIsDoomed'
  BY <1>1, <1>2, <1>3, <1>4, <1>5, StaleKept
<1>7. Alone' /\ VersionPast'
  BY <1>1, <1>2 DEF Alone, VersionPast
<1>8. \A r \in Readers : reader'[r].pc = "idle"
  BY <1>2 DEF Idle
<1>9. FillCurrent'
  BY <1>2, <1>8 DEF FillCurrent
<1> QED
  BY <1>1, <1>6, <1>7, <1>9 DEF StaleInv

LEMMA StaleStep == CacheInv /\ StaleInv /\ [Next]_vars => StaleInv'
<1> SUFFICES ASSUME CacheInv, StaleInv, [Next]_vars PROVE StaleInv'
  OBVIOUS
<1>c. CacheInv'
  BY CacheStep
<1>0. TypeOK /\ TypeOK' /\ GenOrder /\ GenOrder' /\ EntryOld /\ StaleIsDoomed /\ VersionPast
      /\ FillCurrent /\ Alone
  BY <1>c DEF CacheInv, StaleInv
<1>q. ASSUME Quiet, NoFill, reader' = reader PROVE StaleInv'
  <2>1. EntryOld' /\ StaleIsDoomed'
    BY <1>0, <1>q, StaleQuiet DEF NoFill
  <2>2. Alone' /\ VersionPast' /\ FillCurrent'
    BY <1>0, <1>q DEF Quiet, Alone, VersionPast, FillCurrent
  <2> QED
    BY <1>0, <2>1, <2>2 DEF StaleInv
<1>1. CASE Mutation
  <2>1. PICK S, calls : Mutate(S, calls) /\ Covers(calls, S)
    BY <1>0, <1>1, MutationScript
  <2> QED
    BY <1>c, <2>1, StaleMutate
<1>2. CASE BackendFails
  BY <1>2, <1>c, StaleBackendFails
<1>3. CASE MutationStep
  BY <1>3, <1>c, StaleMutationStep
<1>4. CASE CopyStep
  BY <1>4, <1>c, StaleCopyStep
<1>5. CASE Evict
  BY <1>0, <1>5, <1>q, EvictQuiet
<1>6. CASE Restart
  BY <1>6, <1>c, StaleRestart
<1>7. CASE \E p \in Nodes : Copies(p)
  BY <1>7, <1>c, StaleCopyRaw
<1>8. CASE \E r \in Readers : ReaderAct(r)
  BY <1>8, <1>c, StaleRead
<1>9. CASE UNCHANGED vars
  <2>1. /\ UNCHANGED <<policy, changes, version, provider, wrapper, script, copy, suspect, bounds>>
        /\ reader' = reader
    BY <1>9 DEF vars
  <2>2. Quiet /\ NoFill
    BY <1>0, <2>1, Untouched, Counted DEF Quiet
  <2> QED
    BY <1>q, <2>1, <2>2
<1> QED
  BY <1>1, <1>2, <1>3, <1>4, <1>5, <1>6, <1>7, <1>8, <1>9, NextCases

LEMMA StaleInit == Init => StaleInv
<1> SUFFICES ASSUME Init PROVE StaleInv
  OBVIOUS
<1>1. TypeOK /\ GenOrder
  BY CacheInit DEF CacheInv
<1>2. /\ script = <<>> /\ changes = 0 /\ version = [o \in policy |-> 0]
      /\ entry = [o \in policy |-> NoEntry] /\ reader = [r \in Readers |-> Idle]
  BY DEF Init
<1>3. \A o \in policy : entry[o].on = FALSE /\ version[o] = 0
  BY <1>2, NoEntryType
<1>4. EntryOld /\ VersionPast /\ Alone
  BY <1>2, <1>3 DEF EntryOld, VersionPast, Alone
<1>5. \A r \in Readers : reader[r].pc = "idle"
  BY <1>2 DEF Idle
<1>6. FillCurrent
  BY <1>2, <1>5 DEF FillCurrent
<1>7. StaleIsDoomed
  BY <1>1, <1>3, StaleForm
<1> QED
  BY <1>1, <1>4, <1>6, <1>7 DEF StaleInv

LEMMA StaleHolds == Spec => []StaleInv
  BY CacheHolds, StaleInit, StaleStep, PTL DEF Spec

(* StaleIsDoomed for every tree, policy and number of readers, faults and   *)
(* restarts: bump_generation never lets a generation return that an entry   *)
(* was filled under, whether the provider loses it, a put of it fails or    *)
(* the process starts again.  What may stay stale are the objects that no   *)
(* invalidation reaches: copy_within_mount on a multi-write mount or cut    *)
(* off by an error, failed backend calls, directories made along the way,   *)
(* a fill that races a copy, and what a restart cuts off.                   *)
THEOREM StaleOnItsWayOut == Spec => []StaleIsDoomed
<1>1. StaleInv => StaleIsDoomed
  BY DEF StaleInv
<1> QED
  BY <1>1, StaleHolds, PTL
-----------------------------------------------------------------------------
(* What a reader may not fall behind is out of its reach.                   *)

(* A reader that is under way goes on with what it may not fall behind, and *)
(* has seen no other generation than it had; where its path was bypassed it *)
(* does not go.                                                             *)
Keeps(r) ==
  /\ reader'[r].since = reader[r].since
  /\ \A n \in Nodes : \/ reader'[r].memo[n] = reader[r].memo[n]
                      \/ reader[r].memo[n] = NoGen /\ reader'[r].memo[n] = Current(n)
  /\ \A o \in policy : Bypassed(o[2]) /\ Away(r, o) => Away(r, o)'

LEMMA KeepsSame ==
  ASSUME NEW r, reader'[r] = reader[r]
  PROVE  Keeps(r)
  BY DEF Keeps, Away

LEMMA KeepsGoing ==
  ASSUME TypeOK, NEW r \in Readers, reader[r].pc # "between",
         reader'[r].since = reader[r].since,
         reader'[r].memo \in {reader[r].memo, Memo(r)},
         reader'[r].obj = reader[r].obj \/ reader'[r].pc = "between"
  PROVE  Keeps(r)
<1>1. \A n \in Nodes : \/ reader'[r].memo[n] = reader[r].memo[n]
                       \/ reader[r].memo[n] = NoGen /\ reader'[r].memo[n] = Current(n)
  BY MemoIs
<1> QED
  BY <1>1 DEF Keeps, Away

LEMMA ReaderKeeps ==
  ASSUME TypeOK, NEW r \in Readers, ReaderAct(r)
  PROVE  \/ reader'[r].pc = "idle" /\ reader'[r].since = Zero
         \/ Active(r) /\ Keeps(r)
         \/ \E o \in policy : Read(r, o)
<1>f. /\ reader[r].since \in [policy -> Versions] /\ reader[r].memo \in GenMaps
  BY ReaderFields
<1>g. ASSUME NEW p, NEW m \in {reader[r].memo, Memo(r)}, Goes(r, p, m),
             reader[r].pc # "between", reader[r].pc # "idle"
      PROVE  Active(r) /\ Keeps(r)
  <2>1. reader'[r].since = reader[r].since /\ reader'[r].memo = m /\ reader'[r].obj = reader[r].obj
    BY <1>g DEF Goes, Becomes
  <2> QED
    BY <1>g, <2>1, KeepsGoing DEF Active
<1>e. ASSUME NEW m \in {reader[r].memo, Memo(r)}, Ends(r, m),
             reader[r].pc # "between", reader[r].pc # "idle"
      PROVE  (reader'[r].pc = "idle" /\ reader'[r].since = Zero) \/ (Active(r) /\ Keeps(r))
  <2>1. \/ reader'[r].pc = "idle" /\ reader'[r].since = Zero
        \/ reader'[r].pc = "between" /\ reader'[r].since = reader[r].since /\ reader'[r].memo = m
    BY <1>e DEF Ends, Becomes
  <2> QED
    BY <1>e, <2>1, KeepsGoing DEF Active
<1>1. ASSUME NEW o \in policy, GrepOn(r, o) PROVE Active(r) /\ Keeps(r)
  <2>1. reader[r].pc = "between" /\ Acquire(r, o, reader[r].since, reader[r].memo)
    BY <1>1 DEF GrepOn
  <2>2. ~Bypassed(o[2])
    BY <2>1 DEF Acquire
  <2>3. reader'[r].since = reader[r].since /\ reader'[r].memo = reader[r].memo
        /\ reader'[r].obj = o
    <3>1. Becomes(r, "probe", o, reader[r].since, reader[r].memo, 0, FALSE, 0)
      BY <1>f, <2>1, AcquireMoves
    <3> QED
      BY <3>1 DEF Becomes
  <2>4. \A x \in policy : Bypassed(x[2]) /\ Away(r, x) => Away(r, x)'
    <3> SUFFICES ASSUME NEW x \in policy, Bypassed(x[2]) PROVE reader'[r].obj # x
      BY Zenon DEF Away
    <3> QED
      BY <2>2, <2>3
  <2>5. Keeps(r)
    BY <2>3, <2>4, Zenon DEF Keeps
  <2> QED
    BY <2>1, <2>5 DEF Active
<1>2. CASE Probe(r)
  <2>1. reader[r].pc = "probe"
    BY <1>2, ProbeMoves
  <2>2. PICK m \in {reader[r].memo, Memo(r)} :
          \/ Goes(r, MissPC(r), m)
          \/ reader[r].lock # 0 /\ Goes(r, "release", m)
          \/ reader[r].lock = 0 /\ Ends(r, m)
    BY <1>2, ProbeMoves
  <2>3. CASE Goes(r, MissPC(r), m)
    BY <1>g, <2>1, <2>3
  <2>4. CASE Goes(r, "release", m)
    BY <1>g, <2>1, <2>4
  <2>5. CASE Ends(r, m)
    BY <1>e, <2>1, <2>5
  <2> QED
    BY <2>2, <2>3, <2>4, <2>5
<1>3. CASE Join(r)
  <2>1. reader[r].pc = "join"
    BY <1>3 DEF Join
  <2>2. reader'[r].since = reader[r].since /\ reader'[r].memo = reader[r].memo
        /\ reader'[r].obj = reader[r].obj
    BY <1>3, JoinMoves DEF Becomes
  <2> QED
    BY <2>1, <2>2, KeepsGoing DEF Active
<1>4. CASE ReadBackend(r)
  <2>1. reader[r].pc = "backend"
    BY <1>4 DEF ReadBackend
  <2>2. reader'[r].since = reader[r].since /\ reader'[r].memo = reader[r].memo
        /\ reader'[r].obj = reader[r].obj
    BY <1>4, ReadBackendMoves DEF Goes, Becomes
  <2> QED
    BY <2>1, <2>2, KeepsGoing DEF Active
<1>5. CASE FillMiss(r)
  <2>1. reader[r].pc = "fill"
    BY <1>5 DEF FillMiss
  <2>2. reader'[r].since = reader[r].since /\ reader'[r].memo = reader[r].memo
        /\ reader'[r].obj = reader[r].obj
    BY <1>5, FillMissMoves DEF Becomes
  <2> QED
    BY <2>1, <2>2, KeepsGoing DEF Active
<1>6. CASE Release(r)
  <2>1. reader[r].pc = "release" /\ reader' = [reader EXCEPT ![r] = Returned(r, reader[r].memo)]
    BY <1>6 DEF Release
  <2>2. Ends(r, reader[r].memo)
    BY <1>f, <2>1, EndsIt
  <2> QED
    BY <1>e, <2>1, <2>2
<1>7. CASE Enter(r)
  <2>1. reader[r].pc = "queue"
    BY <1>7 DEF Enter
  <2>2. PICK p \in {"backend", "probe"} : Goes(r, p, reader[r].memo)
    BY <1>7, EnterMoves
  <2> QED
    BY <1>g, <2>1, <2>2
<1>8. CASE GrepEnds(r)
  BY <1>8, GrepEndsMoves DEF Becomes
<1> QED
  BY <1>1, <1>2, <1>3, <1>4, <1>5, <1>6, <1>7, <1>8 DEF ReaderAct, ReaderStep

(* What it has seen does not go back.                                       *)
LEMMA SeenGrows ==
  ASSUME TypeOK, TypeOK', NEW r \in Readers, Keeps(r),
         \A n \in Nodes : Leq(Current(n), Current(n)')
  PROVE  \A n \in Nodes : /\ Leq(Seen(r, n), Seen(r, n)')
                          /\ Seen(r, n) \in Gens \cup {NoGen} /\ Seen(r, n)' \in Gens \cup {NoGen}
<1>0. (\A n \in Nodes : Current(n) \in Gens)'
  BY CurrentType, PTL
<1> SUFFICES ASSUME NEW n \in Nodes
             PROVE  /\ Leq(Seen(r, n), Seen(r, n)')
                    /\ Seen(r, n) \in Gens \cup {NoGen} /\ Seen(r, n)' \in Gens \cup {NoGen}
  OBVIOUS
<1>1. Current(n) \in Gens \cup {NoGen} /\ Current(n) \in Gens
  BY CurrentIs
<1>2. Current(n)' \in Gens \cup {NoGen}
  BY <1>0
<1>3. reader[r].memo[n] \in Gens \cup {NoGen}
  BY ReaderFields DEF GenMaps
<1>4. \/ reader'[r].memo[n] = reader[r].memo[n]
      \/ reader[r].memo[n] = NoGen /\ reader'[r].memo[n] = Current(n)
  BY DEF Keeps
<1>5. Seen(r, n) = IF reader[r].memo[n] # NoGen THEN reader[r].memo[n] ELSE Current(n)
  BY DEF Seen
<1>6. Seen(r, n)' = IF reader'[r].memo[n] # NoGen THEN reader'[r].memo[n] ELSE Current(n)'
  BY DEF Seen
<1>7. Leq(Current(n), Current(n)') /\ Leq(Current(n), Current(n))
  BY <1>1, OrderFacts
<1>8. Leq(reader[r].memo[n], reader[r].memo[n])
  BY <1>3, OrderFacts
<1>9. NoGen \notin Gens
  BY GenFacts
<1> QED
  BY <1>1, <1>2, <1>3, <1>4, <1>5, <1>6, <1>7, <1>8, <1>9

(* So what was out of its reach stays there.                                *)
LEMMA ReachKept ==
  ASSUME TypeOK, TypeOK', policy' = policy, Effect, OutOfReach,
         NEW r \in Readers, Active(r), Keeps(r),
         \A o \in policy : NewEntry(o) => entry'[o].version >= reader[r].since[o],
         NEW o \in policy, entry'[o].on = TRUE, entry'[o].version < reader'[r].since[o]
  PROVE  DeadFor(r, o)' \/ (Bypassed(o[2])' /\ Away(r, o)')
<1>0. reader'[r].since = reader[r].since
  BY DEF Keeps
<1>1. entry'[o].version \in Nat /\ reader[r].since[o] \in Nat
  <2>1. entry' \in [policy -> Entries]
    BY DEF Effect
  <2>2. entry'[o].version \in Versions
    BY <2>1 DEF Entries
  <2>3. reader[r].since[o] \in Versions
    BY ReaderFields
  <2> QED
    BY <2>2, <2>3 DEF Versions
<1>2. ~NewEntry(o)
  BY <1>0, <1>1
<1>3. entry'[o] = entry[o]
  BY <1>2 DEF NewEntry
<1>4. DeadFor(r, o) \/ (Bypassed(o[2]) /\ Away(r, o))
  BY <1>0, <1>3 DEF OutOfReach
<1>5. CASE DeadFor(r, o)
  <2>1. PICK n \in Scopes[o[2]] : Lt(entry[o].gens[n], Seen(r, n))
    BY <1>5 DEF DeadFor
  <2>2. n \in Nodes
    BY PolicyFacts
  <2>3. \A m \in Nodes : Leq(Current(m), Current(m)')
    BY DEF Effect
  <2>4. /\ Leq(Seen(r, n), Seen(r, n)')
        /\ Seen(r, n) \in Gens \cup {NoGen} /\ Seen(r, n)' \in Gens \cup {NoGen}
    BY <2>2, <2>3, SeenGrows
  <2>5. entry[o].gens[n] \in Gens \cup {NoGen}
    BY <2>2, EntryFields
  <2>6. Lt(entry[o].gens[n], Seen(r, n)')
    BY <2>1, <2>4, <2>5, OrderFacts
  <2>7. Lt(entry[o].gens[n], Seen(r, n))'
    BY <1>3, <2>6 DEF Lt
  <2> QED
    BY <2>7 DEF DeadFor
<1>6. CASE Bypassed(o[2]) /\ Away(r, o)
  <2>1. o[2] \in Nodes
    BY PolicyFacts
  <2> QED
    BY <1>6, <2>1 DEF Effect, Keeps
<1> QED
  BY <1>4, <1>5, <1>6

LEMMA ReaderNumbers ==
  ASSUME TypeOK, NEW r \in Readers, NEW o \in policy
  PROVE  reader[r].since[o] \in Nat /\ version[o] \in Nat /\ reader[r].got \in Nat
  BY ReaderFields DEF TypeOK, Versions

(* The steps in which no reader moves.                                      *)
LEMMA ReadOther ==
  ASSUME TypeOK, TypeOK', ReadInv, Effect, policy' = policy, reader' = reader,
         \A o \in policy : version[o] <= version'[o],
         \A r \in Readers, o \in policy :
           Active(r) /\ NewEntry(o) => entry'[o].version >= reader[r].since[o],
         \A r \in Readers, i \in DOMAIN script' :
           Active(r) /\ script'[i].do = "fill" => script'[i].version >= reader[r].since[script'[i].at]
  PROVE  ReadInv'
<1>1. SincePast'
  <2> SUFFICES ASSUME NEW r \in Readers, NEW o \in policy
               PROVE  reader[r].since[o] <= version'[o]
    BY DEF SincePast
  <2>1. reader[r].since[o] <= version[o]
    BY DEF ReadInv, SincePast
  <2>2. reader[r].since[o] \in Nat /\ version[o] \in Nat
    BY ReaderNumbers
  <2>3. version'[o] \in Nat
    BY DEF TypeOK, Versions
  <2> QED
    BY <2>1, <2>2, <2>3
<1>2. FillFresh'
  BY DEF ReadInv, FillFresh, Active
<1>3. OutOfReach'
  <2> SUFFICES ASSUME NEW r \in Readers, NEW o \in policy, Active(r)',
                      entry'[o].on = TRUE, entry'[o].version < reader'[r].since[o]
               PROVE  DeadFor(r, o)' \/ (Bypassed(o[2])' /\ Away(r, o)')
    BY DEF OutOfReach
  <2>1. Active(r) /\ Keeps(r)
    BY KeepsSame DEF Active
  <2> QED
    BY <2>1, ReachKept DEF ReadInv
<1> QED
  BY <1>1, <1>2, <1>3 DEF ReadInv

LEMMA VersionGrows ==
  ASSUME TypeOK, VersionPast, NEW S, Change(S)
  PROVE  /\ \A o \in policy : version[o] <= version'[o]
<1>1. /\ changes \in Nat
      /\ \A o \in policy : version'[o] = IF o \in S THEN changes + 1 ELSE version[o]
  BY ChangeFacts
<1>2. \A o \in policy : version[o] \in Nat /\ version[o] <= changes
  BY DEF VersionPast, TypeOK, Versions
<1> QED
  BY <1>1, <1>2

LEMMA ReadMutate ==
  ASSUME CacheInv, CacheInv', StaleInv, ReadInv, NEW S, NEW calls, Mutate(S, calls), Covers(calls, S)
  PROVE  ReadInv'
<1>1. TypeOK /\ TypeOK' /\ GenOrder /\ VersionPast
  BY DEF CacheInv, StaleInv
<1>t. PICK T \in SUBSET policy : Change(S \cup T)
  BY MutateParts
<1>2. script' = calls /\ reader' = reader /\ UNCHANGED <<provider, wrapper>>
  BY MutateParts
<1>3. policy' = policy /\ changes \in Nat
  BY <1>1, <1>t, ChangeFacts
<1>4. Effect /\ NoFill
  BY <1>1, <1>2, Untouched
<1>5. ASSUME NEW r \in Readers, NEW i \in DOMAIN script', script'[i].do = "fill"
      PROVE  script'[i].version >= reader[r].since[script'[i].at]
  <2>1. script'[i].version = changes + 1 /\ script'[i] \in Calls
    BY <1>2, <1>5 DEF Covers, Script
  <2>2. script'[i].at \in policy
    BY <1>5, <2>1, CallFacts
  <2> DEFINE o == script'[i].at
  <2>3. reader[r].since[o] <= version[o] /\ version[o] <= changes
    BY <1>1, <2>2 DEF ReadInv, SincePast, VersionPast
  <2>4. reader[r].since[o] \in Nat /\ version[o] \in Nat
    BY <1>1, <2>2, ReaderNumbers
  <2> QED
    BY <1>3, <2>1, <2>3, <2>4
<1>6. \A o \in policy : version[o] <= version'[o]
  BY <1>1, <1>t, VersionGrows
<1> QED
  BY <1>1, <1>2, <1>3, <1>4, <1>5, <1>6, ReadOther DEF NoFill

LEMMA ReadChanged ==
  ASSUME CacheInv, CacheInv', StaleInv, ReadInv, NEW S, Change(S),
         UNCHANGED <<provider, wrapper, script, reader>>
  PROVE  ReadInv'
<1>1. TypeOK /\ TypeOK' /\ GenOrder /\ VersionPast
  BY DEF CacheInv, StaleInv
<1>2. policy' = policy
  BY <1>1, ChangeFacts
<1>3. Effect /\ NoFill
  BY <1>1, Untouched
<1>4. \A o \in policy : version[o] <= version'[o]
  BY <1>1, VersionGrows
<1> QED
  BY <1>1, <1>2, <1>3, <1>4, ReadOther DEF NoFill, ReadInv, FillFresh

LEMMA ReadQuiet ==
  ASSUME CacheInv, CacheInv', ReadInv, Effect, NoFill, UNCHANGED <<policy, version, script, reader>>
  PROVE  ReadInv'
<1>1. TypeOK /\ TypeOK'
  BY DEF CacheInv
<1>2. \A o \in policy : version[o] <= version'[o]
  BY <1>1 DEF TypeOK, Versions
<1> QED
  BY <1>1, <1>2, ReadOther DEF NoFill, ReadInv, FillFresh

LEMMA ReadMutationStep ==
  ASSUME CacheInv, CacheInv', ReadInv, MutationStep
  PROVE  ReadInv'
<1> DEFINE c == Head(script)
<1>1. TypeOK /\ TypeOK' /\ FillFresh
  BY DEF CacheInv, ReadInv
<1>2. /\ script # <<>> /\ script' = Tail(script)
      /\ UNCHANGED <<policy, version, reader>> /\ Effect
      /\ IF c.do = "fill" THEN Fills(c.at, c.version) ELSE NoFill
  BY MutationStepFacts
<1>3. script \in Seq(Calls)
  BY <1>1 DEF TypeOK
<1>4. /\ c = script[1] /\ 1 \in DOMAIN script
      /\ \A i \in DOMAIN Tail(script) : i + 1 \in DOMAIN script /\ Tail(script)[i] = script[i + 1]
  BY <1>2, <1>3, TailFacts
<1> HIDE DEF c
<1>5. ASSUME NEW r \in Readers, NEW o \in policy, Active(r), NewEntry(o)
      PROVE  entry'[o].version >= reader[r].since[o]
  <2>1. c.do = "fill" /\ o = c.at /\ entry'[o].version = c.version
    BY <1>2, <1>5 DEF NoFill, Fills
  <2> QED
    BY <1>1, <1>4, <1>5, <2>1 DEF FillFresh
<1>6. ASSUME NEW r \in Readers, NEW i \in DOMAIN script', Active(r), script'[i].do = "fill"
      PROVE  script'[i].version >= reader[r].since[script'[i].at]
  BY <1>1, <1>2, <1>4, <1>6 DEF FillFresh
<1>7. \A o \in policy : version[o] <= version'[o]
  BY <1>1, <1>2 DEF TypeOK, Versions
<1> QED
  BY <1>1, <1>2, <1>5, <1>6, <1>7, ReadOther

(* A reader moves.                                                          *)
LEMMA ReadBegins ==
  ASSUME CacheInv, CacheInv', StaleInv, ReadInv, NEW r \in Readers, NEW q \in policy, Read(r, q)
  PROVE  /\ \A o \in policy : reader'[r].since[o] <= version[o]
         /\ \A x \in Readers : reader[x].pc = "fill" => reader[x].got >= reader'[r].since[reader[x].obj]
         /\ script = <<>>
         /\ \A o \in policy : entry[o].on = TRUE /\ entry[o].version < reader'[r].since[o] =>
              DeadFor(r, o)' \/ (Bypassed(o[2])' /\ Away(r, o)')
<1>1. TypeOK /\ EntryOld /\ FillCurrent /\ StaleIsDoomed /\ GenOrder
  BY DEF CacheInv, StaleInv
<1>2. Acquire(r, q, Since, NoGens)
  BY DEF Read
<1>3. /\ script = <<>> /\ ~Bypassed(q[2]) /\ UNCHANGED <<policy, entry, gen, local, epoch, bypass>>
  BY <1>2 DEF Acquire
<1>4. reader'[r].pc = "probe" /\ reader'[r].obj = q /\ reader'[r].since = Since
      /\ reader'[r].memo = NoGens
  BY <1>1, <1>2, AcquireMoves, SinceType, IdleIs DEF Becomes
<1>5. \A o \in policy : /\ version[o] \in Nat
                        /\ Since[o] = IF o \in Owed(copy) \cup suspect THEN 0 ELSE version[o]
  BY <1>1 DEF Since, TypeOK, Versions
<1>6. \A o \in policy : reader'[r].since[o] <= version[o]
  BY <1>4, <1>5
<1>7. ASSUME NEW x \in Readers, reader[x].pc = "fill"
      PROVE  reader[x].got >= reader'[r].since[reader[x].obj]
  <2>1. reader[x].obj \in policy
    BY <1>1, ReaderFields
  <2>2. reader[x].got \in Nat
    BY <1>1, <2>1, ReaderNumbers
  <2>3. reader[x].got = version[reader[x].obj] \/ reader[x].obj \in suspect
    BY <1>1, <1>7 DEF FillCurrent
  <2> QED
    BY <1>4, <1>5, <2>1, <2>2, <2>3
<1>8. ASSUME NEW o \in policy, entry[o].on = TRUE, entry[o].version < reader'[r].since[o]
      PROVE  DeadFor(r, o)' \/ (Bypassed(o[2])' /\ Away(r, o)')
  <2>1. entry[o].version \in Nat
    BY <1>1, EntryFields DEF Versions
  <2>2. o \notin Owed(copy) \cup suspect /\ entry[o].version # version[o]
    BY <1>4, <1>5, <1>8, <2>1
  <2>3. Doomed(o)
    BY <1>1, <1>8, <2>2, StaleForm
  <2>4. CASE Bypassed(o[2])
    BY <1>3, <1>4, <2>4 DEF Away, Bypassed
  <2>5. CASE \E n \in Scopes[o[2]] : entry[o].gens[n] # Current(n)
    <3>1. PICK n \in Scopes[o[2]] : entry[o].gens[n] # Current(n)
      BY <2>5
    <3>2. n \in Nodes
      BY <1>1, PolicyFacts
    <3>3. Leq(entry[o].gens[n], Current(n))
      BY <1>1, <1>8 DEF EntryOld
    <3>4. Current(n) \in Gens \cup {NoGen} /\ entry[o].gens[n] \in Gens \cup {NoGen}
      BY <1>1, <3>2, CurrentIs, EntryFields
    <3>5. Lt(entry[o].gens[n], Current(n))
      BY <3>1, <3>3, <3>4, OrderFacts
    <3>6. Current(n)' = Current(n)
      BY <1>3 DEF Current
    <3>7. Seen(r, n)' = Current(n)
      BY <1>4, <3>2, <3>6 DEF Seen, NoGens
    <3>8. Lt(entry[o].gens[n], Seen(r, n))'
      BY <1>3, <3>5, <3>7 DEF Lt
    <3> QED
      BY <3>8 DEF DeadFor
  <2> QED
    BY <1>3, <2>2, <2>3, <2>4, <2>5, EmptyOwes DEF Doomed
<1> QED
  BY <1>3, <1>6, <1>7, <1>8

LEMMA ReadReader ==
  ASSUME CacheInv, CacheInv', StaleInv, ReadInv, NEW r \in Readers, ReaderAct(r)
  PROVE  ReadInv'
<1>1. TypeOK /\ TypeOK' /\ GenOrder /\ SincePast /\ FillFresh /\ OutOfReach
  BY DEF CacheInv, StaleInv, ReadInv
<1>2. /\ Quiet /\ Others(r)
      /\ NoFill \/ (FillMiss(r) /\ Fills(reader[r].obj, reader[r].got))
  BY <1>1, ReaderQuiet
<1>3. UNCHANGED <<policy, version, script, suspect>> /\ Effect
  BY <1>2 DEF Quiet
<1>4. \A x \in Readers : x # r => reader'[x] = reader[x]
  BY <1>2 DEF Others
<1>5. \/ reader'[r].pc = "idle" /\ reader'[r].since = Zero
      \/ Active(r) /\ Keeps(r)
      \/ \E o \in policy : Read(r, o)
  BY <1>1, ReaderKeeps
<1>n. \A y \in Readers, o \in policy : reader[y].since[o] \in Nat /\ version[o] \in Nat
  BY <1>1, ReaderNumbers
<1>6. \A o \in policy : reader'[r].since[o] <= version[o]
  <2>1. CASE reader'[r].since = Zero
    BY <1>n, <2>1 DEF Zero
  <2>2. CASE Keeps(r)
    BY <1>1, <2>2 DEF SincePast, Keeps
  <2>3. CASE \E o \in policy : Read(r, o)
    BY <2>3, ReadBegins
  <2> QED
    BY <1>5, <2>1, <2>2, <2>3
<1>7. SincePast'
  BY <1>1, <1>3, <1>4, <1>6 DEF SincePast
<1>8. FillFresh'
  <2> SUFFICES ASSUME NEW y \in Readers, Active(y)'
               PROVE  /\ \A x \in Readers : reader'[x].pc = "fill" =>
                           reader'[x].got >= reader'[y].since[reader'[x].obj]
                      /\ \A i \in DOMAIN script : script[i].do = "fill" =>
                           script[i].version >= reader'[y].since[script[i].at]
    BY <1>3 DEF FillFresh
  <2>1. \/ Active(y) /\ reader'[y].since = reader[y].since
        \/ y = r /\ \E o \in policy : Read(r, o)
    BY <1>4, <1>5 DEF Active, Keeps
  <2>2. ASSUME NEW x \in Readers, reader'[x].pc = "fill"
        PROVE  reader'[x].got >= reader'[y].since[reader'[x].obj]
    <3>1. CASE x = r
      <4>1. reader'[r].obj = reader[r].obj /\ reader'[r].got = version[reader[r].obj]
        BY <1>1, <2>2, <3>1, ReaderPC
      <4>2. reader[r].obj \in policy
        BY <1>1, ReaderFields
      <4>3. reader'[y].since[reader[r].obj] <= version[reader[r].obj]
        BY <1>1, <1>4, <1>6, <4>2 DEF SincePast
      <4>4. reader'[y].since[reader[r].obj] \in Nat
        <5>1. (reader[y].since \in [policy -> Versions])'
          BY <1>1 DEF TypeOK, ReaderStates
        <5> QED
          BY <1>3, <4>2, <5>1 DEF Versions
      <4> QED
        BY <1>n, <3>1, <4>1, <4>2, <4>3, <4>4
    <3>2. CASE x # r
      <4>1. reader'[x] = reader[x]
        BY <1>4, <3>2
      <4>2. CASE Active(y) /\ reader'[y].since = reader[y].since
        BY <1>1, <2>2, <4>1, <4>2 DEF FillFresh
      <4>3. CASE y = r /\ \E o \in policy : Read(r, o)
        BY <2>2, <4>1, <4>3, ReadBegins
      <4> QED
        BY <2>1, <4>2, <4>3
    <3> QED
      BY <3>1, <3>2
  <2>3. ASSUME NEW i \in DOMAIN script, script[i].do = "fill"
        PROVE  script[i].version >= reader'[y].since[script[i].at]
    <3>1. CASE Active(y) /\ reader'[y].since = reader[y].since
      BY <1>1, <2>3, <3>1 DEF FillFresh
    <3>2. CASE \E o \in policy : Read(r, o)
      <4>1. script = <<>>
        BY <3>2, ReadBegins
      <4> QED
        BY <4>1
    <3> QED
      BY <2>1, <3>1, <3>2
  <2> QED
    BY <2>2, <2>3
<1>9. \A y \in Readers, o \in policy :
        Active(y) /\ NewEntry(o) => entry'[o].version >= reader[y].since[o]
  <2>1. CASE NoFill
    BY <2>1 DEF NoFill
  <2>2. CASE FillMiss(r) /\ Fills(reader[r].obj, reader[r].got)
    <3>1. reader[r].pc = "fill"
      BY <2>2 DEF FillMiss
    <3>2. \A y \in Readers : Active(y) => reader[r].got >= reader[y].since[reader[r].obj]
      BY <1>1, <3>1 DEF FillFresh
    <3> QED
      BY <2>2, <3>2 DEF Fills
  <2> QED
    BY <1>2, <2>1, <2>2
<1>10. OutOfReach'
  <2> SUFFICES ASSUME NEW y \in Readers, NEW o \in policy, Active(y)',
                      entry'[o].on = TRUE, entry'[o].version < reader'[y].since[o]
               PROVE  DeadFor(y, o)' \/ (Bypassed(o[2])' /\ Away(y, o)')
    BY <1>3 DEF OutOfReach
  <2>1. CASE Active(y) /\ Keeps(y)
    <3>1. \A p \in policy : NewEntry(p) => entry'[p].version >= reader[y].since[p]
      BY <1>9, <2>1
    <3> QED
      BY <1>1, <1>3, <2>1, <3>1, ReachKept
  <2>2. CASE y = r /\ \E q \in policy : Read(r, q)
    <3>1. entry' = entry
      BY <2>2 DEF Read, Acquire
    <3> QED
      BY <2>2, <3>1, ReadBegins
  <2>3. CASE y # r
    <3>1. reader'[y] = reader[y]
      BY <1>4, <2>3
    <3>2. Keeps(y) /\ Active(y)
      BY <3>1, KeepsSame DEF Active
    <3> QED
      BY <2>1, <3>2
  <2> QED
    BY <1>5, <2>1, <2>2, <2>3 DEF Active
<1> QED
  BY <1>7, <1>8, <1>10 DEF ReadInv

LEMMA ReadStep == CacheInv /\ StaleInv /\ ReadInv /\ [Next]_vars => ReadInv'
<1> SUFFICES ASSUME CacheInv, StaleInv, ReadInv, [Next]_vars PROVE ReadInv'
  OBVIOUS
<1>c. CacheInv'
  BY CacheStep
<1>0. TypeOK /\ GenOrder
  BY DEF CacheInv
<1>1. CASE Mutation
  <2>1. PICK S, calls : Mutate(S, calls) /\ Covers(calls, S)
    BY <1>0, <1>1, MutationScript
  <2> QED
    BY <1>c, <2>1, ReadMutate
<1>2. CASE BackendFails
  <2>1. PICK S \in SUBSET policy : Change(S)
    BY <1>2, BackendFailsFacts
  <2>2. UNCHANGED <<provider, wrapper, script, reader>>
    BY <1>2, BackendFailsFacts
  <2> QED
    BY <1>c, <2>1, <2>2, ReadChanged
<1>3. CASE MutationStep
  BY <1>3, <1>c, ReadMutationStep
<1>4. CASE CopyStep
  BY <1>4, <1>c, CopyStepFacts, ReadQuiet
<1>5. CASE Evict
  BY <1>0, <1>5, <1>c, EvictQuiet, ReadQuiet DEF Quiet
<1>6. CASE Restart
  <2>1. /\ reader' = [r \in Readers |-> Idle] /\ script' = <<>> /\ UNCHANGED <<policy, version>>
    BY <1>6 DEF Restart
  <2>2. Idle.pc = "idle" /\ Idle.since = Zero
    BY DEF Idle, Zero
  <2>3. \A r \in Readers : reader'[r].pc = "idle" /\ reader'[r].since = Zero
    BY <2>1, <2>2
  <2>4. SincePast'
    BY <1>0, <2>1, <2>3 DEF SincePast, Zero, TypeOK, Versions
  <2>5. FillFresh' /\ OutOfReach'
    BY <2>3 DEF FillFresh, OutOfReach, Active
  <2> QED
    BY <2>4, <2>5 DEF ReadInv
<1>7. CASE \E p \in Nodes : Copies(p)
  <2>1. PICK p \in Nodes : Copies(p)
    BY <1>7
  <2>2. CopyDeletes
    BY DEF CacheInv
  <2>3. PICK S \in SUBSET policy : Change(S)
    BY <1>0, <2>1, <2>2, CopyRawFacts
  <2>4. UNCHANGED <<provider, wrapper, script, reader>>
    BY <1>0, <2>1, <2>2, CopyRawFacts
  <2> QED
    BY <1>c, <2>3, <2>4, ReadChanged
<1>8. CASE \E r \in Readers : ReaderAct(r)
  BY <1>8, <1>c, ReadReader
<1>9. CASE UNCHANGED vars
  <2>1. UNCHANGED <<policy, version, provider, wrapper, script, reader>>
    BY <1>9 DEF vars
  <2> QED
    BY <1>0, <1>c, <2>1, Untouched, ReadQuiet
<1> QED
  BY <1>1, <1>2, <1>3, <1>4, <1>5, <1>6, <1>7, <1>8, <1>9, NextCases

LEMMA ReadInit == Init => ReadInv
<1> SUFFICES ASSUME Init PROVE ReadInv
  OBVIOUS
<1>1. TypeOK
  BY CacheInit DEF CacheInv
<1>2. Idle.pc = "idle" /\ Idle.since = Zero
  BY DEF Idle, Zero
<1>3. \A r \in Readers : reader[r].pc = "idle" /\ reader[r].since = Zero
  BY <1>2 DEF Init
<1>4. SincePast
  BY <1>1, <1>3 DEF SincePast, Zero, TypeOK, Versions
<1>5. FillFresh /\ OutOfReach
  BY <1>3 DEF FillFresh, OutOfReach, Active
<1> QED
  BY <1>4, <1>5 DEF ReadInv

LEMMA ReadShows == TypeOK /\ ReadInv => NoStaleRead
<1> SUFFICES ASSUME TypeOK, ReadInv, NEW r \in Readers
             PROVE  /\ reader[r].pc = "probe" /\ entry[reader[r].obj].on /\ Matches(r) =>
                         entry[reader[r].obj].version >= reader[r].since[reader[r].obj]
                    /\ reader[r].pc = "fill" => reader[r].got >= reader[r].since[reader[r].obj]
  BY DEF NoStaleRead
<1> DEFINE o == reader[r].obj
<1>1. o \in policy
  BY ReaderFields
<1>2. reader[r].pc = "fill" => reader[r].got >= reader[r].since[o]
  BY DEF ReadInv, FillFresh, Active
<1>3. ASSUME reader[r].pc = "probe", entry[o].on, Matches(r)
      PROVE  entry[o].version >= reader[r].since[o]
  <2>1. entry[o].on = TRUE
    <3>1. entry[o] \in Entries
      BY <1>1 DEF TypeOK
    <3>2. entry[o].on \in BOOLEAN
      BY <3>1, Zenon DEF Entries
    <3> QED
      BY <1>3, <3>2, Zenon
  <2>2. Active(r) /\ ~Away(r, o)
    BY <1>3 DEF Active, Away
  <2>3. ~DeadFor(r, o)
    <3>1. \A n \in Scopes[o[2]] : entry[o].gens[n] = Seen(r, n)
      BY <1>3 DEF Matches
    <3>2. \A n \in Scopes[o[2]] : n \in Nodes
      BY <1>1, PolicyFacts
    <3>3. \A n \in Nodes : Seen(r, n) \in Gens \cup {NoGen}
      BY MemoIs
    <3> QED
      BY <3>1, <3>2, <3>3, OrderFacts DEF DeadFor
  <2>4. ~(entry[o].version < reader[r].since[o])
    BY <1>1, <2>1, <2>2, <2>3 DEF ReadInv, OutOfReach
  <2>5. entry[o].version \in Nat /\ reader[r].since[o] \in Nat
    BY <1>1, EntryFields, ReaderNumbers DEF Versions
  <2> QED
    BY <2>4, <2>5
<1> QED
  BY <1>2, <1>3

(* NoStaleRead for every tree, policy and number of readers, faults and     *)
(* restarts: a hit, or a value about to be filled, is never older than what *)
(* the backend had when the read began, unless an invalidation of it never  *)
(* took place.                                                              *)
THEOREM ReadsAreFresh == Spec => []NoStaleRead
<1>1. Spec => []ReadInv
  BY CacheHolds, StaleHolds, ReadInit, ReadStep, PTL DEF Spec
<1>2. CacheInv => TypeOK
  BY DEF CacheInv
<1> QED
  BY <1>1, <1>2, CacheHolds, ReadShows, PTL
=============================================================================
