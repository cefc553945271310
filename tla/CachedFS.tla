------------------------------ MODULE CachedFS ------------------------------
(***************************************************************************)
(* The read-through cache around a mounted file system                     *)
(* (crates/ragfs/src/cache/wrapper.rs): whole files and directory listings *)
(* are kept in a cache provider next to one generation per path; an entry  *)
(* is served only while the generations of all its scopes are the ones it  *)
(* was filled under.  Mutations change the backend first and invalidate    *)
(* afterwards, under the exclusive side of operation_lock; reads share it, *)
(* misses of one object go through an in-flight mutex.  A copy within the  *)
(* mount writes the raw backend and invalidates without the lock, or not   *)
(* at all.                                                                 *)
(*                                                                         *)
(* The content of a file or listing is the number of the change that made  *)
(* it.  One action is one call of the provider or the backend with the     *)
(* code around it; calls that nobody can come between are taken together.  *)
(***************************************************************************)
EXTENDS Integers, Sequences, FiniteSets

CONSTANTS
  Nodes,        \* the paths
  Scopes,       \* ancestor_scopes: the prefixes of a path, itself included
  Parent,       \* parent_path
  Policies,     \* which files and listings a policy lets into the cache
  Readers,      \* concurrent read, read_dir and grep calls
  Greps,        \* those that are a grep: several reads, generations memoized
  Implicit,     \* directories come and go with the files in them (S3)
  MaxChanges,   \* bound on the changes of the backend
  MaxFaults,    \* bound on the failing calls and lost keys
  MaxRestarts   \* bound on the restarts

Objects == {"file", "dir"} \X Nodes

ASSUME TreeAssumption ==
  /\ Scopes \in [Nodes -> SUBSET Nodes]
  /\ Parent \in [Nodes -> Nodes]
  /\ \A n \in Nodes : n \in Scopes[n] /\ Parent[n] \in Scopes[n]
  /\ \A n \in Nodes, s \in Nodes : s \in Scopes[n] => Scopes[s] \subseteq Scopes[n]
ASSUME PolicyAssumption == Policies \subseteq (SUBSET Objects) \ {{}}
ASSUME ImplicitAssumption == Implicit \in BOOLEAN
ASSUME FiniteAssumption ==
  IsFiniteSet(Nodes) /\ IsFiniteSet(Readers) /\ Greps \subseteq Readers
ASSUME BoundsAssumption ==
  MaxChanges \in Nat /\ MaxFaults \in Nat /\ MaxRestarts \in Nat

VARIABLES
  policy,    \* what this mount lets into the cache
  changes,   \* number of changes of the backend
  version,   \* what the backend has: the change an object is from
  entry,     \* the provider's object keys
  gen,       \* the provider's generation keys
  local,     \* generations: what the wrapper remembers of them
  epoch,     \* generation_epoch, drawn anew by every wrapper
  bypass,    \* bypass_scopes
  script,    \* what the mutation that holds the lock has still to do
  copy,      \* the same for the copy that does not hold it
  reader,    \* the state of each read
  inflight,  \* the in-flight table: the mutex of an object, 0 for none
  suspect,   \* history: objects whose invalidation went missing for good
  faults,    \* number of calls that failed and keys that were lost
  restarts   \* number of restarts

shared == <<policy, changes, version>>
provider == <<entry, gen>>
wrapper == <<local, epoch, bypass>>
bounds == <<faults, restarts>>
vars == <<shared, provider, wrapper, script, copy, reader, inflight, suspect, bounds>>
-----------------------------------------------------------------------------
(* A generation: the epoch it started from and how often it was bumped.     *)
Gens == (1 .. MaxRestarts + 1) \X (0 .. MaxChanges)
NoGen == <<0, 0>>
GenMaps == [Nodes -> Gens \cup {NoGen}]
NoGens == [n \in Nodes |-> NoGen]

Versions == 0 .. MaxChanges
Entries == [on : BOOLEAN, version : Versions, gens : GenMaps]
NoEntry == [on |-> FALSE, version |-> 0, gens |-> NoGens]

(* since: what the operation may not fall behind; lock: its in-flight mutex *)
(* once it has joined; got: what it read from the backend.                  *)
Locks == 1 .. Cardinality(Readers) + Cardinality(Objects)
ReaderPCs == {"idle", "probe", "join", "queue", "backend", "fill",
              "release", "between"}
ReaderStates == [pc : ReaderPCs, obj : policy, since : [policy -> Versions],
                 memo : GenMaps, lock : Locks \cup {0},
                 leader : BOOLEAN, got : Versions]
Idle == [pc |-> "idle", obj |-> CHOOSE o \in policy : TRUE,
         since |-> [o \in policy |-> 0], memo |-> NoGens,
         lock |-> 0, leader |-> FALSE, got |-> 0]

(* The calls to the provider that a mutation makes.                         *)
Calls == [do : {"bump"}, at : Nodes] \cup [do : {"delete"}, at : policy]
         \cup [do : {"fill"}, at : policy, version : Versions]
Bump(n) == [do |-> "bump", at |-> n]
Fill(o, v) == [do |-> "fill", at |-> o, version |-> v]

(* The key of an object that the policy keeps out is never there.           *)
Delete(o) == IF o \in policy THEN <<[do |-> "delete", at |-> o]>> ELSE <<>>

Init ==
  /\ policy \in Policies
  /\ changes = 0
  /\ version = [o \in policy |-> 0]
  /\ entry = [o \in policy |-> NoEntry]
  /\ gen = NoGens
  /\ local = NoGens
  /\ epoch = 1
  /\ bypass = {}
  /\ script = <<>>
  /\ copy = <<>>
  /\ reader = [r \in Readers |-> Idle]
  /\ inflight = [o \in policy |-> 0]
  /\ suspect = {}
  /\ faults = 0
  /\ restarts = 0
-----------------------------------------------------------------------------
Under(n) == {o \in policy : n \in Scopes[o[2]]}
Bypassed(n) == bypass \cap Scopes[n] # {}

MarkBypass(n) ==
  bypass' = IF Bypassed(n) THEN bypass ELSE {s \in bypass : n \notin Scopes[s]} \cup {n}

(* A call fails, or a key is lost.                                          *)
Fault == faults < MaxFaults /\ faults' = faults + 1 /\ UNCHANGED restarts

(* Mutant: a lost generation starts from the epoch again.                   *)
CurrentForgets(n) == IF gen[n] # NoGen THEN gen[n] ELSE <<epoch, 0>>

(* current_generations: the provider's value, else the remembered one, else *)
(* the epoch; it is remembered, and put back where it was missing.          *)
Current(n) ==
  IF gen[n] # NoGen THEN gen[n] ELSE IF local[n] # NoGen THEN local[n] ELSE <<epoch, 0>>

Remember(S) == local' = [n \in Nodes |-> IF n \in S THEN Current(n) ELSE local[n]]
PutBack(S) == gen' = [n \in Nodes |-> IF n \in S THEN Current(n) ELSE gen[n]]

(* generation_snapshots, and the envelope they go into.                     *)
Envelope(o, v) ==
  [on |-> TRUE, version |-> v,
   gens |-> [n \in Nodes |-> IF n \in Scopes[o[2]] THEN Current(n) ELSE NoGen]]

(* fill_file and fill_directory.                                            *)
Put(o, v) ==
  /\ Remember(Scopes[o[2]])
  /\ PutBack(Scopes[o[2]])
  /\ entry' = [entry EXCEPT ![o] = Envelope(o, v)]
  /\ UNCHANGED bypass

(* Putting the generations back fails unnoticed; or the put fails, and the  *)
(* provider may have stored the object all the same.                        *)
PutFails(o, v) ==
  /\ Remember(Scopes[o[2]])
  /\ \/ /\ UNCHANGED <<gen, bypass>>
        /\ entry' = [entry EXCEPT ![o] = Envelope(o, v)]
     \/ /\ PutBack(Scopes[o[2]])
        /\ entry' \in {entry, [entry EXCEPT ![o] = Envelope(o, v)]}
        /\ MarkBypass(o[2])

Removed(o) == [x \in policy |-> IF x = o THEN NoEntry ELSE entry[x]]
-----------------------------------------------------------------------------
(* The provider loses a key: it expires, or is evicted.                     *)
Evict ==
  /\ Fault
  /\ \/ /\ \E o \in policy : entry[o].on /\ entry' = Removed(o)
        /\ UNCHANGED gen
     \/ /\ \E n \in Nodes : gen[n] # NoGen /\ gen' = [gen EXCEPT ![n] = NoGen]
        /\ UNCHANGED entry
  /\ UNCHANGED <<shared, wrapper, script, copy, reader, inflight, suspect>>

(* Mutant: the generation is bumped for the path and for its keys.          *)
BumpedTwice(n) == <<Current(n)[1], Current(n)[2] + 2>>

BumpedTo(n) == <<Current(n)[1], Current(n)[2] + 1>>

(* One call of a mutation: bump_generation, cache_delete or fill_file.  Its *)
(* success under the lock makes up for what went missing before.            *)
Perform(c) ==
  \/ /\ c.do = "bump"
     /\ local' = [local EXCEPT ![c.at] = BumpedTo(c.at)]
     /\ gen' = [gen EXCEPT ![c.at] = BumpedTo(c.at)]
     /\ UNCHANGED <<entry, bypass>>
  \/ /\ c.do = "delete"
     /\ entry' = Removed(c.at)
     /\ UNCHANGED <<gen, local, bypass>>
  \/ /\ c.do = "fill"
     /\ IF Bypassed(c.at[2])
        THEN UNCHANGED <<entry, gen, local, bypass>>
        ELSE Put(c.at, c.version)

(* A bump fails before or after the old generation is put back, or though   *)
(* the provider has stored the new one.                                     *)
PerformFails(c) ==
  \/ /\ c.do = "bump"
     /\ \/ UNCHANGED <<local, gen>>
        \/ /\ local' = [local EXCEPT ![c.at] = BumpedTo(c.at)]
           /\ gen' \in {gen, [gen EXCEPT ![c.at] = Current(c.at)],
                       [gen EXCEPT ![c.at] = BumpedTo(c.at)]}
     /\ MarkBypass(c.at)
     /\ UNCHANGED entry
  \/ /\ c.do = "delete"
     /\ entry' \in {entry, Removed(c.at)}
     /\ MarkBypass(c.at[2])
     /\ UNCHANGED <<gen, local>>
  \/ /\ c.do = "fill" /\ ~Bypassed(c.at[2])
     /\ PutFails(c.at, c.version)

(* The objects a call makes the cache forget.                               *)
Forgets(c) == IF c.do = "bump" THEN Under(c.at) ELSE IF c.do = "delete" THEN {c.at} ELSE {}
Owed(calls) == UNION {Forgets(calls[i]) : i \in DOMAIN calls}

(* The objects that are about to be filled with what was read or written    *)
(* before.                                                                  *)
Filling == {reader[r].obj : r \in {x \in Readers : reader[x].pc = "fill"}}
           \cup {script[i].at : i \in {k \in DOMAIN script : script[k].do = "fill"}}

MutationStep ==
  /\ script # <<>>
  /\ \/ /\ Perform(Head(script))
        /\ suspect' = suspect \ (Forgets(Head(script)) \ Filling)
        /\ UNCHANGED bounds
     \/ /\ PerformFails(Head(script))
        /\ Fault
        /\ UNCHANGED suspect
  /\ script' = Tail(script)
  /\ UNCHANGED <<shared, epoch, copy, reader, inflight>>
-----------------------------------------------------------------------------
(* The backend changes the objects of a set.                                *)
Change(S) ==
  /\ changes < MaxChanges
  /\ UNCHANGED policy
  /\ changes' = changes + 1
  /\ version' = [o \in policy |-> IF o \in S THEN changes + 1 ELSE version[o]]

Unlocked == script = <<>> /\ \A r \in Readers : reader[r].pc \in {"idle", "between"}

File(p) == <<"file", p>>
Dir(p) == <<"dir", p>>

(* The listings above the objects of a set.  In an object store they change *)
(* with the first file below a directory and with the last.                 *)
Above(S) == {o \in policy : o[1] = "dir" /\ \E x \in S : o[2] \in Scopes[x[2]]}
Implied(S) == IF Implicit THEN SUBSET Above(S) ELSE {{}}

(* A mutation through the wrapper: the backend's change, then the calls.    *)
(* Nothing invalidates the listings further up.                             *)
Mutate(S, calls) ==
  /\ Unlocked
  /\ \E T \in Implied(S) :
       /\ Change(S \cup T)
       /\ suspect' = suspect \cup (T \ Owed(calls))
  /\ script' = calls
  /\ UNCHANGED <<provider, wrapper, copy, reader, inflight, bounds>>

Both(p) == Delete(File(p)) \o Delete(Dir(p))
ParentOf(p) == Delete(Dir(Parent[p]))

(* create; chmod has the same shape, its mode is in the listing.            *)
Create(p) == Mutate({File(p), Dir(Parent[p])}, Both(p) \o ParentOf(p))

Mkdir(p) == Mutate({Dir(p), Dir(Parent[p])}, <<Bump(p)>> \o Delete(Dir(p)) \o ParentOf(p))

(* remove and remove_all.                                                   *)
Remove(p) ==
  Mutate(Under(p) \cup {Dir(Parent[p])}, <<Bump(p)>> \o Both(p) \o ParentOf(p))

(* A write of the whole file puts it into the cache; one of a part, and     *)
(* truncate, do not.                                                        *)
Write(p) ==
  \E whole \in BOOLEAN :
    Mutate({File(p), Dir(Parent[p])},
           Delete(File(p))
             \o (IF whole /\ File(p) \in policy
                 THEN <<Fill(File(p), changes + 1)>> ELSE <<>>)
             \o ParentOf(p))

(* rename and replace.                                                      *)
Rename(p, q) ==
  /\ p \notin Scopes[q] /\ q \notin Scopes[p]
  /\ Mutate(Under(p) \cup Under(q) \cup {Dir(Parent[p]), Dir(Parent[q])},
            <<Bump(p), Bump(q)>> \o Both(p) \o Both(q) \o ParentOf(p) \o ParentOf(q))

(* The listings of all ancestors go.                                        *)
Ordered(S) == CHOOSE q \in [1 .. Cardinality(S) -> S] : {q[i] : i \in DOMAIN q} = S

EnsureParentDirs(p) ==
  LET dirs == {Dir(s) : s \in Scopes[Parent[p]]} \cap policy IN
  Mutate(dirs, [i \in DOMAIN Ordered(dirs) |-> [do |-> "delete", at |-> Ordered(dirs)[i]]])

(* The backend fails half-way through a mutation, which returns at once     *)
(* without invalidating anything.                                           *)
BackendFails ==
  /\ Unlocked
  /\ Fault
  /\ \E p \in Nodes : \E S \in SUBSET Under(p) :
       /\ Change(S)
       /\ suspect' = suspect \cup S
  /\ UNCHANGED <<provider, wrapper, script, copy, reader, inflight>>

(* copy_within_mount writes the raw backend while reads and mutations go    *)
(* on: first the missing directories above the copy, whose listings nobody  *)
(* invalidates, then the file, one chunk after the other (the copy goes on  *)
(* until its first invalidation).  A fill with what was there before is not *)
(* caught any more.                                                         *)
CopyCalls(p) == Both(p) \o ParentOf(p)
Copied(p) == {File(p)} \cup {Dir(s) : s \in Scopes[Parent[p]]}

CopyRaw(p) ==
  /\ copy \in {<<>>, CopyCalls(p)}
  /\ \E S \in (SUBSET (Copied(p) \cap policy)) \ {{}} :
       /\ Change(S)
       /\ suspect' = suspect \cup (S \ Owed(CopyCalls(p))) \cup (S \cap Filling)
  /\ copy' = CopyCalls(p)
  /\ UNCHANGED <<provider, wrapper, script, reader, inflight, bounds>>

(* The same on a multi-write mount (copy_within_primary), or a copy that    *)
(* fails half-way: it returns without invalidating anything.                *)
CopyUnseen(p) ==
  /\ \E S \in (SUBSET (Copied(p) \cap policy)) \ {{}} :
       /\ Change(S)
       /\ suspect' = suspect \cup S
  /\ UNCHANGED <<provider, wrapper, script, copy, reader, inflight, bounds>>

(* invalidate_external_write.                                               *)
CopyStep ==
  /\ copy # <<>>
  /\ \/ Perform(Head(copy)) /\ UNCHANGED bounds
     \/ PerformFails(Head(copy)) /\ Fault
  /\ copy' = Tail(copy)
  /\ UNCHANGED <<shared, epoch, script, reader, inflight, suspect>>
-----------------------------------------------------------------------------
(* A read takes the lock; its path is not bypassed.  One that is goes to    *)
(* the backend and changes nothing here.                                    *)
Acquire(r, o, since, memo) ==
  /\ script = <<>>
  /\ ~Bypassed(o[2])
  /\ reader' = [reader EXCEPT ![r] =
       [Idle EXCEPT !.pc = "probe", !.obj = o, !.since = since, !.memo = memo]]
  /\ UNCHANGED <<shared, provider, wrapper, script, copy, inflight, suspect, bounds>>

(* What a read that begins now may not fall behind.  A copy that is still   *)
(* invalidating an object has not returned yet.                             *)
Since == [o \in policy |-> IF o \in Owed(copy) \cup suspect THEN 0 ELSE version[o]]

(* read and read_dir, or the first read of a grep.                          *)
Read(r, o) == reader[r].pc = "idle" /\ Acquire(r, o, Since, NoGens)

(* Mutant: the next grep still has the generations of this one.             *)
GrepAgain(r, o) ==
  reader[r].pc = "between" /\ Acquire(r, o, Since, reader[r].memo)

(* The next read of a grep, with the generations it has already seen.       *)
GrepOn(r, o) ==
  reader[r].pc = "between" /\ Acquire(r, o, reader[r].since, reader[r].memo)

GrepEnds(r) ==
  /\ reader[r].pc = "between"
  /\ reader' = [reader EXCEPT ![r] = Idle]
  /\ UNCHANGED <<shared, provider, wrapper, script, copy, inflight, suspect, bounds>>

(* The read returns; a grep remembers what it has seen.                     *)
Returned(r, memo) ==
  IF r \in Greps
  THEN [Idle EXCEPT !.pc = "between", !.since = reader[r].since, !.memo = memo]
  ELSE Idle

Goto(r, pc) == reader' = [reader EXCEPT ![r].pc = pc]

(* The probe of a reader: nothing is bumped while it has the lock, so the   *)
(* get of the entry and that of its generations are one step.  A grep asks  *)
(* for each generation once (generations_match_with_cache).                 *)
Unseen(r) == {n \in Scopes[reader[r].obj[2]] : reader[r].memo[n] = NoGen}
Seen(r, n) == IF reader[r].memo[n] # NoGen THEN reader[r].memo[n] ELSE Current(n)
Matches(r) ==
  LET o == reader[r].obj IN \A n \in Scopes[o[2]] : entry[o].gens[n] = Seen(r, n)
Memo(r) ==
  [n \in Nodes |-> IF r \in Greps /\ n \in Unseen(r) THEN Current(n) ELSE reader[r].memo[n]]

(* A miss: the in-flight mutex is next, for one who has it the backend.     *)
Miss(r, memo) ==
  reader' = [reader EXCEPT ![r].pc = IF reader[r].lock = 0 THEN "join" ELSE "backend",
                           ![r].memo = memo]

(* A call fails: the path is bypassed from now on.                          *)
MissBypassed(r, memo) == MarkBypass(reader[r].obj[2]) /\ Miss(r, memo)

Absent(r) ==
  /\ ~entry[reader[r].obj].on
  /\ Miss(r, reader[r].memo)
  /\ UNCHANGED <<provider, local, bypass>>

(* A hit is returned, an entry of another generation deleted.               *)
Hit(r) ==
  /\ Matches(r)
  /\ reader' = [reader EXCEPT ![r] =
       IF @.lock = 0 THEN Returned(r, Memo(r)) ELSE [@ EXCEPT !.pc = "release", !.memo = Memo(r)]]
  /\ UNCHANGED <<entry, bypass>>

Drop(r) ==
  /\ ~Matches(r)
  /\ entry' = Removed(reader[r].obj)
  /\ Miss(r, Memo(r))
  /\ UNCHANGED bypass

DropFails(r) ==
  /\ ~Matches(r)
  /\ entry' \in {entry, Removed(reader[r].obj)}
  /\ MissBypassed(r, Memo(r))

Present(r) == entry[reader[r].obj].on /\ Remember(Unseen(r))

Probe(r) ==
  /\ reader[r].pc = "probe"
  /\ \/ /\ Absent(r) \/ (Present(r) /\ PutBack(Unseen(r)) /\ (Hit(r) \/ Drop(r)))
        /\ UNCHANGED bounds
     \/ /\ \/ MissBypassed(r, reader[r].memo) /\ UNCHANGED <<provider, local>>
           \/ Present(r) /\ UNCHANGED gen /\ (Hit(r) \/ Drop(r))
           \/ Present(r) /\ PutBack(Unseen(r)) /\ DropFails(r)
        /\ Fault
  /\ UNCHANGED <<shared, epoch, script, copy, inflight, suspect>>

(* acquire_inflight: the first one makes the mutex.                         *)
Free(k) == k \notin {inflight[o] : o \in policy} \cup {reader[x].lock : x \in Readers}

Join(r) ==
  LET o == reader[r].obj
      lock == IF inflight[o] # 0 THEN inflight[o] ELSE CHOOSE k \in Locks : Free(k)
  IN
  /\ reader[r].pc = "join"
  /\ inflight' = [inflight EXCEPT ![o] = lock]
  /\ reader' = [reader EXCEPT ![r].pc = "queue", ![r].lock = lock,
                              ![r].leader = (inflight[o] = 0)]
  /\ UNCHANGED <<shared, provider, wrapper, script, copy, suspect, bounds>>

(* Its holder; a follower looks into the cache once more.                   *)
Holds(x, k) ==
  reader[x].lock = k /\ reader[x].pc \in {"probe", "backend", "fill"}

Enter(r) ==
  /\ reader[r].pc = "queue"
  /\ \A x \in Readers : ~Holds(x, reader[r].lock)
  /\ Goto(r, IF reader[r].leader THEN "backend" ELSE "probe")
  /\ UNCHANGED <<shared, provider, wrapper, script, copy, inflight, suspect, bounds>>

(* The read of the backend; one that fails fills nothing.                   *)
ReadBackend(r) ==
  /\ reader[r].pc = "backend"
  /\ \/ reader' = [reader EXCEPT ![r].pc = "fill", ![r].got = version[reader[r].obj]]
     \/ Goto(r, "release")
  /\ UNCHANGED <<shared, provider, wrapper, script, copy, inflight, suspect, bounds>>

(* What the policy finds too large, or has no generations, is not put.      *)
FillMiss(r) ==
  LET o == reader[r].obj IN
  /\ reader[r].pc = "fill"
  /\ \/ UNCHANGED <<entry, gen, local, bypass, bounds>>
     \/ Put(o, reader[r].got) /\ UNCHANGED bounds
     \/ PutFails(o, reader[r].got) /\ Fault
  /\ reader' = [reader EXCEPT ![r].pc = "release", ![r].got = 0]
  /\ UNCHANGED <<shared, epoch, script, copy, inflight, suspect>>

(* Mutant: whoever is through takes the mutex out of the table.             *)
ReleaseAlways(r) ==
  /\ reader[r].pc = "release"
  /\ inflight' = [inflight EXCEPT ![reader[r].obj] = 0]
  /\ reader' = [reader EXCEPT ![r] = Returned(r, reader[r].memo)]
  /\ UNCHANGED <<shared, provider, wrapper, script, copy, suspect, bounds>>

(* release_inflight: the table keeps a mutex that others still refer to,    *)
(* one that has released it a moment ago and not yet returned included.     *)
Release(r) ==
  LET o == reader[r].obj
      last == \A x \in Readers \ {r} : reader[x].lock # reader[r].lock
  IN
  /\ reader[r].pc = "release"
  /\ \/ UNCHANGED inflight
     \/ inflight[o] = reader[r].lock /\ last /\ inflight' = [inflight EXCEPT ![o] = 0]
  /\ reader' = [reader EXCEPT ![r] = Returned(r, reader[r].memo)]
  /\ UNCHANGED <<shared, provider, wrapper, script, copy, suspect, bounds>>
-----------------------------------------------------------------------------
(* The process ends and starts again over the same backend and provider: a  *)
(* mutation may be cut off, and nobody remembers what was bypassed.         *)
Restart ==
  /\ restarts < MaxRestarts
  /\ restarts' = restarts + 1
  /\ epoch' = epoch + 1
  /\ local' = NoGens
  /\ bypass' = {}
  /\ script' = <<>>
  /\ copy' = <<>>
  /\ reader' = [r \in Readers |-> Idle]
  /\ inflight' = [o \in policy |-> 0]
  /\ suspect' = suspect \cup Owed(script) \cup Owed(copy)
                        \cup {o \in policy : Bypassed(o[2])}
  /\ UNCHANGED <<shared, provider, faults>>

Mutation ==
  \E p \in Nodes :
    \/ Create(p) \/ Mkdir(p) \/ Remove(p) \/ Write(p) \/ EnsureParentDirs(p)
    \/ \E q \in Nodes : Rename(p, q)

ReaderStep(r) ==
  \/ Probe(r) \/ Join(r) \/ ReadBackend(r) \/ FillMiss(r) \/ Release(r)

Next ==
  \/ Mutation \/ BackendFails \/ MutationStep
  \/ (\E p \in Nodes : CopyRaw(p) \/ CopyUnseen(p)) \/ CopyStep
  \/ \E r \in Readers :
       \/ \E o \in policy : Read(r, o) \/ GrepOn(r, o)
       \/ ReaderStep(r) \/ Enter(r) \/ GrepEnds(r)
  \/ Evict
  \/ Restart

Spec == Init /\ [][Next]_vars
-----------------------------------------------------------------------------
(* Every variable has its type.                                             *)
TypeOK ==
  /\ policy \in Policies
  /\ changes \in Versions
  /\ version \in [policy -> Versions]
  /\ entry \in [policy -> Entries]
  /\ gen \in GenMaps
  /\ local \in GenMaps
  /\ epoch \in 1 .. MaxRestarts + 1
  /\ bypass \subseteq Nodes
  /\ script \in Seq(Calls)
  /\ copy \in Seq(Calls)
  /\ reader \in [Readers -> ReaderStates]
  /\ inflight \in [policy -> Locks \cup {0}]
  /\ suspect \subseteq policy
  /\ faults \in Nat
  /\ restarts \in Nat

(* A read never returns what was already overwritten, removed or moved away *)
(* when it began (a grep: when the grep began), although descendants of a   *)
(* removed directory stay in the provider, keys are evicted, calls to the   *)
(* provider fail and the generations in memory are lost: "every cache hit   *)
(* must pass envelope and generation validation" (14-ragfs-cache.md).       *)
(* Excepted are the objects whose invalidation was never made or came too   *)
(* soon (suspect): those of a backend call or copy that failed half-way, of *)
(* a copy on a multi-write mount, the listings above a path whose           *)
(* directories were made along the way, a fill that raced a copy, and what  *)
(* was being invalidated or bypassed at a restart.                          *)
NoStaleRead ==
  \A r \in Readers :
    LET x == reader[r] IN
    /\ x.pc = "probe" /\ entry[x.obj].on /\ Matches(r) =>
         entry[x.obj].version >= x.since[x.obj]
    /\ x.pc = "fill" => x.got >= x.since[x.obj]

(* What makes it so: an entry that is not what the backend has is on its    *)
(* way out (the invalidation is still to come), out of reach (bypassed) or  *)
(* dead, under generations that do not come back: not through an eviction,  *)
(* not through a failed put, not through a restart.  The objects without an *)
(* invalidation (suspect, as above) are the only exception.                 *)
Doomed(o) ==
  \/ o \in suspect \cup Owed(script) \cup Owed(copy)
  \/ Bypassed(o[2])
  \/ \E n \in Scopes[o[2]] : entry[o].gens[n] # Current(n)

StaleIsDoomed ==
  \A o \in policy : entry[o].on /\ entry[o].version # version[o] => Doomed(o)

(* Concurrent misses of one object go to the backend one after the other:   *)
(* the table of mutexes loses none that is in use (acquire_inflight and     *)
(* release_inflight).                                                       *)
SingleFlight ==
  \A x, y \in Readers :
    x # y /\ reader[x].obj = reader[y].obj
      => ~(reader[x].pc \in {"backend", "fill"} /\ reader[y].pc \in {"backend", "fill"})

=============================================================================
