------------------------------ MODULE Deploy_proofs ------------------------------
(***************************************************************************)
(* Proofs about Deploy: the invariants of its runs hold for any number of  *)
(* calls, tripwires, commands, foreign scripts, faults and any page size.  *)
(***************************************************************************)
EXTENDS Deploy, FiniteSetTheorems, SequenceTheorems, WellFoundedInduction, TLAPS

\* Names of objects do not change: an id, once given, names the same tripwire.
Laid(id, t) == \E i \in DOMAIN scripts : scripts[i].id = id /\ scripts[i].name = t
Set(id, t) == \E p \in policies : p.id = id /\ p.name = t

Shaken == disturbed \cup delayed

\* The objects: ids are given once, foreign scripts have none, and a policy
\* runs a script of its own tripwire.
Store ==
  /\ \A i \in DOMAIN scripts :
       /\ scripts[i].id <= created
       /\ scripts[i].id = 0 <=> scripts[i].name \in Foreign
  /\ \A i, j \in DOMAIN scripts :
       scripts[i].id = scripts[j].id /\ scripts[i].id # 0 => i = j
  /\ \A p \in policies :
       p.id # 0 /\ p.id <= created /\ p.script # 0 /\ Laid(p.script, p.name)
  /\ \A p, q \in policies : p.id = q.id => p = q

\* A write is of a tripwire whose object was found, or of a new one.
Formed(w) ==
  /\ w \in Writes
  /\ w.kind = "script" /\ w.id # 0 => Laid(w.id, w.name)
  /\ w.kind = "policy" =>
       /\ w.script # 0 /\ Laid(w.script, w.name)
       /\ w.id # 0 => Set(w.id, w.name)

Lateness == \A w \in late : Formed(w) /\ w.name \in delayed

\* What the variables of a call hold, wherever it is.
Shape(r) ==
  LET h == request[r] IN
  /\ h.pc = "idle" => h.tripwire = None
  /\ h.pc # "idle" => h.tripwire \in Tripwires
  /\ h.scoped <=> h.pc \in {"scripts", "script", "policies", "policy", "count"}
  /\ h.mdm = "pending" => h.pc = "done"

\* What a call has found out about scripts is still so when it writes one ...
Looked(r) ==
  LET h == request[r]
      t == h.tripwire
  IN
  /\ h.pc = "scripts" /\ t \notin Shaken =>
       \A i \in DOMAIN scripts : i <= h.page * PageSize => scripts[i].name # t
  /\ h.pc = "script" /\ h.existing # 0 => Laid(h.existing, t)
  /\ h.pc = "script" /\ h.existing = 0 /\ t \notin Shaken =>
       \A i \in DOMAIN scripts : scripts[i].name # t

\* ... the script it has written is there for its policy ...
Written(r) ==
  LET h == request[r]
      t == h.tripwire
  IN
  h.pc \in {"policies", "policy"} =>
    /\ h.script # 0
    /\ \E i \in DOMAIN scripts :
         /\ scripts[i].id = h.script /\ scripts[i].name = t
         /\ t \notin delayed => scripts[i].body = command

\* ... what it has found out about policies is so when it writes one ...
Sought(r) ==
  LET h == request[r]
      t == h.tripwire
  IN
  /\ h.pc = "policy" /\ h.existing # 0 => Set(h.existing, t)
  /\ h.pc = "policy" /\ h.existing = 0 /\ t \notin Shaken =>
       \A p \in policies : p.name # t

\* ... and both are in force after that.
InForce(t) ==
  \E p \in policies, i \in DOMAIN scripts :
    /\ p.name = t /\ p.script = scripts[i].id
    /\ scripts[i].name = t /\ scripts[i].body = command

Enforced(r) ==
  LET h == request[r] IN
  (h.pc = "count" \/ h.mdm = "pending") /\ h.tripwire \notin delayed
    => InForce(h.tripwire)

Call(r) == Shape(r) /\ Looked(r) /\ Written(r) /\ Sought(r) /\ Enforced(r)

\* Calls in progress for one tripwire have disturbed each other.
Apart ==
  \A q, r \in Requests :
    q # r /\ request[q].tripwire = request[r].tripwire =>
      request[r].tripwire \in disturbed \cup {None}

IndInv ==
  /\ TypeOK
  /\ Store
  /\ Lateness
  /\ \A r \in Requests : Call(r)
  /\ Apart
  /\ OneEachIfUndisturbed
  /\ OrphanOnlyHalfway

-----------------------------------------------------------------------------
\* The steps of the tenant.

\* What the tenant looks like after the write w has taken effect: nothing goes,
\* no name changes, and what is new or changed is of the tripwire of w.
Grown(w) ==
  /\ \A i \in DOMAIN scripts :
       /\ i \in DOMAIN scripts'
       /\ scripts'[i].id = scripts[i].id /\ scripts'[i].name = scripts[i].name
       /\ \/ scripts'[i] = scripts[i]
          \/ w.kind = "script" /\ scripts[i].name = w.name
                               /\ scripts'[i].body = w.body
  /\ \A i \in DOMAIN scripts' :
       i \notin DOMAIN scripts =>
         /\ w.kind = "script" /\ w.id = 0
         /\ i = Len(scripts) + 1 /\ scripts'[i].name = w.name
  /\ \A p \in policies :
       \E q \in policies' : /\ q.id = p.id /\ q.name = p.name
                            /\ \/ q = p
                               \/ w.kind = "policy" /\ q.script = w.script
  /\ \A q \in policies' :
       \/ q \in policies
       \/ w.kind = "policy" /\ q.name = w.name /\ q.script = w.script
  /\ \A q \in policies' :
       \/ \E p \in policies : p.id = q.id /\ p.name = q.name
       \/ w.kind = "policy" /\ w.id = 0 /\ q.id = created + 1
  /\ w.kind = "script" =>
       \E i \in DOMAIN scripts' : /\ scripts'[i].id = NewId(w)
                                  /\ scripts'[i].name = w.name
                                  /\ scripts'[i].body = w.body
  /\ w.kind = "policy" =>
       \E q \in policies' : q.name = w.name /\ q.script = w.script

\* A write that takes effect, as a step of the tenant.
LEMMA Applied ==
  ASSUME TypeOK, Store, NEW w, Formed(w), Accepted(w), Apply(w)
  PROVE  /\ scripts' \in Seq(Scripts) /\ policies' \subseteq Policies
         /\ created' \in Ids /\ NewId(w) \in Ids /\ NewId(w) # 0
         /\ Store' /\ Grown(w)
<1>. USE DeployAssumption
<1>0. /\ w \in Writes /\ w.name \in Tripwires /\ w.body \in Commands
      /\ w.id \in Nat /\ w.script \in Nat /\ w.kind \in {"script", "policy"}
      /\ created \in Nat /\ created <= MaxIds /\ NewId(w) \in Nat
      /\ NewId(w) <= MaxIds /\ NewId(w) # 0
      /\ scripts \in Seq(Scripts) /\ policies \subseteq Policies
  BY DEF Formed, Writes, TypeOK, Ids, NewId, Apply
<1>1. CASE w.kind = "script" /\ w.id = 0
  <2>. DEFINE s == [id |-> created + 1, name |-> w.name, body |-> w.body]
  <2>1. /\ scripts' = Append(scripts, s) /\ created' = created + 1
        /\ policies' = policies /\ NewId(w) = created + 1
    BY <1>1 DEF Apply, NewId
  <2>2. s \in Scripts
    BY <1>0, <1>1 DEF Scripts, Ids, NewId
  <2>3. /\ scripts' \in Seq(Scripts) /\ Len(scripts') = Len(scripts) + 1
        /\ DOMAIN scripts = 1 .. Len(scripts) /\ Len(scripts) \in Nat
        /\ DOMAIN scripts' = 1 .. (Len(scripts) + 1)
        /\ \A i \in DOMAIN scripts : scripts'[i] = scripts[i]
        /\ scripts'[Len(scripts) + 1] = s
    BY <1>0, <2>1, <2>2
  <2>4. \A i \in DOMAIN scripts : scripts[i] \in Scripts
    BY <1>0
  <2>5. Store'
    <3>1. \A id, t : Laid(id, t) => Laid(id, t)'
      BY <2>3 DEF Laid
    <3>. QED BY <1>0, <2>1, <2>3, <2>4, <3>1 DEF Store, Scripts, Ids, Policies
  <2>6. Grown(w)
    BY <1>0, <1>1, <2>1, <2>3 DEF Grown
  <2>. QED BY <1>0, <2>1, <2>3, <2>5, <2>6 DEF Ids
<1>2. CASE w.kind = "script" /\ w.id # 0
  <2>. DEFINE s == [id |-> w.id, name |-> w.name, body |-> w.body]
  <2>1. /\ scripts' = [i \in DOMAIN scripts |->
                         IF scripts[i].id = w.id THEN s ELSE scripts[i]]
        /\ created' = created /\ policies' = policies /\ NewId(w) = w.id
    BY <1>2 DEF Apply, NewId
  <2>2. s \in Scripts
    BY <1>0, <1>2 DEF Scripts, Ids, NewId
  <2>3. /\ DOMAIN scripts = 1 .. Len(scripts) /\ Len(scripts) \in Nat
        /\ \A i \in DOMAIN scripts : scripts[i] \in Scripts
    BY <1>0
  <2>4. scripts' \in Seq(Scripts) /\ DOMAIN scripts' = DOMAIN scripts
    <3>1. scripts' \in [1 .. Len(scripts) -> Scripts]
      BY <2>1, <2>2, <2>3
    <3>. QED BY <3>1, <2>3
  <2>5. PICK k \in DOMAIN scripts : scripts[k].id = w.id /\ scripts[k].name = w.name
    BY <1>2 DEF Formed, Laid
  <2>6. \A i \in DOMAIN scripts : scripts[i].id = w.id => i = k
    BY <2>5, <1>2 DEF Store
  <2>7. \A i \in DOMAIN scripts :
          /\ scripts'[i].id = scripts[i].id /\ scripts'[i].name = scripts[i].name
          /\ \/ scripts'[i] = scripts[i]
             \/ scripts[i].name = w.name /\ scripts'[i].body = w.body
    BY <2>1, <2>5, <2>6
  <2>8. Store'
    <3>1. \A id, t : Laid(id, t) => Laid(id, t)'
      BY <2>4, <2>7 DEF Laid
    <3>. QED BY <2>1, <2>4, <2>7, <3>1 DEF Store
  <2>9. Grown(w)
    <3>1. /\ scripts'[k].id = NewId(w) /\ scripts'[k].name = w.name
          /\ scripts'[k].body = w.body
      BY <2>1, <2>5
    <3>. QED BY <1>2, <2>1, <2>4, <2>5, <2>7, <3>1 DEF Grown
  <2>. QED BY <1>0, <2>1, <2>4, <2>8, <2>9 DEF Ids
<1>3. CASE w.kind = "policy"
  <2>. DEFINE p == [id |-> NewId(w), name |-> w.name, script |-> w.script]
  <2>1. /\ policies' = {q \in policies : q.id # w.id} \cup {p}
        /\ scripts' = scripts
        /\ created' = IF w.id = 0 THEN created + 1 ELSE created
    BY <1>3 DEF Apply
  <2>2. p \in Policies
    BY <1>0 DEF Policies, Ids, Writes
  <2>3. /\ created' \in Ids /\ created <= created' /\ NewId(w) <= created'
        /\ w.id = 0 => NewId(w) = created + 1
    <3>1. CASE w.id = 0
      BY <3>1, <1>0, <2>1 DEF Ids, NewId
    <3>2. CASE w.id # 0
      BY <3>2, <1>0, <1>3, <2>1 DEF Ids, NewId, Formed, Set, Store
    <3>. QED BY <3>1, <3>2
  <2>4. \A q \in policies : q.id = NewId(w) => q.id = w.id /\ q.name = w.name
    BY <1>0, <1>3 DEF NewId, Store, Formed, Set, Policies, Ids
  <2>5. w.id # 0 => NewId(w) = w.id /\ \E q \in policies : q.id = w.id /\ q.name = w.name
    BY <1>3 DEF Formed, Set, NewId
  <2>6. Store'
    <3>1. /\ created \in Nat /\ created' \in Nat
          /\ \A i \in DOMAIN scripts : scripts[i].id \in Nat
      <4>1. \A i \in DOMAIN scripts : scripts[i] \in Scripts BY <1>0
      <4>. QED BY <4>1, <1>0, <2>3 DEF Scripts, Ids
    <3>2. \A q \in policies : q.id \in Nat
      BY <1>0 DEF Policies, Ids
    <3>3. /\ p.id # 0 /\ p.id <= created' /\ p.script # 0 /\ Laid(p.script, p.name)
      BY <1>0, <1>3, <2>3 DEF Formed
    <3>4. \A id, t : Laid(id, t) => Laid(id, t)'
      BY <2>1 DEF Laid
    <3>5. \A q1, q2 \in policies' : q1.id = q2.id => q1 = q2
      BY <2>1, <2>4 DEF Store
    <3>6. \A q \in policies' : q.id # 0 /\ q.id <= created' /\ q.script # 0
                                 /\ Laid(q.script, q.name)'
      BY <2>1, <2>3, <3>1, <3>2, <3>3, <3>4 DEF Store
    <3>7. \A i \in DOMAIN scripts' :
            /\ scripts'[i].id <= created'
            /\ scripts'[i].id = 0 <=> scripts'[i].name \in Foreign
      BY <2>1, <2>3, <3>1 DEF Store
    <3>8. \A i, j \in DOMAIN scripts' :
            scripts'[i].id = scripts'[j].id /\ scripts'[i].id # 0 => i = j
      BY <2>1 DEF Store
    <3>. QED BY <3>5, <3>6, <3>7, <3>8 DEF Store
  <2>7. Grown(w)
    <3>1. \A q \in policies :
            \E q2 \in policies' : /\ q2.id = q.id /\ q2.name = q.name
                                  /\ q2 = q \/ q2.script = w.script
      <4>. TAKE q \in policies
      <4>1. CASE q.id # w.id
        BY <4>1, <2>1
      <4>2. CASE q.id = w.id
        <5>1. NewId(w) = w.id
          BY <4>2 DEF Store, NewId
        <5>2. p \in policies' /\ p.id = q.id /\ p.name = q.name
          BY <5>1, <4>2, <2>1, <2>4
        <5>. QED BY <5>2
      <4>. QED BY <4>1, <4>2
    <3>2. \A q \in policies' :
            \/ q \in policies
            \/ q.name = w.name /\ q.script = w.script
      BY <2>1
    <3>3. \A q \in policies' :
            \/ \E q2 \in policies : q2.id = q.id /\ q2.name = q.name
            \/ w.id = 0 /\ q.id = created + 1
      <4>. TAKE q \in policies'
      <4>1. CASE q \in policies
        BY <4>1
      <4>2. CASE q = p
        BY <4>2, <2>3, <2>5
      <4>. QED BY <4>1, <4>2, <2>1
    <3>4. \E q \in policies' : q.name = w.name /\ q.script = w.script
      <4>1. p \in policies' /\ p.name = w.name /\ p.script = w.script BY <2>1
      <4>. QED BY <4>1
    <3>. QED BY <1>3, <2>1, <3>1, <3>2, <3>3, <3>4 DEF Grown
  <2>8. policies' \subseteq Policies /\ NewId(w) \in Ids
    BY <1>0, <2>1, <2>2 DEF Ids
  <2>. QED BY <1>0, <2>1, <2>3, <2>6, <2>7, <2>8
<1>. QED BY <1>0, <1>1, <1>2, <1>3

-----------------------------------------------------------------------------
\* What the calls hold while the tenant grows or stands still.

\* What the calls know stays so while nothing of the tenant changes.
LEMMA Still ==
  ASSUME UNCHANGED <<scripts, policies, command>>, disturbed \subseteq disturbed',
         delayed \subseteq delayed', NEW r, Call(r), request'[r] = request[r]
  PROVE  Call(r)'
<1>1. Shape(r)' BY DEF Call, Shape
<1>2. Looked(r)' BY DEF Call, Looked, Shaken, Laid
<1>3. Written(r)' BY DEF Call, Written
<1>4. Sought(r)' BY DEF Call, Sought, Shaken, Set
<1>5. Enforced(r)' BY DEF Call, Enforced, InForce
<1>. QED BY <1>1, <1>2, <1>3, <1>4, <1>5 DEF Call

\* A write puts into force what this run of the server builds, unless it is late.
Current(w) ==
  /\ w.body = command
  /\ w.kind = "policy" =>
       \E i \in DOMAIN scripts : /\ scripts[i].id = w.script
                                 /\ scripts[i].name = w.name
                                 /\ scripts[i].body = command

LEMMA ForceKept ==
  ASSUME Store, NEW w, Grown(w), UNCHANGED command, NEW t, InForce(t),
         w.name = t => Current(w)
  PROVE  InForce(t)'
<1>1. PICK p \in policies, i \in DOMAIN scripts :
        /\ p.name = t /\ p.script = scripts[i].id
        /\ scripts[i].name = t /\ scripts[i].body = command
  BY DEF InForce
<1>2. \A k \in DOMAIN scripts :
        scripts[k].name = t /\ scripts[k].body = command =>
          /\ k \in DOMAIN scripts' /\ scripts'[k].id = scripts[k].id
          /\ scripts'[k].name = t /\ scripts'[k].body = command
  BY DEF Grown, Current
<1>3. PICK q \in policies' : /\ q.id = p.id /\ q.name = p.name
                             /\ \/ q = p
                                \/ w.kind = "policy" /\ q.script = w.script
  BY <1>1 DEF Grown
<1>4. CASE q = p
  BY <1>1, <1>2, <1>3, <1>4 DEF InForce
<1>5. CASE q # p
  <2>1. q \notin policies
    BY <1>1, <1>3, <1>5 DEF Store
  <2>2. w.kind = "policy" /\ q.name = w.name /\ q.script = w.script
    BY <2>1, <1>3 DEF Grown
  <2>3. PICK k \in DOMAIN scripts : /\ scripts[k].id = w.script
                                    /\ scripts[k].name = w.name
                                    /\ scripts[k].body = command
    BY <2>2, <1>1, <1>3 DEF Current
  <2>. QED BY <1>1, <1>2, <1>3, <2>2, <2>3 DEF InForce
<1>. QED BY <1>4, <1>5

\* A write leaves what another call knows as it is, unless it is of the same
\* tripwire: then one has disturbed the other, or it was delayed.
LEMMA Undisturbed ==
  ASSUME TypeOK, Store, NEW w, Grown(w), UNCHANGED command,
         disturbed \subseteq disturbed', delayed \subseteq delayed',
         w.name \in delayed' \/ Current(w),
         NEW r, Call(r), request'[r] = request[r],
         request[r].tripwire = w.name => w.name \in Shaken'
  PROVE  Call(r)'
<1>. DEFINE t == request[r].tripwire
<1>0. /\ Shaken \subseteq Shaken'
      /\ \A i \in DOMAIN scripts' :
           \/ i \in DOMAIN scripts /\ scripts'[i].name = scripts[i].name
           \/ i \notin DOMAIN scripts /\ scripts'[i].name = w.name
      /\ \A id, n : Laid(id, n) => Laid(id, n)'
      /\ \A id, n : Set(id, n) => Set(id, n)'
  <2>1. \A id, n : Laid(id, n) => Laid(id, n)'
    BY DEF Grown, Laid
  <2>2. \A id, n : Set(id, n) => Set(id, n)'
    BY DEF Grown, Set
  <2>. QED BY <2>1, <2>2 DEF Grown, Shaken
<1>1. Shape(r)' BY DEF Call, Shape
<1>2. Looked(r)'
  BY <1>0 DEF Call, Looked
<1>3. Written(r)'
  <2>. SUFFICES ASSUME request[r].pc \in {"policies", "policy"}
                PROVE  /\ request[r].script # 0
                       /\ \E i \in DOMAIN scripts' :
                            /\ scripts'[i].id = request[r].script
                            /\ scripts'[i].name = t
                            /\ t \notin delayed' => scripts'[i].body = command
    BY DEF Written
  <2>1. PICK i \in DOMAIN scripts :
          /\ scripts[i].id = request[r].script /\ scripts[i].name = t
          /\ t \notin delayed => scripts[i].body = command
    BY DEF Call, Written
  <2>2. /\ i \in DOMAIN scripts' /\ scripts'[i].id = request[r].script
        /\ scripts'[i].name = t
        /\ t \notin delayed' => scripts'[i].body = command
    BY <2>1 DEF Grown, Current
  <2>. QED BY <2>2 DEF Call, Written
<1>4. Sought(r)'
  BY <1>0 DEF Call, Sought, Grown
<1>5. Enforced(r)'
  BY ForceKept DEF Call, Enforced
<1>. QED BY <1>1, <1>2, <1>3, <1>4, <1>5 DEF Call

\* A write makes no second object of a tripwire whose calls were undisturbed.
LEMMA NoSecond ==
  ASSUME Store, Store', OneEachIfUndisturbed, NEW w, Grown(w), NewId(w) # 0,
         disturbed \subseteq disturbed', delayed \subseteq delayed',
         w.name \notin Shaken' /\ w.id = 0 =>
           IF w.kind = "script" THEN \A i \in DOMAIN scripts : scripts[i].name # w.name
                                ELSE \A p \in policies : p.name # w.name
  PROVE  OneEachIfUndisturbed'
<1>. SUFFICES ASSUME NEW t \in Tripwires, t \notin Shaken'
              PROVE  OneEach(t)'
  BY DEF OneEachIfUndisturbed, Shaken
<1>1. OneEach(t)
  BY DEF OneEachIfUndisturbed, Shaken
<1>2. ASSUME NEW i \in DOMAIN scripts', NEW j \in DOMAIN scripts',
             scripts'[i].name = t, scripts'[j].name = t
      PROVE  i = j
  <2>1. CASE w.name = t /\ w.kind = "script" /\ w.id = 0
    <3>1. i \notin DOMAIN scripts /\ j \notin DOMAIN scripts
      BY <1>2, <2>1 DEF Grown
    <3>. QED BY <3>1 DEF Grown
  <2>2. CASE ~(w.name = t /\ w.kind = "script" /\ w.id = 0)
    <3>1. i \in DOMAIN scripts /\ j \in DOMAIN scripts
      BY <1>2, <2>2 DEF Grown
    <3>2. scripts[i].name = t /\ scripts[j].name = t
      BY <1>2, <3>1 DEF Grown
    <3>. QED BY <3>1, <3>2, <1>1 DEF OneEach
  <2>. QED BY <2>1, <2>2
<1>3. ASSUME NEW p \in policies', NEW q \in policies', p.name = t, q.name = t
      PROVE  p = q
  <2>1. CASE w.name = t /\ w.kind = "policy" /\ w.id = 0
    <3>1. p \notin policies /\ q \notin policies
      BY <1>3, <2>1
    <3>2. \A x \in policies' : x.name = t => x.id = created + 1
      BY <2>1 DEF Grown
    <3>. QED BY <3>2, <1>3 DEF Store
  <2>2. CASE w.kind = "policy" /\ w.id = 0 /\ w.name # t
    <3>1. p \in policies /\ q \in policies
      BY <1>3, <2>2 DEF Grown
    <3>. QED BY <3>1, <1>1, <1>3 DEF OneEach
  <2>3. CASE ~(w.kind = "policy" /\ w.id = 0)
    <3>1. PICK x \in policies : x.id = p.id /\ x.name = t
      BY <1>3, <2>3 DEF Grown
    <3>2. PICK y \in policies : y.id = q.id /\ y.name = t
      BY <1>3, <2>3 DEF Grown
    <3>3. p.id = q.id
      BY <3>1, <3>2, <1>1 DEF OneEach
    <3>. QED BY <3>3 DEF Store
  <2>. QED BY <2>1, <2>2, <2>3
<1>. QED BY <1>2, <1>3 DEF OneEach

\* The script of an unshaken tripwire keeps its policy, or a call that goes on.
Cared(i) ==
  \/ scripts[i].name \in Foreign \cup halfway \cup disturbed \cup delayed
  \/ \E p \in policies : p.script = scripts[i].id
  \/ \E r \in Requests : request[r].tripwire = scripts[i].name
                           /\ request[r].scoped

LEMMA CareKept ==
  ASSUME TypeOK, Store, OneEachIfUndisturbed, OrphanOnlyHalfway,
         NEW w, Formed(w), Grown(w),
         disturbed \subseteq disturbed', delayed \subseteq delayed',
         halfway \subseteq halfway',
         \A r \in Requests : request[r].scoped =>
           \/ request'[r].tripwire = request[r].tripwire /\ request'[r].scoped
           \/ request[r].tripwire \in halfway',
         \/ w.name \in Shaken' \cup halfway'
         \/ \E r \in Requests : request'[r].tripwire = w.name /\ request'[r].scoped
  PROVE  OrphanOnlyHalfway'
<1>. SUFFICES ASSUME NEW i \in DOMAIN scripts' PROVE Cared(i)'
  BY DEF OrphanOnlyHalfway, Cared
<1>1. CASE i \notin DOMAIN scripts
  <2>1. scripts'[i].name = w.name
    BY <1>1 DEF Grown
  <2>. QED BY <2>1 DEF Cared, Shaken
<1>2. CASE i \in DOMAIN scripts
  <2>0. scripts'[i].id = scripts[i].id /\ scripts'[i].name = scripts[i].name
    BY <1>2 DEF Grown
  <2>1. Cared(i)
    BY <1>2 DEF OrphanOnlyHalfway, Cared
  <2>2. CASE scripts[i].name \in Foreign \cup halfway \cup disturbed \cup delayed
    BY <2>0, <2>2 DEF Cared
  <2>3. CASE \E r \in Requests : request[r].tripwire = scripts[i].name
                                   /\ request[r].scoped
    BY <2>0, <2>3 DEF Cared
  <2>4. CASE \E p \in policies : p.script = scripts[i].id
    <3>1. PICK p \in policies : p.script = scripts[i].id
      BY <2>4
    <3>2. PICK q \in policies' : /\ q.id = p.id /\ q.name = p.name
                                 /\ \/ q = p
                                    \/ w.kind = "policy" /\ q.script = w.script
      BY <3>1 DEF Grown
    <3>3. CASE q = p
      BY <2>0, <3>1, <3>2, <3>3 DEF Cared
    <3>4. CASE q # p
      <4>1. q \notin policies
        BY <3>1, <3>2, <3>4 DEF Store
      <4>2. w.kind = "policy" /\ q.name = w.name /\ q.script = w.script
        BY <4>1, <3>2 DEF Grown
      <4>3. scripts[i].name = w.name
        <5>1. PICK k \in DOMAIN scripts : scripts[k].id = p.script
                                            /\ scripts[k].name = p.name
          BY DEF Store, Laid
        <5>2. k = i
          BY <5>1, <3>1, <1>2 DEF Store
        <5>. QED BY <5>1, <5>2, <3>2, <4>2
      <4>4. CASE w.name \in Shaken
        BY <4>3, <4>4, <2>0 DEF Cared, Shaken
      <4>5. CASE w.name \notin Shaken
        <5>1. PICK k \in DOMAIN scripts : scripts[k].id = w.script
                                            /\ scripts[k].name = w.name
          BY <4>2 DEF Formed, Laid
        <5>2. k = i
          BY <5>1, <4>3, <4>5, <1>2
             DEF OneEachIfUndisturbed, OneEach, Shaken, Formed, Writes
        <5>. QED BY <5>1, <5>2, <4>2, <2>0 DEF Cared
      <4>. QED BY <4>4, <4>5
    <3>. QED BY <3>3, <3>4
  <2>. QED BY <2>1, <2>2, <2>3, <2>4 DEF Cared
<1>. QED BY <1>1, <1>2

-----------------------------------------------------------------------------
\* One lemma for each way a step changes the calls.

\* What no step of a call takes away.
History ==
  /\ disturbed \subseteq disturbed' /\ disturbed' \subseteq Tripwires
  /\ delayed \subseteq delayed' /\ delayed' \subseteq Tripwires
  /\ halfway \subseteq halfway' /\ halfway' \subseteq Tripwires

\* Call r goes on, ends or returns; the others do not move.
Moved(r) ==
  /\ request' \in [Requests -> Calls]
  /\ \A q \in Requests \ {r} : request'[q] = request[q]
  /\ request'[r].tripwire \in {request[r].tripwire, None}

LEMMA Raised ==
  ASSUME TypeOK, NEW r \in Requests, Shape(r), Calling(r), Raise(r)
  PROVE  /\ Moved(r) /\ Call(r)' /\ halfway \subseteq halfway'
         /\ halfway' \subseteq Tripwires
         /\ request'[r].tripwire = request[r].tripwire
         /\ request[r].scoped => request[r].tripwire \in halfway'
<1>. DEFINE t == request[r].tripwire
            g == [pc |-> "done", tripwire |-> t, attempt |-> 1, page |-> 0,
                  existing |-> 0, scoped |-> FALSE, script |-> 0,
                  mdm |-> "failed"]
<1>0. t \in Tripwires
  BY DEF Shape, Calling
<1>1. request' = [request EXCEPT ![r] = g]
  <2>1. Finish(request[r], "failed") = g
    <3>1. Finish(request[r], "failed") =
            [[[Idle EXCEPT !.pc = "done"] EXCEPT !.tripwire = t] EXCEPT !.mdm = "failed"]
      BY Zenon DEF Finish, Idle
    <3>. QED BY <3>1 DEF Idle
  <2>. QED BY <2>1 DEF Raise, Step
<1>2. g \in Calls
  BY <1>0, DeployAssumption DEF Calls, Ids
<1>3. request' \in [Requests -> Calls] /\ request'[r] = g
      /\ \A q \in Requests \ {r} : request'[q] = request[q]
  BY <1>1, <1>2 DEF TypeOK
<1>4. /\ halfway \subseteq halfway' /\ halfway' \subseteq Tripwires
      /\ request[r].scoped => t \in halfway'
  BY <1>0 DEF Raise, TypeOK
<1>5. Call(r)'
  BY <1>0, <1>3 DEF Call, Shape, Looked, Written, Sought, Enforced
<1>. QED BY <1>3, <1>4, <1>5 DEF Moved

\* A move of one call does not bring two calls together.
LEMMA ApartKept ==
  ASSUME Apart, NEW r \in Requests, Moved(r), disturbed \subseteq disturbed'
  PROVE  Apart'
<1>. SUFFICES ASSUME NEW p \in Requests, NEW q \in Requests, p # q,
                     request'[p].tripwire = request'[q].tripwire,
                     request'[q].tripwire # None
              PROVE  request'[q].tripwire \in disturbed'
  BY DEF Apart
<1>1. /\ request'[p].tripwire = request[p].tripwire
      /\ request'[q].tripwire = request[q].tripwire
  BY DEF Moved
<1>. QED BY <1>1 DEF Apart

\* A step of a call that leaves the tenant alone.
LEMMA Quiet ==
  ASSUME IndInv, NEW r \in Requests, Moved(r), Call(r)',
         UNCHANGED <<tenant, group, command, disturbed, delayed>>,
         halfway \subseteq halfway', halfway' \subseteq Tripwires,
         faults' \in 0 .. MaxFaults,
         \* the call that is over has left no orphan
         request[r].scoped =>
           \/ request'[r].tripwire = request[r].tripwire /\ request'[r].scoped
           \/ request[r].tripwire \in halfway'
           \/ \A i \in DOMAIN scripts :
                scripts[i].name = request[r].tripwire => Cared(i)'
  PROVE  IndInv'
<1>1. TypeOK'
  BY DEF IndInv, TypeOK, Moved, tenant
<1>2. Store'
  BY DEF IndInv, Store, Laid, tenant
<1>3. Lateness'
  BY DEF IndInv, Lateness, Formed, Laid, Set, tenant
<1>4. \A q \in Requests : Call(q)'
  <2>. TAKE q \in Requests
  <2>1. CASE q = r BY <2>1
  <2>2. CASE q # r BY <2>2, Still DEF IndInv, Moved, tenant
  <2>. QED BY <2>1, <2>2
<1>5. Apart'
  BY ApartKept DEF IndInv
<1>6. OneEachIfUndisturbed'
  BY DEF IndInv, OneEachIfUndisturbed, OneEach, tenant
<1>7. OrphanOnlyHalfway'
  <2>. SUFFICES ASSUME NEW i \in DOMAIN scripts' PROVE Cared(i)'
    BY DEF OrphanOnlyHalfway, Cared
  <2>0. i \in DOMAIN scripts /\ scripts' = scripts /\ policies' = policies
    BY DEF tenant
  <2>1. Cared(i)
    BY <2>0 DEF IndInv, OrphanOnlyHalfway, Cared
  <2>2. CASE \/ scripts[i].name \in Foreign \cup halfway \cup disturbed \cup delayed
             \/ \E p \in policies : p.script = scripts[i].id
    BY <2>0, <2>2 DEF Cared
  <2>3. CASE \E q \in Requests : request[q].tripwire = scripts[i].name
                                   /\ request[q].scoped
    <3>1. PICK q \in Requests : request[q].tripwire = scripts[i].name
                                  /\ request[q].scoped
      BY <2>3
    <3>2. CASE q = r
      BY <2>0, <3>1, <3>2 DEF Cared
    <3>3. CASE q # r
      BY <2>0, <3>1, <3>3 DEF Cared, Moved
    <3>. QED BY <3>2, <3>3
  <2>. QED BY <2>1, <2>2, <2>3 DEF Cared
<1>. QED BY <1>1, <1>2, <1>3, <1>4, <1>5, <1>6, <1>7 DEF IndInv

\* A write of a call that is in the tenant, or lost on its way.
LEMMA Wrote ==
  ASSUME IndInv, NEW r \in Requests, NEW w, NEW h, Write(r, w, h),
         UNCHANGED <<group, command, disturbed>>,
         Formed(w), w.name \in delayed \/ Current(w), w.name = request[r].tripwire,
         Calling(r), request[r].scoped,
         NewId(w) \in Ids => h \in Calls /\ h.tripwire = w.name /\ h.scoped,
         w.name \notin Shaken /\ w.id = 0 =>
           IF w.kind = "script" THEN \A i \in DOMAIN scripts : scripts[i].name # w.name
                                ELSE \A p \in policies : p.name # w.name,
         NewId(w) \in Ids \ {0} /\ Grown(w) /\ request'[r] = h /\ UNCHANGED delayed
           => Call(r)'
  PROVE  IndInv'
<1>. USE DeployAssumption
<1>0. /\ TypeOK /\ Store /\ Call(r) /\ Shape(r) /\ w.name \in Tripwires
      /\ w.name # None
  BY DEF IndInv, Call, Formed, Writes
<1>1. CASE /\ Accepted(w) /\ Apply(w)
           /\ \/ Step(r, h) /\ UNCHANGED halfway
              \/ Raise(r)
           /\ UNCHANGED <<late, faults, delayed>>
  <2>1. /\ scripts' \in Seq(Scripts) /\ policies' \subseteq Policies
        /\ created' \in Ids /\ NewId(w) \in Ids /\ NewId(w) # 0
        /\ Store' /\ Grown(w)
    BY <1>0, <1>1, Applied
  <2>2. /\ Moved(r) /\ Call(r)' /\ request'[r].tripwire = w.name
        /\ halfway \subseteq halfway' /\ halfway' \subseteq Tripwires
        /\ w.name \in halfway' \/ request'[r].scoped
    <3>1. CASE Step(r, h) /\ UNCHANGED halfway
      <4>1. request' = [request EXCEPT ![r] = h] /\ h \in Calls
        BY <3>1, <2>1 DEF Step
      <4>2. /\ request' \in [Requests -> Calls] /\ request'[r] = h
            /\ \A q \in Requests \ {r} : request'[q] = request[q]
        BY <4>1, <1>0 DEF TypeOK
      <4>. QED BY <4>2, <3>1, <1>0, <1>1, <2>1 DEF Moved, TypeOK
    <3>2. CASE Raise(r)
      BY <3>2, <1>0, Raised DEF Moved, Raise
    <3>. QED BY <3>1, <3>2, <1>1
  <2>3. TypeOK'
    BY <1>0, <1>1, <2>1, <2>2 DEF TypeOK, Moved
  <2>4. Lateness'
    <3>1. \A id, n : Laid(id, n) => Laid(id, n)'
      BY <2>1 DEF Grown, Laid
    <3>2. \A id, n : Set(id, n) => Set(id, n)'
      BY <2>1 DEF Grown, Set
    <3>. QED BY <1>1, <3>1, <3>2 DEF IndInv, Lateness, Formed
  <2>5. \A q \in Requests : Call(q)'
    <3>. TAKE q \in Requests
    <3>1. CASE q = r BY <3>1, <2>2
    <3>2. CASE q # r
      <4>1. request[q].tripwire = w.name => w.name \in Shaken'
        BY <3>2, <1>0 DEF IndInv, Apart, Shaken
      <4>. QED BY <4>1, <3>2, <1>0, <1>1, <2>1, <2>2, Undisturbed DEF IndInv, Moved
    <3>. QED BY <3>1, <3>2
  <2>6. Apart'
    BY <2>2, ApartKept DEF IndInv
  <2>7. OneEachIfUndisturbed'
    <3>1. Shaken' = Shaken
      BY <1>1 DEF Shaken
    <3>. QED BY <3>1, <1>0, <1>1, <2>1, NoSecond DEF IndInv
  <2>8. OrphanOnlyHalfway'
    <3>1. \A q \in Requests : request[q].scoped =>
             \/ request'[q].tripwire = request[q].tripwire /\ request'[q].scoped
             \/ request[q].tripwire \in halfway'
      BY <1>0, <2>2 DEF Moved
    <3>2. \/ w.name \in Shaken' \cup halfway'
          \/ \E q \in Requests : request'[q].tripwire = w.name /\ request'[q].scoped
      BY <2>2
    <3>. QED BY <1>0, <1>1, <2>1, <2>2, <3>1, <3>2, CareKept DEF IndInv
  <2>. QED BY <2>1, <2>3, <2>4, <2>5, <2>6, <2>7, <2>8 DEF IndInv
<1>2. CASE /\ Accepted(w) /\ Fault
           /\ Raise(r)
           /\ late' = late \cup {w}
           /\ delayed' = delayed \cup {w.name}
           /\ UNCHANGED <<scripts, policies, created>>
  <2>1. /\ Moved(r) /\ Call(r)' /\ halfway \subseteq halfway'
        /\ halfway' \subseteq Tripwires
        /\ request'[r].tripwire = request[r].tripwire
        /\ request[r].scoped => request[r].tripwire \in halfway'
    BY <1>0, <1>2, Raised
  <2>2. TypeOK'
    BY <1>0, <1>2, <2>1 DEF TypeOK, Fault, Moved, Formed
  <2>3. Store'
    BY <1>0, <1>2 DEF Store, Laid
  <2>4. Lateness'
    BY <1>2 DEF IndInv, Lateness, Formed, Laid, Set
  <2>5. \A q \in Requests : Call(q)'
    <3>. TAKE q \in Requests
    <3>1. CASE q = r BY <3>1, <2>1
    <3>2. CASE q # r BY <3>2, <1>2, <2>1, Still DEF IndInv, Moved
    <3>. QED BY <3>1, <3>2
  <2>6. Apart'
    BY <2>1, ApartKept DEF IndInv
  <2>7. OneEachIfUndisturbed'
    BY <1>2 DEF IndInv, OneEachIfUndisturbed, OneEach
  <2>8. OrphanOnlyHalfway'
    BY <1>2, <2>1 DEF IndInv, OrphanOnlyHalfway, Moved
  <2>. QED BY <2>2, <2>3, <2>4, <2>5, <2>6, <2>7, <2>8 DEF IndInv
<1>. QED BY <1>1, <1>2 DEF Write

-----------------------------------------------------------------------------
\* Records and pages.

\* The next request of a call leaves its other variables alone.
LEMMA GotoCall ==
  ASSUME NEW h \in Calls, NEW pc \in {"scripts", "script", "policies", "policy",
                                      "count"}
  PROVE  /\ Goto(h, pc) \in Calls
         /\ Goto(h, pc).pc = pc /\ Goto(h, pc).tripwire = h.tripwire
         /\ Goto(h, pc).page = h.page /\ Goto(h, pc).existing = h.existing
         /\ Goto(h, pc).scoped = h.scoped /\ Goto(h, pc).script = h.script
         /\ Goto(h, pc).mdm = h.mdm
<1>. DEFINE a == [h EXCEPT !.pc = pc]
            b == [a EXCEPT !.attempt = 1]
<1>1. Goto(h, pc) = b
  BY Zenon DEF Goto
<1>2. /\ a \in Calls /\ a.pc = pc /\ a.tripwire = h.tripwire /\ a.page = h.page 
      /\ a.existing = h.existing
         /\ a.scoped = h.scoped /\ a.script = h.script
         /\ a.mdm = h.mdm
  BY DEF Calls
<1>. HIDE DEF a
<1>3. /\ b \in Calls /\ b.pc = a.pc /\ b.tripwire = a.tripwire /\ b.page = a.page 
      /\ b.existing = a.existing
         /\ b.scoped = a.scoped /\ b.script = a.script
         /\ b.mdm = a.mdm
  BY <1>2 DEF Calls
<1>. QED BY <1>1, <1>2, <1>3

LEMMA FoundCall ==
  ASSUME NEW h \in Calls, NEW id \in Ids,
         NEW g, g = [h EXCEPT !.existing = id, !.page = 0]
  PROVE  /\ g \in Calls /\ g.pc = h.pc /\ g.tripwire = h.tripwire
         /\ g.existing = id /\ g.scoped = h.scoped /\ g.mdm = h.mdm
<1>. DEFINE a == [h EXCEPT !.existing = id]
<1>1. g = [a EXCEPT !.page = 0]
  BY Zenon
<1>2. /\ a \in Calls /\ a.pc = h.pc /\ a.tripwire = h.tripwire
      /\ a.existing = id /\ a.scoped = h.scoped /\ a.mdm = h.mdm
  BY DEF Calls
<1>. HIDE DEF a
<1>. QED BY <1>1, <1>2 DEF Calls

WithScript(h, id, script) == [h EXCEPT !.existing = id, !.script = script]

LEMMA ScriptCall ==
  ASSUME NEW h \in Calls, NEW id \in Ids, NEW script \in Ids
  PROVE  LET g == WithScript(h, id, script) IN
         /\ g \in Calls /\ g.pc = h.pc /\ g.tripwire = h.tripwire
         /\ g.script = script /\ g.scoped = h.scoped /\ g.mdm = h.mdm
<1>. DEFINE a == [h EXCEPT !.existing = id]
            g == WithScript(h, id, script)
<1>1. g = [a EXCEPT !.script = script]
  BY Zenon DEF WithScript
<1>2. /\ a \in Calls /\ a.pc = h.pc /\ a.tripwire = h.tripwire
      /\ a.scoped = h.scoped /\ a.mdm = h.mdm
  BY DEF Calls
<1>. HIDE DEF a, g
<1>3. /\ g \in Calls /\ g.pc = h.pc /\ g.tripwire = h.tripwire
      /\ g.script = script /\ g.scoped = h.scoped /\ g.mdm = h.mdm
  BY <1>1, <1>2 DEF Calls
<1>. QED BY <1>3 DEF g

\* A page is the part of the list its number says, and a page that is not full
\* is the last.
PageAfter(k) ==
  SubSeq(scripts, k + 1,
         IF k + PageSize <= Len(scripts) THEN k + PageSize ELSE Len(scripts))

LEMMA PageIs ==
  ASSUME NEW k \in Nat, scripts \in Seq(Scripts), NEW page, page = PageAfter(k)
  PROVE  /\ Len(page) \in Nat /\ DOMAIN page = 1 .. Len(page)
         /\ \A i \in 1 .. Len(page) :
              k + i \in DOMAIN scripts /\ page[i] = scripts[k + i]
         /\ \A i \in DOMAIN scripts :
              i > k /\ i <= k + PageSize => i - k \in 1 .. Len(page)
         /\ Len(page) < PageSize => \A i \in DOMAIN scripts : i <= k + PageSize
<1>0. PageSize \in Nat BY DeployAssumption
<1>. DEFINE m == IF k + PageSize <= Len(scripts) THEN k + PageSize ELSE Len(scripts)
<1>1. page = SubSeq(scripts, k + 1, m)
  BY DEF PageAfter
<1>2. /\ m \in Nat /\ Len(scripts) \in Nat /\ DOMAIN scripts = 1 .. Len(scripts)
      /\ m <= Len(scripts)
  BY <1>0
<1>9. m = k + PageSize \/ m = Len(scripts)
  OBVIOUS
<1>. HIDE DEF m
<1>3. /\ page \in Seq(Scripts)
      /\ Len(page) = IF k + 1 <= m THEN m - (k + 1) + 1 ELSE 0
      /\ \A i \in 1 .. m - (k + 1) + 1 : page[i] = scripts[k + 1 + i - 1]
  <2>1. k + 1 \in Int /\ m \in Int /\ \A i \in k + 1 .. m : scripts[i] \in Scripts
    <3>1. \A i \in k + 1 .. m : i \in DOMAIN scripts BY <1>2
    <3>. QED BY <1>2, <3>1
  <2>. QED BY <1>1, <2>1, SubSeqProperties
<1>4. Len(page) \in Nat /\ DOMAIN page = 1 .. Len(page)
  BY <1>3
<1>5. \A i \in 1 .. Len(page) : page[i] = scripts[k + i]
  <2>1. \A i \in 1 .. Len(page) : i \in 1 .. m - (k + 1) + 1 /\ k + 1 + i - 1 = k + i
    BY <1>0, <1>2, <1>3
  <2>. QED BY <1>3, <2>1
<1>6. \A i \in 1 .. Len(page) : k + i \in DOMAIN scripts
  BY <1>0, <1>2, <1>3
<1>7. \A i \in DOMAIN scripts : i <= k + PageSize => i <= m
  <2>1. \A i \in DOMAIN scripts : i \in Nat /\ i <= Len(scripts)
    BY <1>2
  <2>2. CASE m = k + PageSize
    BY <2>2
  <2>3. CASE m = Len(scripts)
    BY <2>1, <2>3
  <2>. QED BY <1>9, <2>2, <2>3
<1>8. \A i \in DOMAIN scripts : i > k /\ i <= k + PageSize => i - k \in 1 .. Len(page)
  <2>1. \A i \in DOMAIN scripts : i \in Nat
    BY <1>2
  <2>2. \A i \in Nat : i > k /\ i <= m => i - k \in 1 .. Len(page)
    BY <1>2, <1>3
  <2>. QED BY <1>7, <2>1, <2>2
<1>10. ASSUME Len(page) < PageSize, NEW i \in DOMAIN scripts
       PROVE  i <= k + PageSize
  <2>1. i \in Nat /\ i <= Len(scripts)
    BY <1>2
  <2>2. CASE m = k + PageSize
    <3>1. PageSize # 0 BY DeployAssumption
    <3>2. Len(page) = PageSize
      <4>1. k + 1 <= m BY <3>1, <1>0, <2>2
      <4>. QED BY <4>1, <1>0, <1>2, <1>3, <2>2
    <3>. QED BY <3>2, <1>10, <1>0
  <2>3. CASE m = Len(scripts)
    <3>1. m <= k + PageSize
      BY <1>0, <1>2, <1>10, <1>3
    <3>. QED BY <3>1, <2>1, <2>3, <1>0
  <2>. QED BY <1>9, <2>2, <2>3
<1>. QED BY <1>4, <1>5, <1>6, <1>8, <1>10

\* A set of numbers has a least one: the first match on a page.
LEMMA Least ==
  ASSUME NEW S \in SUBSET Nat, S # {}
  PROVE  \E i \in S : \A j \in S : i <= j
<1>. DEFINE R == OpToRel(<, Nat)
<1>0. \A x, y \in Nat : x < y => <<x, y>> \in R
  BY DEF OpToRel
<1>1. IsWellFoundedOn(R, Nat)
  BY NatLessThanWellFounded
<1>. HIDE DEF R
<1>2. PICK i \in S : \A j \in S : ~(<<j, i>> \in R)
  BY <1>1, WFMin, Zenon
<1>3. ASSUME NEW j \in S PROVE i <= j
  <2>1. i \in Nat /\ j \in Nat OBVIOUS
  <2>2. ~(j < i) BY <1>0, <1>2, <2>1
  <2>. QED BY <2>1, <2>2
<1>. QED BY <1>3

-----------------------------------------------------------------------------
\* The steps of a call, in its order.

LEMMA IdleCall == Idle \in Calls
BY DeployAssumption DEF Idle, Calls, Ids

\* A call in progress is of a tripwire.
LEMMA OfTripwire ==
  ASSUME IndInv, NEW r \in Requests, request[r].pc # "idle"
  PROVE  request[r] \in Calls /\ request[r].tripwire \in Tripwires
BY DEF IndInv, TypeOK, Call, Shape

LEMMA DistributeStep ==
  ASSUME IndInv, NEW r \in Requests, NEW t \in Tripwires, Distribute(r, t)
  PROVE  IndInv'
<1>. USE DeployAssumption
<1>. DEFINE g == [Idle EXCEPT !.pc = "group", !.tripwire = t]
            f == Finish([Idle EXCEPT !.tripwire = t], "failed")
<1>0. TypeOK /\ request \in [Requests -> Calls] /\ request[r].pc = "idle"
      /\ request[r].tripwire = None /\ ~request[r].scoped
  BY DEF IndInv, TypeOK, Distribute, Call, Shape
<1>1. /\ g \in Calls /\ g.pc = "group" /\ g.tripwire = t /\ ~g.scoped
      /\ g.mdm = "none"
  <2>1. g = [[Idle EXCEPT !.pc = "group"] EXCEPT !.tripwire = t]
    BY Zenon DEF Idle
  <2>. HIDE DEF g
  <2>2. g = [pc |-> "group", tripwire |-> t, attempt |-> 1, page |-> 0,
             existing |-> 0, scoped |-> FALSE, script |-> 0, mdm |-> "none"]
    BY <2>1 DEF Idle
  <2>. QED BY <2>2 DEF Calls, Ids
<1>2. /\ f \in Calls /\ f.pc = "done" /\ f.tripwire = t /\ ~f.scoped
      /\ f.mdm = "failed"
  <2>1. [Idle EXCEPT !.tripwire = t].tripwire = t
    BY DEF Idle
  <2>2. f = [[[Idle EXCEPT !.pc = "done"] EXCEPT !.tripwire = t]
                  EXCEPT !.mdm = "failed"]
    BY <2>1, Zenon DEF Finish, Idle
  <2>3. f = [pc |-> "done", tripwire |-> t, attempt |-> 1, page |-> 0,
             existing |-> 0, scoped |-> FALSE, script |-> 0, mdm |-> "failed"]
    BY <2>2 DEF Idle
  <2>. HIDE DEF f
  <2>. QED BY <2>3 DEF Calls, Ids
<1>3. PICK n \in {g, f} : request' = [request EXCEPT ![r] = n]
  BY DEF Distribute, Prepare, Step
<1>4. /\ request' \in [Requests -> Calls] /\ request'[r] = n
      /\ \A q \in Requests \ {r} : request'[q] = request[q]
      /\ n.tripwire = t /\ ~n.scoped /\ n.mdm # "pending"
      /\ n.pc \in {"group", "done"}
  BY <1>0, <1>1, <1>2, <1>3
<1>5. /\ UNCHANGED <<scripts, policies, created, late, group, command, delayed,
                     halfway>>
      /\ disturbed \subseteq disturbed' /\ disturbed' \subseteq Tripwires
      /\ faults' \in 0 .. MaxFaults
      /\ (\E q \in Requests : request[q].tripwire = t) => t \in disturbed'
  BY <1>0 DEF Distribute, Fault, TypeOK, tenant
<1>6. TypeOK'
  BY <1>0, <1>4, <1>5 DEF TypeOK
<1>7. Store' /\ Lateness'
  BY <1>5 DEF IndInv, Store, Laid, Lateness, Formed, Set
<1>8. \A q \in Requests : Call(q)'
  <2>. TAKE q \in Requests
  <2>1. CASE q = r
    BY <2>1, <1>4 DEF Call, Shape, Looked, Written, Sought, Enforced
  <2>2. CASE q # r
    BY <2>2, <1>4, <1>5, Still DEF IndInv
  <2>. QED BY <2>1, <2>2
<1>9. Apart'
  <2>. SUFFICES ASSUME NEW p \in Requests, NEW q \in Requests, p # q,
                       request'[p].tripwire = request'[q].tripwire,
                       request'[q].tripwire # None
                PROVE  request'[q].tripwire \in disturbed'
    BY DEF Apart
  <2>1. CASE p = r BY <2>1, <1>4, <1>5
  <2>2. CASE q = r BY <2>2, <1>4, <1>5
  <2>3. CASE p # r /\ q # r
    BY <2>3, <1>4, <1>5 DEF IndInv, Apart
  <2>. QED BY <2>1, <2>2, <2>3
<1>10. OneEachIfUndisturbed'
  BY <1>5 DEF IndInv, OneEachIfUndisturbed, OneEach
<1>11. OrphanOnlyHalfway'
  <2>1. \A q \in Requests : request[q].scoped => request'[q] = request[q]
    BY <1>0, <1>4
  <2>. QED BY <2>1, <1>5 DEF IndInv, OrphanOnlyHalfway
<1>. QED BY <1>6, <1>7, <1>8, <1>9, <1>10, <1>11 DEF IndInv

LEMMA ReturnStep ==
  ASSUME IndInv, NEW r \in Requests, Return(r)
  PROVE  IndInv'
<1>1. /\ request' \in [Requests -> Calls] /\ request'[r] = Idle
      /\ \A q \in Requests \ {r} : request'[q] = request[q]
  BY IdleCall DEF IndInv, TypeOK, Return, Step
<1>2. ~request[r].scoped
  BY DEF IndInv, Call, Shape, Return
<1>3. Idle.pc = "idle" /\ Idle.tripwire = None /\ ~Idle.scoped /\ Idle.mdm = "none"
  BY DEF Idle
<1>4. Moved(r) /\ Call(r)'
  BY <1>1, <1>2, <1>3
     DEF Moved, Call, Shape, Looked, Written, Sought, Enforced
<1>. QED BY <1>2, <1>4, Quiet DEF Return, others, IndInv, TypeOK

\* A call that only goes on: what is left to show is what it knows then.
LEMMA GoesOn ==
  ASSUME IndInv, NEW r \in Requests, NEW h \in Calls, Step(r, h),
         UNCHANGED <<tenant, group, command, faults, disturbed, delayed, halfway>>,
         h.tripwire = request[r].tripwire, request[r].scoped => h.scoped,
         request'[r] = h => Call(r)'
  PROVE  IndInv'
<1>1. /\ request' \in [Requests -> Calls] /\ request'[r] = h
      /\ \A q \in Requests \ {r} : request'[q] = request[q]
  BY DEF IndInv, TypeOK, Step
<1>. QED BY <1>1, Quiet DEF Moved, IndInv, TypeOK

LEMMA ErrorStep ==
  ASSUME IndInv, NEW r \in Requests, Calling(r), Raise(r),
         UNCHANGED <<tenant, group, command, faults, disturbed, delayed>>
  PROVE  IndInv'
BY Raised, Quiet DEF IndInv, Call, TypeOK, Moved, Raise

LEMMA UnauthorizedStep ==
  ASSUME IndInv, NEW r \in Requests, Unauthorized(r)
  PROVE  IndInv'
<1>. DEFINE g == [request[r] EXCEPT !.attempt = 2]
<1>0. request[r] \in Calls /\ request[r].tripwire \in Tripwires /\ Call(r)
  BY OfTripwire DEF IndInv, Unauthorized, Calling
<1>1. CASE Step(r, g) /\ UNCHANGED halfway
  <2>1. /\ g \in Calls /\ g.pc = request[r].pc /\ g.tripwire = request[r].tripwire
        /\ g.page = request[r].page /\ g.existing = request[r].existing
        /\ g.scoped = request[r].scoped /\ g.script = request[r].script
        /\ g.mdm = request[r].mdm
    BY <1>0 DEF Calls
  <2>2. request'[r] = g => Call(r)'
    BY <1>0, <2>1 DEF Unauthorized, tenant, Call, Shape, Looked, Written, Sought,
       Enforced, Shaken, Laid, Set, InForce
  <2>. QED BY <1>1, <2>1, <2>2, GoesOn DEF Unauthorized
<1>2. CASE Raise(r)
  BY <1>2, ErrorStep DEF Unauthorized
<1>. QED BY <1>1, <1>2 DEF Unauthorized

LEMMA FindGroupStep ==
  ASSUME IndInv, NEW r \in Requests, FindGroup(r)
  PROVE  IndInv'
<1>. USE DeployAssumption
<1>. DEFINE g == [Goto(request[r], "scripts") EXCEPT !.page = 0, !.scoped = TRUE]
<1>0. request[r] \in Calls /\ request[r].tripwire \in Tripwires /\ Call(r)
      /\ request[r].mdm # "pending"
  BY OfTripwire DEF IndInv, FindGroup, At, Call, Shape
<1>1. /\ g \in Calls /\ g.pc = "scripts" /\ g.tripwire = request[r].tripwire
      /\ g.page = 0 /\ g.scoped /\ g.mdm = request[r].mdm
  <2>. DEFINE a == Goto(request[r], "scripts")
              b == [a EXCEPT !.page = 0]
  <2>1. g = [b EXCEPT !.scoped = TRUE]
    BY Zenon
  <2>2. /\ a \in Calls /\ a.pc = "scripts" /\ a.tripwire = request[r].tripwire
        /\ a.mdm = request[r].mdm
    BY <1>0, GotoCall
  <2>. HIDE DEF a
  <2>3. /\ b \in Calls /\ b.pc = "scripts" /\ b.tripwire = request[r].tripwire
        /\ b.page = 0 /\ b.mdm = request[r].mdm
    BY <2>2 DEF Calls
  <2>. HIDE DEF b, g
  <2>. QED BY <2>1, <2>3 DEF Calls
<1>2. request'[r] = g => Call(r)'
  <2>. SUFFICES ASSUME request'[r] = g PROVE Call(r)'
    OBVIOUS
  <2>1. \A i \in DOMAIN scripts : ~(i <= 0 * PageSize)
    BY DEF IndInv, TypeOK
  <2>2. Looked(r)'
    BY <1>1, <2>1 DEF Looked, FindGroup, others, tenant
  <2>. QED BY <1>0, <1>1, <2>2 DEF Call, Shape, Written, Sought, Enforced
<1>. QED BY <1>1, <1>2, GoesOn DEF FindGroup, others

LEMMA ListScriptsStep ==
  ASSUME IndInv, NEW r \in Requests, ListScripts(r)
  PROVE  IndInv'
<1>. USE DeployAssumption
<1>. DEFINE h == request[r]
            t == h.tripwire
            n == h.page
            page == Page(n)
            found == {i \in DOMAIN page : page[i].name = t}
            first == CHOOSE i \in found : \A j \in found : i <= j
            a == [Goto(h, "script") EXCEPT !.existing = page[first].id, !.page = 0]
            b == [Goto(h, "script") EXCEPT !.existing = 0, !.page = 0]
            c == [Goto(h, "scripts") EXCEPT !.page = @ + 1]
<1>0. /\ h \in Calls /\ t \in Tripwires /\ Call(r) /\ h.mdm # "pending"
      /\ h.scoped /\ n \in Nat /\ Store /\ scripts \in Seq(Scripts)
      /\ h.pc = "scripts"
  BY OfTripwire DEF IndInv, ListScripts, At, Call, Shape, Calls, TypeOK
<1>1. PICK k \in Nat : k = n * PageSize /\ (n + 1) * PageSize = k + PageSize
  <2>1. n * PageSize \in Nat /\ (n + 1) * PageSize = n * PageSize + PageSize
    BY <1>0
  <2>. QED BY <2>1
<1>. DEFINE l == Len(page)
<1>2. /\ l \in Nat /\ DOMAIN page = 1 .. l
      /\ \A i \in 1 .. l : k + i \in DOMAIN scripts /\ page[i] = scripts[k + i]
      /\ \A i \in DOMAIN scripts : i > k /\ i <= k + PageSize => i - k \in 1 .. l
      /\ l < PageSize => \A i \in DOMAIN scripts : i <= k + PageSize
  <2>1. page = PageAfter(k)
    BY <1>1 DEF Page, PageAfter
  <2>. QED BY <1>0, <2>1, PageIs
<1>. HIDE DEF page, l
<1>3. CASE found # {}
  <2>1. first \in found
    <3>1. \E i \in found : \A j \in found : i <= j
      <4>1. found \in SUBSET Nat BY <1>2
      <4>. QED BY <4>1, <1>3, Least
    <3>. QED BY <3>1
  <2>0. first \in 1 .. l /\ page[first].name = t
    BY <1>2, <2>1
  <2>. HIDE DEF first
  <2>2. /\ k + first \in DOMAIN scripts /\ page[first] = scripts[k + first]
        /\ scripts[k + first].name = t
    BY <1>2, <2>0
  <2>3. page[first].id # 0 /\ page[first].id \in Ids /\ Laid(page[first].id, t)
    <3>1. scripts[k + first] \in Scripts BY <1>0, <2>2
    <3>2. t \notin Foreign BY <1>0
    <3>. QED BY <2>2, <3>1, <3>2, <1>0 DEF Store, Laid, Scripts
  <2>4. /\ a \in Calls /\ a.pc = "script" /\ a.tripwire = t /\ a.scoped
        /\ a.mdm = h.mdm /\ a.existing = page[first].id
    <3>. DEFINE g == Goto(h, "script")
    <3>1. /\ g \in Calls /\ g.pc = "script" /\ g.tripwire = t /\ g.scoped
          /\ g.mdm = h.mdm
      BY <1>0, GotoCall
    <3>. DEFINE id == page[first].id
    <3>2. a = [g EXCEPT !.existing = id, !.page = 0]
      OBVIOUS
    <3>. HIDE DEF g, a, id
    <3>3. id \in Ids BY <2>3 DEF id
    <3>4. /\ a \in Calls /\ a.pc = g.pc /\ a.tripwire = g.tripwire
          /\ a.existing = id /\ a.scoped = g.scoped /\ a.mdm = g.mdm
      BY <3>1, <3>2, <3>3, FoundCall
    <3>. QED BY <3>1, <3>4 DEF id
  <2>5. Step(r, a) /\ UNCHANGED others
    BY <1>3 DEF ListScripts, first, page
  <2>. HIDE DEF a
  <2>6. request'[r] = a => Call(r)'
    BY <1>0, <2>3, <2>4, <2>5 DEF others, tenant, Call, Shape, Looked, Written,
       Sought, Enforced, Laid
  <2>. QED BY <1>0, <2>4, <2>5, <2>6, GoesOn DEF others
<1>4. CASE found = {} /\ l < PageSize
  <2>1. t \notin Shaken => \A i \in DOMAIN scripts : scripts[i].name # t
    <3>. SUFFICES ASSUME t \notin Shaken, NEW i \in DOMAIN scripts,
                         scripts[i].name = t
                  PROVE  FALSE
      OBVIOUS
    <3>0. i \in Nat BY <1>0
    <3>1. CASE i <= k
      BY <3>1, <1>0, <1>1 DEF Call, Looked
    <3>2. CASE i > k
      <4>1. i - k \in 1 .. l
        BY <3>2, <1>2, <1>4
      <4>2. page[i - k] = scripts[i]
        BY <3>0, <4>1, <1>2
      <4>. QED BY <4>1, <4>2, <1>2, <1>4
    <3>. QED BY <3>0, <3>1, <3>2
  <2>4. /\ b \in Calls /\ b.pc = "script" /\ b.tripwire = t /\ b.scoped
        /\ b.mdm = h.mdm /\ b.existing = 0
    <3>. DEFINE g == Goto(h, "script")
    <3>1. /\ g \in Calls /\ g.pc = "script" /\ g.tripwire = t /\ g.scoped
          /\ g.mdm = h.mdm
      BY <1>0, GotoCall
    <3>2. 0 \in Ids BY DeployAssumption DEF Ids
    <3>3. b = [g EXCEPT !.existing = 0, !.page = 0]
      OBVIOUS
    <3>. HIDE DEF g, b
    <3>4. /\ b \in Calls /\ b.pc = g.pc /\ b.tripwire = g.tripwire
          /\ b.existing = 0 /\ b.scoped = g.scoped /\ b.mdm = g.mdm
      BY <3>1, <3>2, <3>3, FoundCall
    <3>. QED BY <3>1, <3>4
  <2>5. Step(r, b) /\ UNCHANGED others
    BY <1>4 DEF ListScripts, l, page
  <2>6. request'[r] = b => Call(r)'
    BY <1>0, <2>1, <2>4, <2>5 DEF others, tenant, Call, Shape, Looked, Written,
       Sought, Enforced, Shaken
  <2>. QED BY <1>0, <2>4, <2>5, <2>6, GoesOn DEF others
<1>5. CASE found = {} /\ ~(l < PageSize)
  <2>1. t \notin Shaken =>
          \A i \in DOMAIN scripts : i <= (n + 1) * PageSize => scripts[i].name # t
    <3>. SUFFICES ASSUME t \notin Shaken, NEW i \in DOMAIN scripts,
                         i <= k + PageSize, scripts[i].name = t
                  PROVE  FALSE
      BY <1>1
    <3>0. i \in Nat BY <1>0
    <3>1. CASE i <= k
      BY <3>1, <1>0, <1>1 DEF Call, Looked
    <3>2. CASE i > k
      <4>1. i - k \in 1 .. l
        BY <3>2, <1>2
      <4>2. page[i - k] = scripts[i]
        BY <3>0, <4>1, <1>2
      <4>. QED BY <4>1, <4>2, <1>2, <1>5
    <3>. QED BY <3>0, <3>1, <3>2
  <2>4. /\ c \in Calls /\ c.pc = "scripts" /\ c.tripwire = t /\ c.scoped
        /\ c.mdm = h.mdm /\ c.page = n + 1
    BY <1>0, GotoCall DEF Calls
  <2>5. Step(r, c) /\ UNCHANGED others
    BY <1>5 DEF ListScripts, l, page
  <2>6. request'[r] = c => Call(r)'
    BY <1>0, <2>1, <2>4, <2>5 DEF others, tenant, Call, Shape, Looked, Written,
       Sought, Enforced, Shaken
  <2>. QED BY <1>0, <2>4, <2>5, <2>6, GoesOn DEF others
<1>. QED BY <1>3, <1>4, <1>5

LEMMA WriteScriptStep ==
  ASSUME IndInv, NEW r \in Requests, WriteScript(r)
  PROVE  IndInv'
<1>. DEFINE h == request[r]
            t == h.tripwire
            w == [kind |-> "script", id |-> h.existing, name |-> t,
                  body |-> command, script |-> 0]
            next == [Goto(h, "policies") EXCEPT !.existing = 0, !.script = NewId(w)]
<1>0. /\ h \in Calls /\ t \in Tripwires /\ Call(r) /\ h.mdm # "pending"
      /\ h.scoped /\ h.pc = "script" /\ h.existing \in Ids /\ command \in Commands
  BY OfTripwire DEF IndInv, WriteScript, At, Call, Shape, Calls, TypeOK
<1>1. Write(r, w, next) /\ UNCHANGED <<group, command, disturbed>>
  BY DEF WriteScript, BuildInstall
<1>2. /\ w.kind = "script" /\ w.id = h.existing /\ w.name = t /\ w.body = command
      /\ w \in Writes
  BY <1>0, DeployAssumption DEF Writes, Ids
<1>. HIDE DEF w
<1>3. Formed(w) /\ Current(w)
  BY <1>0, <1>2 DEF Formed, Current, Call, Looked
<1>4. NewId(w) \in Ids =>
        /\ next \in Calls /\ next.pc = "policies" /\ next.tripwire = t
        /\ next.script = NewId(w) /\ next.scoped /\ next.mdm = h.mdm
  <2>. DEFINE g == Goto(h, "policies")
  <2>1. /\ g \in Calls /\ g.pc = "policies" /\ g.tripwire = t /\ g.scoped
        /\ g.mdm = h.mdm
    BY <1>0, GotoCall
  <2>2. 0 \in Ids BY DeployAssumption DEF Ids
  <2>3. next = WithScript(g, 0, NewId(w))
    BY DEF WithScript
  <2>. HIDE DEF g, next
  <2>. QED BY <2>1, <2>2, <2>3, ScriptCall
<1>. HIDE DEF next
<1>5. w.name \notin Shaken /\ w.id = 0 =>
        \A i \in DOMAIN scripts : scripts[i].name # w.name
  BY <1>0, <1>2 DEF Call, Looked
<1>6. ASSUME NewId(w) \in Ids \ {0}, Grown(w), request'[r] = next, UNCHANGED delayed
      PROVE  Call(r)'
  <2>1. \E i \in DOMAIN scripts' : /\ scripts'[i].id = NewId(w)
                                   /\ scripts'[i].name = t
                                   /\ scripts'[i].body = command'
    BY <1>1, <1>2, <1>6 DEF Grown
  <2>. QED BY <1>0, <1>4, <1>6, <2>1
           DEF Call, Shape, Looked, Written, Sought, Enforced
<1>7. Calling(r)
  BY <1>0 DEF Calling
<1>. QED BY <1>0, <1>1, <1>2, <1>3, <1>4, <1>5, <1>6, <1>7, Wrote

LEMMA FindPolicyStep ==
  ASSUME IndInv, NEW r \in Requests, FindPolicy(r)
  PROVE  IndInv'
<1>. DEFINE h == request[r]
            t == h.tripwire
            named == {p \in policies : p.name = t}
            a(id) == [Goto(h, "policy") EXCEPT !.existing = id]
<1>0. /\ h \in Calls /\ t \in Tripwires /\ Call(r) /\ h.mdm # "pending"
      /\ h.scoped /\ h.pc = "policies" /\ policies \subseteq Policies
  BY OfTripwire DEF IndInv, FindPolicy, At, Call, Shape, TypeOK
<1>1. UNCHANGED others
  BY DEF FindPolicy
<1>2. \A id \in Ids :
        /\ a(id) \in Calls /\ a(id).pc = "policy" /\ a(id).tripwire = t
        /\ a(id).existing = id /\ a(id).script = h.script
        /\ a(id).scoped /\ a(id).mdm = h.mdm
  <2>. DEFINE g == Goto(h, "policy")
  <2>1. /\ g \in Calls /\ g.pc = "policy" /\ g.tripwire = t /\ g.scoped
        /\ g.script = h.script /\ g.mdm = h.mdm
    BY <1>0, GotoCall
  <2>2. \A id : a(id) = [g EXCEPT !.existing = id]
    OBVIOUS
  <2>. HIDE DEF g, a
  <2>. QED BY <2>1, <2>2 DEF Calls
<1>3. PICK id \in Ids : /\ Step(r, a(id))
                        /\ \/ id # 0 /\ Set(id, t)
                           \/ id = 0 /\ named = {}
  <2>1. CASE \E p \in named : Step(r, a(p.id))
    <3>1. PICK p \in named : Step(r, a(p.id))
      BY <2>1
    <3>2. p.id \in Ids /\ p.id # 0 /\ Set(p.id, t)
      BY <1>0 DEF Policies, IndInv, Store, Set
    <3>. QED BY <3>1, <3>2
  <2>2. CASE named = {} /\ Step(r, a(0))
    BY <2>2, DeployAssumption DEF Ids
  <2>. QED BY <2>1, <2>2 DEF FindPolicy
<1>. HIDE DEF a
<1>4. request'[r] = a(id) => Call(r)'
  BY <1>0, <1>1, <1>2, <1>3 DEF others, tenant, Call, Shape, Looked, Written,
     Sought, Enforced, Set
<1>. QED BY <1>0, <1>1, <1>2, <1>3, <1>4, GoesOn DEF others

LEMMA WritePolicyStep ==
  ASSUME IndInv, NEW r \in Requests, WritePolicy(r)
  PROVE  IndInv'
<1>. DEFINE h == request[r]
            t == h.tripwire
            w == [kind |-> "policy", id |-> h.existing, name |-> t,
                  body |-> command, script |-> h.script]
            next == [Goto(h, "count") EXCEPT !.existing = 0, !.script = 0]
<1>0. /\ h \in Calls /\ t \in Tripwires /\ Call(r) /\ h.mdm # "pending"
      /\ h.scoped /\ h.pc = "policy" /\ h.existing \in Ids /\ h.script \in Ids
      /\ command \in Commands
  BY OfTripwire DEF IndInv, WritePolicy, At, Call, Shape, Calls, TypeOK
<1>1. Write(r, w, next) /\ UNCHANGED <<group, command, disturbed>>
  BY DEF WritePolicy
<1>2. /\ w.kind = "policy" /\ w.id = h.existing /\ w.name = t /\ w.body = command
      /\ w.script = h.script /\ w \in Writes
  BY <1>0 DEF Writes
<1>. HIDE DEF w
<1>3. PICK i \in DOMAIN scripts : /\ scripts[i].id = h.script /\ scripts[i].name = t
                                  /\ t \notin delayed => scripts[i].body = command
  BY <1>0 DEF Call, Written
<1>4. Formed(w)
  BY <1>0, <1>2, <1>3 DEF Formed, Call, Written, Sought, Laid
<1>5. /\ next \in Calls /\ next.pc = "count" /\ next.tripwire = t
      /\ next.scoped /\ next.mdm = h.mdm
  <2>. DEFINE g == Goto(h, "count")
  <2>1. /\ g \in Calls /\ g.pc = "count" /\ g.tripwire = t /\ g.scoped
        /\ g.mdm = h.mdm
    BY <1>0, GotoCall
  <2>2. 0 \in Ids BY DeployAssumption DEF Ids
  <2>3. next = WithScript(g, 0, 0)
    BY DEF WithScript
  <2>. HIDE DEF g, next
  <2>. QED BY <2>1, <2>2, <2>3, ScriptCall
<1>. HIDE DEF next
<1>6. w.name \notin Shaken /\ w.id = 0 => \A p \in policies : p.name # w.name
  BY <1>0, <1>2 DEF Call, Sought
<1>7. ASSUME Grown(w), request'[r] = next, UNCHANGED delayed
      PROVE  Call(r)'
  <2>1. t \notin delayed => InForce(t)'
    <3>1. /\ i \in DOMAIN scripts' /\ scripts'[i].id = h.script
          /\ scripts'[i].name = t
          /\ t \notin delayed => scripts'[i].body = command
      BY <1>2, <1>3, <1>7 DEF Grown
    <3>2. \E q \in policies' : q.name = t /\ q.script = h.script
      BY <1>2, <1>7 DEF Grown
    <3>3. command' = command
      BY <1>1
    <3>4. ASSUME t \notin delayed PROVE InForce(t)'
      <4>1. PICK q \in policies' : q.name = t /\ q.script = h.script
        BY <3>2
      <4>2. q.script = scripts'[i].id /\ scripts'[i].body = command'
        BY <3>1, <3>3, <3>4, <4>1
      <4>3. request'[r].tripwire = t
        BY <1>5, <1>7
      <4>. QED BY <3>1, <4>1, <4>2, <4>3 DEF InForce
    <3>. QED BY <3>4
  <2>. QED BY <1>0, <1>5, <1>7, <2>1
           DEF Call, Shape, Looked, Written, Sought, Enforced
<1>8. Calling(r)
  BY <1>0 DEF Calling
<1>9. t \in delayed \/ Current(w)
  BY <1>2, <1>3 DEF Current
<1>. QED BY <1>0, <1>1, <1>2, <1>4, <1>5, <1>6, <1>7, <1>8, <1>9, Wrote

LEMMA CountMembersStep ==
  ASSUME IndInv, NEW r \in Requests, CountMembers(r)
  PROVE  IndInv'
<1>. DEFINE h == request[r]
            t == h.tripwire
            g == [pc |-> "done", tripwire |-> t, attempt |-> 1, page |-> 0,
                  existing |-> 0, scoped |-> FALSE, script |-> 0,
                  mdm |-> "pending"]
<1>0. /\ h \in Calls /\ t \in Tripwires /\ Call(r) /\ h.pc = "count"
      /\ request \in [Requests -> Calls]
  BY OfTripwire DEF IndInv, CountMembers, At, TypeOK
<1>1. Step(r, g) /\ UNCHANGED others
  <2>1. Finish(request[r], "pending") = g
    <3>1. Finish(request[r], "pending") =
            [[[Idle EXCEPT !.pc = "done"] EXCEPT !.tripwire = t] EXCEPT !.mdm = "pending"]
      BY Zenon DEF Finish, Idle
    <3>. QED BY <3>1 DEF Idle
  <2>. QED BY <2>1 DEF CountMembers
<1>2. g \in Calls
  BY <1>0, DeployAssumption DEF Calls, Ids
<1>3. /\ request' \in [Requests -> Calls] /\ request'[r] = g
      /\ \A q \in Requests \ {r} : request'[q] = request[q]
  BY <1>0, <1>1, <1>2 DEF Step
<1>4. Call(r)'
  BY <1>0, <1>1, <1>3 DEF Call, Shape, Looked, Written, Sought, Enforced, InForce,
     others, tenant
<1>5. /\ request[r].tripwire = t /\ request'[r].tripwire = t
      /\ UNCHANGED <<scripts, policies, created, late, group, command, faults,
                     disturbed, delayed, halfway>>
  BY <1>1, <1>3 DEF others, tenant
<1>6. ASSUME NEW i \in DOMAIN scripts, scripts[i].name = t
      PROVE  Cared(i)'
  <2>1. CASE t \in Shaken
    BY <1>5, <1>6, <2>1 DEF Cared, Shaken
  <2>2. CASE t \notin Shaken
    <3>1. PICK p \in policies, k \in DOMAIN scripts :
            p.script = scripts[k].id /\ scripts[k].name = t
      BY <1>0, <2>2 DEF Call, Enforced, InForce, Shaken
    <3>2. k = i
      BY <1>0, <1>6, <2>2, <3>1 DEF IndInv, OneEachIfUndisturbed, OneEach, Shaken
    <3>. QED BY <1>5, <3>1, <3>2 DEF Cared
  <2>. QED BY <2>1, <2>2
<1>7. ~g.scoped /\ g.tripwire = t
  OBVIOUS
<1>. HIDE DEF g
<1>8. Moved(r)
  BY <1>3, <1>5 DEF Moved
<1>. QED BY <1>0, <1>3, <1>4, <1>5, <1>6, <1>7, <1>8, Quiet
         DEF others, tenant, IndInv, TypeOK

-----------------------------------------------------------------------------
\* The steps around the calls.

LEMMA LandStep ==
  ASSUME IndInv, NEW w \in late, Land(w)
  PROVE  IndInv'
<1>0. /\ TypeOK /\ Store /\ Formed(w) /\ w.name \in delayed
      /\ late' = late \ {w}
      /\ UNCHANGED <<group, command, request, faults, disturbed, delayed, halfway>>
  BY DEF IndInv, Lateness, Land
<1>1. CASE Accepted(w) /\ Apply(w)
  <2>1. /\ scripts' \in Seq(Scripts) /\ policies' \subseteq Policies
        /\ created' \in Ids /\ NewId(w) # 0 /\ Store' /\ Grown(w)
    BY <1>0, <1>1, Applied
  <2>2. TypeOK'
    BY <1>0, <2>1 DEF TypeOK
  <2>3. Lateness'
    <3>1. \A id, n : Laid(id, n) => Laid(id, n)'
      BY <2>1 DEF Grown, Laid
    <3>2. \A id, n : Set(id, n) => Set(id, n)'
      BY <2>1 DEF Grown, Set
    <3>. QED BY <1>0, <3>1, <3>2 DEF IndInv, Lateness, Formed
  <2>4. \A q \in Requests : Call(q)'
    BY <1>0, <2>1, Undisturbed DEF IndInv, Shaken
  <2>5. Apart'
    BY <1>0 DEF IndInv, Apart
  <2>6. OneEachIfUndisturbed'
    BY <1>0, <2>1, NoSecond DEF IndInv, Shaken
  <2>7. OrphanOnlyHalfway'
    BY <1>0, <2>1, CareKept DEF IndInv, Shaken
  <2>. QED BY <2>1, <2>2, <2>3, <2>4, <2>5, <2>6, <2>7 DEF IndInv
<1>2. CASE UNCHANGED <<scripts, policies, created>>
  <2>1. TypeOK' /\ Store' /\ Lateness' /\ Apart'
    BY <1>0, <1>2
       DEF IndInv, TypeOK, Store, Laid, Set, Lateness, Formed, Apart
  <2>2. \A q \in Requests : Call(q)'
    BY <1>0, <1>2, Still DEF IndInv
  <2>3. OneEachIfUndisturbed' /\ OrphanOnlyHalfway'
    BY <1>0, <1>2 DEF IndInv, OneEachIfUndisturbed, OneEach, OrphanOnlyHalfway
  <2>. QED BY <2>1, <2>2, <2>3 DEF IndInv
<1>. QED BY <1>1, <1>2 DEF Land

LEMMA ChangeGroupStep ==
  ASSUME IndInv, ChangeGroup
  PROVE  IndInv'
<1>1. /\ UNCHANGED <<scripts, policies, created, late, command, request,
                     disturbed, delayed, halfway>>
      /\ group' = ~group /\ faults' \in 0 .. MaxFaults
  <2>1. faults' \in 0 .. MaxFaults
    BY DeployAssumption DEF IndInv, TypeOK, ChangeGroup, Fault
  <2>2. group' = ~group
    BY Zenon DEF ChangeGroup
  <2>. QED BY <2>1, <2>2 DEF ChangeGroup, tenant
<1>2. TypeOK'
  <2>1. group' \in BOOLEAN BY <1>1, Zenon
  <2>. QED BY <1>1, <2>1 DEF IndInv, TypeOK
<1>3. Store' /\ Lateness' /\ Apart'
  BY <1>1 DEF IndInv, Store, Laid, Set, Lateness, Formed, Apart
<1>4. \A q \in Requests : Call(q)'
  BY <1>1, Still DEF IndInv
<1>5. OneEachIfUndisturbed' /\ OrphanOnlyHalfway'
  BY <1>1 DEF IndInv, OneEachIfUndisturbed, OneEach, OrphanOnlyHalfway
<1>. QED BY <1>2, <1>3, <1>4, <1>5 DEF IndInv

\* Where a script is once the one at d has gone.
LEMMA Shift ==
  ASSUME scripts \in Seq(Scripts), NEW d \in DOMAIN scripts,
         scripts' = SubSeq(scripts, 1, d - 1)
                      \o SubSeq(scripts, d + 1, Len(scripts))
  PROVE  /\ scripts' \in Seq(Scripts) /\ Len(scripts') = Len(scripts) - 1
         /\ DOMAIN scripts' = 1 .. (Len(scripts) - 1)
         /\ \A i \in DOMAIN scripts' :
              scripts'[i] = IF i < d THEN scripts[i] ELSE scripts[i + 1]
<1>. DEFINE a == SubSeq(scripts, 1, d - 1)
            b == SubSeq(scripts, d + 1, Len(scripts))
            l == Len(scripts)
<1>1. /\ d \in Nat /\ l \in Nat /\ 1 <= d /\ d <= l
      /\ \A i \in 1 .. l : scripts[i] \in Scripts
  OBVIOUS
<1>. HIDE DEF l
<1>2. /\ a \in Seq(Scripts) /\ Len(a) = d - 1
      /\ \A i \in 1 .. d - 1 : a[i] = scripts[i]
  <2>1. /\ 1 \in Int /\ d - 1 \in Int
        /\ \A i \in 1 .. d - 1 : scripts[i] \in Scripts
    BY <1>1
  <2>2. /\ a \in Seq(Scripts)
        /\ Len(a) = IF 1 <= d - 1 THEN d - 1 - 1 + 1 ELSE 0
        /\ \A i \in 1 .. d - 1 - 1 + 1 : a[i] = scripts[1 + i - 1]
    BY <2>1, SubSeqProperties
  <2>. HIDE DEF a
  <2>3. \A i \in 1 .. d - 1 : i \in 1 .. d - 1 - 1 + 1 /\ 1 + i - 1 = i
    BY <1>1
  <2>. QED BY <1>1, <2>2, <2>3
<1>3. /\ b \in Seq(Scripts) /\ Len(b) = l - d
      /\ \A i \in 1 .. l - d : b[i] = scripts[d + i]
  <2>1. /\ d + 1 \in Int /\ l \in Int
        /\ \A i \in d + 1 .. l : scripts[i] \in Scripts
    BY <1>1
  <2>2. /\ b \in Seq(Scripts)
        /\ Len(b) = IF d + 1 <= l THEN l - (d + 1) + 1 ELSE 0
        /\ \A i \in 1 .. l - (d + 1) + 1 : b[i] = scripts[d + 1 + i - 1]
    BY <2>1, SubSeqProperties DEF l
  <2>. HIDE DEF b
  <2>3. \A i \in 1 .. l - d : i \in 1 .. l - (d + 1) + 1 /\ d + 1 + i - 1 = d + i
    <3>1. l - (d + 1) + 1 = l - d
      BY <1>1
    <3>2. \A i \in 1 .. l - d : d + 1 + i - 1 = d + i
      BY <1>1
    <3>. QED BY <3>1, <3>2
  <2>4. Len(b) = l - d
    BY <1>1, <2>2
  <2>. QED BY <2>2, <2>3, <2>4
<1>4. scripts' = a \o b
  BY DEF l
<1>. HIDE DEF a, b
<1>5. /\ scripts' \in Seq(Scripts) /\ Len(scripts') = Len(a) + Len(b)
      /\ \A i \in 1 .. Len(a) + Len(b) :
           scripts'[i] = IF i <= Len(a) THEN a[i] ELSE b[i - Len(a)]
  <2>1. a \in Seq(Scripts) /\ b \in Seq(Scripts)
    BY <1>2, <1>3
  <2>2. /\ a \o b \in Seq(Scripts) /\ Len(a \o b) = Len(a) + Len(b)
        /\ \A i \in 1 .. Len(a) + Len(b) :
             (a \o b)[i] = IF i <= Len(a) THEN a[i] ELSE b[i - Len(a)]
    BY <2>1, ConcatProperties, Zenon
  <2>. QED BY <1>4, <2>2, Zenon
<1>6. Len(scripts') = l - 1 /\ DOMAIN scripts' = 1 .. (l - 1)
  BY <1>1, <1>2, <1>3, <1>5
<1>7. ASSUME NEW i \in 1 .. (l - 1)
      PROVE  scripts'[i] = IF i < d THEN scripts[i] ELSE scripts[i + 1]
  <2>1. CASE i < d
    <3>1. i \in 1 .. d - 1 /\ i <= Len(a) /\ i \in 1 .. Len(a) + Len(b)
      BY <1>1, <1>2, <1>3, <2>1
    <3>. QED BY <2>1, <3>1, <1>2, <1>5
  <2>2. CASE ~(i < d)
    <3>1. /\ i - Len(a) \in 1 .. l - d /\ ~(i <= Len(a))
          /\ i \in 1 .. Len(a) + Len(b) /\ d + (i - Len(a)) = i + 1
      <4>1. /\ i \in Nat /\ d <= i /\ i <= l - 1
        BY <1>1, <2>2
      <4>2. Len(a) = d - 1 /\ Len(b) = l - d
        BY <1>2, <1>3
      <4>3. /\ i - Len(a) \in 1 .. l - d /\ ~(i <= Len(a))
            /\ d + (i - Len(a)) = i + 1
        <5>1. d \in Nat /\ l \in Nat /\ 1 <= d /\ d <= l
          BY <1>1
        <5>2. i - (d - 1) \in 1 .. l - d
          BY <4>1, <5>1
        <5>3. ~(i <= d - 1)
          BY <4>1, <5>1
        <5>4. d + (i - (d - 1)) = i + 1
          BY <4>1, <5>1
        <5>. QED BY <4>2, <5>2, <5>3, <5>4, Zenon
      <4>4. i \in 1 .. Len(a) + Len(b)
        BY <1>1, <4>1, <4>2
      <4>. QED BY <4>3, <4>4
    <3>. QED BY <2>2, <3>1, <1>3, <1>5
  <2>. QED BY <2>1, <2>2
<1>. QED BY <1>5, <1>6, <1>7 DEF l

LEMMA DeleteForeignStep ==
  ASSUME IndInv, DeleteForeign
  PROVE  IndInv'
<1>0. /\ TypeOK /\ scripts \in Seq(Scripts) /\ Store
      /\ UNCHANGED <<policies, created, late, group, command, request, delayed,
                     halfway>>
      /\ faults' \in 0 .. MaxFaults
      /\ disturbed \subseteq disturbed'
      /\ \A r \in Requests : request[r].pc = "scripts" /\ request[r].page > 0
                               => request[r].tripwire \in disturbed'
  <2>1. faults' \in 0 .. MaxFaults
    BY DeployAssumption DEF IndInv, DeleteForeign, TypeOK, Fault
  <2>. QED BY <2>1 DEF IndInv, DeleteForeign, TypeOK
<1>1. PICK d \in DOMAIN scripts :
        /\ scripts[d].name \in Foreign
        /\ scripts' = SubSeq(scripts, 1, d - 1)
                        \o SubSeq(scripts, d + 1, Len(scripts))
  BY DEF DeleteForeign
<1>2. /\ scripts' \in Seq(Scripts) /\ DOMAIN scripts = 1 .. Len(scripts)
      /\ DOMAIN scripts' = 1 .. (Len(scripts) - 1) /\ Len(scripts) \in Nat
      /\ d \in Nat /\ 1 <= d /\ d <= Len(scripts)
      /\ \A i \in DOMAIN scripts' :
           scripts'[i] = IF i < d THEN scripts[i] ELSE scripts[i + 1]
  <2>1. /\ scripts' \in Seq(Scripts)
        /\ DOMAIN scripts' = 1 .. (Len(scripts) - 1)
        /\ \A i \in DOMAIN scripts' :
             scripts'[i] = IF i < d THEN scripts[i] ELSE scripts[i + 1]
    BY <1>0, <1>1, Shift, Zenon
  <2>2. /\ DOMAIN scripts = 1 .. Len(scripts) /\ Len(scripts) \in Nat
        /\ d \in Nat /\ 1 <= d /\ d <= Len(scripts)
    BY <1>0
  <2>. QED BY <2>1, <2>2
<1>. DEFINE old(i) == IF i < d THEN i ELSE i + 1
<1>3. /\ \A i \in DOMAIN scripts' :
           old(i) \in DOMAIN scripts /\ scripts'[i] = scripts[old(i)]
      /\ \A i, j \in DOMAIN scripts' : old(i) = old(j) => i = j
  BY <1>2
<1>4. \A j \in DOMAIN scripts :
        j # d => \E i \in DOMAIN scripts' : scripts'[i] = scripts[j]
  <2>. SUFFICES ASSUME NEW j \in DOMAIN scripts, j # d
                PROVE  \E i \in DOMAIN scripts' : scripts'[i] = scripts[j]
    OBVIOUS
  <2>1. j \in Nat /\ 1 <= j /\ j <= Len(scripts)
    BY <1>2
  <2>2. CASE j < d
    <3>1. j \in DOMAIN scripts'
      BY <1>2, <2>1, <2>2
    <3>2. scripts'[j] = scripts[j]
      BY <3>1, <1>2, <2>2
    <3>. QED BY <3>1, <3>2
  <2>3. CASE j > d
    <3>1. j - 1 \in DOMAIN scripts' /\ ~(j - 1 < d) /\ (j - 1) + 1 = j
      BY <1>2, <2>1, <2>3
    <3>2. scripts'[j - 1] = scripts[j]
      BY <3>1, <1>2
    <3>. QED BY <3>1, <3>2
  <2>. QED BY <2>1, <2>2, <2>3, <1>2
<1>. HIDE DEF old
<1>5. /\ \A id, t : id # 0 /\ Laid(id, t) => Laid(id, t)'
      /\ \A id, t : Set(id, t) => Set(id, t)'
      /\ \A t : InForce(t) => InForce(t)' \/ t \in Foreign
  <2>1. scripts[d].id = 0
    BY <1>0, <1>1 DEF Store
  <2>2. \A id, t : id # 0 /\ Laid(id, t) => Laid(id, t)'
    BY <1>4, <2>1 DEF Laid
  <2>3. \A id, t : Set(id, t) => Set(id, t)'
    BY <1>0 DEF Set
  <2>4. \A t : InForce(t) => InForce(t)' \/ t \in Foreign
    BY <1>0, <1>1, <1>4 DEF InForce
  <2>. QED BY <2>2, <2>3, <2>4
<1>6. TypeOK'
  <2>1. disturbed' \subseteq Tripwires
    <3>1. \A r \in Requests : request[r].pc = "scripts" => request[r].tripwire \in Tripwires
      BY DEF IndInv, Call, Shape
    <3>. QED BY <3>1, <1>0 DEF DeleteForeign, TypeOK
  <2>. QED BY <1>0, <1>2, <2>1 DEF TypeOK
<1>7. Store'
  <2>1. \A p \in policies : p.script # 0 /\ Laid(p.script, p.name) => Laid(p.script, p.name)'
    BY <1>5
  <2>2. \A p, q \in policies' : p.id = q.id => p = q
    BY <1>0 DEF Store
  <2>3. \A p \in policies' :
          p.id # 0 /\ p.id <= created' /\ p.script # 0 /\ Laid(p.script, p.name)'
    BY <1>0, <2>1 DEF Store
  <2>4. \A i \in DOMAIN scripts' :
          /\ scripts'[i].id <= created'
          /\ scripts'[i].id = 0 <=> scripts'[i].name \in Foreign
    BY <1>0, <1>3 DEF Store
  <2>5. \A i, j \in DOMAIN scripts' :
          scripts'[i].id = scripts'[j].id /\ scripts'[i].id # 0 => i = j
    BY <1>0, <1>3 DEF Store
  <2>. QED BY <2>2, <2>3, <2>4, <2>5 DEF Store
<1>8. Lateness'
  BY <1>0, <1>5 DEF IndInv, Lateness, Formed
<1>9. ASSUME NEW r \in Requests PROVE Call(r)'
  <2>. DEFINE h == request[r]
              t == h.tripwire
  <2>0. /\ Call(r) /\ h.page \in Nat /\ request'[r] = h
        /\ h.pc # "idle" => t \notin Foreign /\ t \in Tripwires
    BY <1>0, DeployAssumption DEF IndInv, TypeOK, Calls, Call, Shape
  <2>1. Shape(r)'
    BY <2>0 DEF Call, Shape
  <2>2. Looked(r)'
    <3>1. ASSUME h.pc = "scripts", t \notin Shaken'
          PROVE  \A i \in DOMAIN scripts' : ~(i <= h.page * PageSize)
      <4>1. h.page = 0
        BY <3>1, <1>0, <2>0 DEF Shaken
      <4>2. h.page * PageSize = 0
        BY <4>1, DeployAssumption
      <4>. QED BY <4>2, <1>2
    <3>2. Shaken \subseteq Shaken'
      BY <1>0 DEF Shaken
    <3>3. ASSUME h.pc = "script", h.existing = 0, t \notin Shaken'
          PROVE  \A i \in DOMAIN scripts' : scripts'[i].name # t
      BY <1>3, <2>0, <3>2, <3>3 DEF Call, Looked
    <3>. QED BY <1>5, <2>0, <3>1, <3>3 DEF Call, Looked
  <2>3. Written(r)'
    <3>. SUFFICES ASSUME h.pc \in {"policies", "policy"}
                  PROVE  /\ h.script # 0
                         /\ \E i \in DOMAIN scripts' :
                              /\ scripts'[i].id = h.script /\ scripts'[i].name = t
                              /\ t \notin delayed' => scripts'[i].body = command'
      BY <2>0 DEF Written
    <3>1. PICK j \in DOMAIN scripts :
            /\ scripts[j].id = h.script /\ scripts[j].name = t
            /\ t \notin delayed => scripts[j].body = command
      BY <2>0 DEF Call, Written
    <3>2. j # d
      BY <1>1, <2>0, <3>1
    <3>3. \E i \in DOMAIN scripts' : scripts'[i] = scripts[j]
      BY <1>4, <3>2
    <3>. QED BY <1>0, <2>0, <3>1, <3>3 DEF Call, Written
  <2>4. Sought(r)'
    BY <1>0, <1>5, <2>0 DEF Call, Sought, Shaken
  <2>5. Enforced(r)'
    BY <1>0, <1>5, <2>0 DEF Call, Shape, Enforced
  <2>. QED BY <2>1, <2>2, <2>3, <2>4, <2>5 DEF Call
<1>10. Apart'
  BY <1>0 DEF IndInv, Apart
<1>11. OneEachIfUndisturbed'
  <2>. SUFFICES ASSUME NEW t \in Tripwires, t \notin Shaken'
                PROVE  OneEach(t)'
    BY DEF OneEachIfUndisturbed, Shaken
  <2>1. OneEach(t)
    BY <1>0 DEF IndInv, OneEachIfUndisturbed, Shaken
  <2>. QED BY <1>0, <1>3, <2>1 DEF OneEach
<1>12. OrphanOnlyHalfway'
  <2>. SUFFICES ASSUME NEW i \in DOMAIN scripts' PROVE Cared(i)'
    BY DEF OrphanOnlyHalfway, Cared
  <2>1. Cared(old(i))
    BY <1>3 DEF IndInv, OrphanOnlyHalfway, Cared
  <2>. QED BY <1>0, <1>3, <2>1 DEF Cared
<1>. QED BY <1>6, <1>7, <1>8, <1>9, <1>10, <1>11, <1>12 DEF IndInv

LEMMA RestartStep ==
  ASSUME IndInv, Restart
  PROVE  IndInv'
<1>0. /\ UNCHANGED <<scripts, policies, created, late, group, disturbed, delayed>>
      /\ command' \in Commands /\ request' = [r \in Requests |-> Idle]
      /\ halfway \subseteq halfway'
      /\ faults' \in 0 .. MaxFaults
      /\ \A r \in Requests : request[r].scoped => request[r].tripwire \in halfway'
  <2>1. faults' \in 0 .. MaxFaults
    BY DeployAssumption DEF IndInv, TypeOK, Restart, Fault
  <2>. QED BY <2>1 DEF IndInv, TypeOK, Restart, tenant
<1>1. Idle.pc = "idle" /\ Idle.tripwire = None /\ ~Idle.scoped /\ Idle.mdm = "none"
  BY DEF Idle
<1>2. TypeOK'
  <2>1. halfway' \subseteq Tripwires
    BY DEF IndInv, TypeOK, Call, Shape, Restart
  <2>2. request' \in [Requests -> Calls]
    BY <1>0, IdleCall
  <2>. QED BY <1>0, <2>1, <2>2 DEF IndInv, TypeOK
<1>3. Store' /\ Lateness'
  BY <1>0 DEF IndInv, Store, Laid, Set, Lateness, Formed
<1>4. \A r \in Requests : Call(r)'
  BY <1>0, <1>1 DEF Call, Shape, Looked, Written, Sought, Enforced
<1>5. Apart'
  BY <1>0, <1>1 DEF Apart
<1>6. OneEachIfUndisturbed' /\ OrphanOnlyHalfway'
  BY <1>0 DEF IndInv, OneEachIfUndisturbed, OneEach, OrphanOnlyHalfway
<1>. QED BY <1>2, <1>3, <1>4, <1>5, <1>6 DEF IndInv

-----------------------------------------------------------------------------
\* The theorems.

LEMMA IndInvInit == Init => IndInv
<1>. SUFFICES ASSUME Init PROVE IndInv
  OBVIOUS
<1>. USE DeployAssumption
<1>1. /\ policies = {} /\ created = 0 /\ late = {} /\ faults = 0
      /\ group \in BOOLEAN /\ command \in Commands
      /\ request = [r \in Requests |-> Idle]
      /\ disturbed = {} /\ delayed = {} /\ halfway = {}
  BY DEF Init
<1>2. Idle.pc = "idle" /\ Idle.tripwire = None /\ ~Idle.scoped /\ Idle.mdm = "none"
  BY DEF Idle
<1>3. Cardinality(Foreign) \in Nat
  BY FS_CardinalityType
<1>4. /\ scripts \in [1 .. Cardinality(Foreign) -> Scripts]
      /\ \A i \in DOMAIN scripts : scripts[i].id = 0 /\ scripts[i].name \in Foreign
  BY DEF Init
<1>5. scripts \in Seq(Scripts)
  BY <1>3, <1>4
<1>6. TypeOK
  BY <1>1, <1>5, IdleCall DEF TypeOK, Ids
<1>7. Store /\ Lateness
  BY <1>1, <1>4 DEF Store, Lateness
<1>8. \A r \in Requests : Call(r)
  BY <1>1, <1>2 DEF Call, Shape, Looked, Written, Sought, Enforced
<1>9. Apart
  BY <1>1, <1>2 DEF Apart
<1>10. OneEachIfUndisturbed
  BY <1>1, <1>4 DEF OneEachIfUndisturbed, OneEach
<1>11. OrphanOnlyHalfway
  BY <1>4 DEF OrphanOnlyHalfway
<1>. QED BY <1>6, <1>7, <1>8, <1>9, <1>10, <1>11 DEF IndInv

LEMMA IndInvStep == IndInv /\ [Next]_vars => IndInv'
<1>. SUFFICES ASSUME IndInv, [Next]_vars PROVE IndInv'
  OBVIOUS
<1>1. ASSUME NEW r \in Requests, Handler(r) PROVE IndInv'
  <2>1. CASE Return(r) BY <2>1, ReturnStep
  <2>2. CASE Unauthorized(r) BY <2>2, UnauthorizedStep
  <2>3. CASE Error(r) BY <2>3, ErrorStep DEF Error
  <2>4. CASE FindGroup(r) BY <2>4, FindGroupStep
  <2>5. CASE ListScripts(r) BY <2>5, ListScriptsStep
  <2>6. CASE WriteScript(r) BY <2>6, WriteScriptStep
  <2>7. CASE FindPolicy(r) BY <2>7, FindPolicyStep
  <2>8. CASE WritePolicy(r) BY <2>8, WritePolicyStep
  <2>9. CASE CountMembers(r) BY <2>9, CountMembersStep
  <2>. QED BY <1>1, <2>1, <2>2, <2>3, <2>4, <2>5, <2>6, <2>7, <2>8, <2>9
           DEF Handler
<1>2. CASE UNCHANGED vars
  <2>1. /\ UNCHANGED <<scripts, policies, created, late, group, command, request,
                       faults, disturbed, delayed, halfway>>
    BY <1>2 DEF vars
  <2>2. TypeOK' /\ Store' /\ Lateness' /\ Apart'
    BY <2>1 DEF IndInv, TypeOK, Store, Laid, Set, Lateness, Formed, Apart
  <2>3. \A q \in Requests : Call(q)'
    BY <2>1, Still DEF IndInv
  <2>4. OneEachIfUndisturbed' /\ OrphanOnlyHalfway'
    BY <2>1 DEF IndInv, OneEachIfUndisturbed, OneEach, OrphanOnlyHalfway
  <2>. QED BY <2>2, <2>3, <2>4 DEF IndInv
<1>. QED BY <1>1, <1>2, DistributeStep, LandStep, ChangeGroupStep,
            DeleteForeignStep, RestartStep DEF Next

\* The invariant the others are read off.
THEOREM Inductive == Spec => []IndInv
BY IndInvInit, IndInvStep, PTL DEF Spec

\* The types of the tenant, the late writes and the calls.
THEOREM TypeCorrect == Spec => []TypeOK
<1>1. IndInv => TypeOK BY DEF IndInv
<1>. QED BY <1>1, Inductive, PTL

\* Whatever fails, and however many pages the scripts fill: a tripwire that is
\* deployed by one call at a time has one script and one policy (jamf.py's
\* upserts by name).
THEOREM OneObjectEach == Spec => []OneEachIfUndisturbed
<1>1. IndInv => OneEachIfUndisturbed BY DEF IndInv
<1>. QED BY <1>1, Inductive, PTL

\* A script without a policy is left by a deploy that had found the group only
\* (the order of the MDM plugin's calls).
THEOREM OrphansAreHalfway == Spec => []OrphanOnlyHalfway
<1>1. IndInv => OrphanOnlyHalfway BY DEF IndInv
<1>. QED BY <1>1, Inductive, PTL

\* What the plugin reports as deployed is in force on the tenant.
THEOREM ReportsAreTrue == Spec => []ReportedIsInForce
<1>1. IndInv => ReportedIsInForce
  BY DEF IndInv, Call, Enforced, InForce, ReportedIsInForce
<1>. QED BY <1>1, Inductive, PTL
=============================================================================
