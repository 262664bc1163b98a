------------------------ MODULE LiveDocumentProofs ------------------------
(***************************************************************************)
(* Theorems about LiveDocument, for any publishers, documents, layers,     *)
(* ages and bounds, and members who remove entries but copy none.          *)
(*                                                                         *)
(* The inductive invariant: a file in flight is of this tick, and nobody   *)
(* draws it, saw it or is to delete it (Afloat); a file belongs to one     *)
(* layer of one publish (Unique) and then of one document (Single,         *)
(* Snapshot, Located); what a publish has replaced is drawn no more        *)
(* (Replacing); a publish knows of all its document draws, but for files   *)
(* that are too young to touch (Informed).  So what it is about to delete  *)
(* is drawn nowhere, or at expiry not in its own document (Condemned), and *)
(* is all that was unused for too long (Expiring).                         *)
(***************************************************************************)
EXTENDS LiveDocument, TLAPS

Steps == {"idle", "layers", "ack", "prune", "reconcile", "tidy", "sweep", "expire",
          "done", "failed"}
Operations == Layers \X ({{}} \cup {{t} : t \in Tokens})
Bindings == [document : Documents, member : BOOLEAN]
Tag == [document : Documents, member : BOOLEAN, at : Nat]
Frames == [document : Documents, ops : SUBSET Operations, applied : BOOLEAN]

TypeOK ==
    /\ clock \in Nat
    /\ doc \in [Documents -> [Layers -> SUBSET Tokens]]
    /\ data \in [Tokens -> SUBSET Nat]
    /\ tags \in [Tokens -> SUBSET Tag]
    /\ minted \in 0 .. MaxTokens
    /\ pc \in [Publishers -> Steps]
    /\ bound \in [Publishers -> SUBSET Bindings]
    /\ entries \in [Publishers -> [Layers -> SUBSET Tokens]]
    /\ work \in [Publishers -> SUBSET Layers]
    /\ untagged \in [Publishers -> SUBSET (Layers \X Tokens)]
    /\ ops \in [Publishers -> SUBSET Operations]
    /\ unsent \in [Publishers -> SUBSET Operations]
    /\ wire \in [Publishers -> SUBSET Frames]
    /\ target \in [Publishers -> SUBSET Documents]
    /\ referenced \in [Publishers -> SUBSET Tokens]
    /\ verified \in [Publishers -> SUBSET Tokens]
    /\ joins \in [Publishers -> SUBSET Documents]
    /\ doomed \in [Publishers -> SUBSET Both(Tokens)]

Publishing(step) == step \in {"layers", "ack", "prune"}
Deleting(step) == step \in {"prune", "tidy", "expire"}

(* What a publish has in hand, by where it is.                             *)
InSession(p) ==
    /\ pc[p] = "idle" => untagged[p] = {} /\ unsent[p] = {} /\ ops[p] = {}
    /\ pc[p] \notin {"layers", "failed"} => untagged[p] = {}
    /\ pc[p] \notin {"layers", "ack", "failed"} => unsent[p] = {}
    /\ pc[p] \notin {"ack", "failed", "idle"} => wire[p] = {}
    /\ ~Deleting(pc[p]) => doomed[p] = {}
    /\ unsent[p] \subseteq ops[p]
    /\ \A b, c \in bound[p] : b = c
    /\ \A f, g \in wire[p] : f = g
    /\ pc[p] = "idle" => \A f \in wire[p] : ~f.applied
    /\ pc[p] = "ack" => \A f \in wire[p] : /\ f.ops \subseteq unsent[p]
                                           /\ f.document \in OwnDocument(p)

(* A file of this tick that no document draws, no publish saw there and    *)
(* nobody is to delete.                                                    *)
Unseen(t) ==
    /\ ~Drawn(t)
    /\ \A q \in Publishers : /\ t \notin DrawnBy(entries[q])
                             /\ <<t, "data">> \notin doomed[q]
                             /\ <<t, "tag">> \notin doomed[q]

Fresh(t) == data[t] = {clock} /\ Unseen(t)

Young(t) == data[t] \subseteq {clock} /\ \A g \in tags[t] : g.at = clock

Afloat == \A p \in Publishers, l \in Layers, t \in Tokens :
    /\ InFlight(p, <<l, {t}>>) => Fresh(t) /\ Young(t) /\ tags[t] # {}
    /\ <<l, t>> \in untagged[p] => Fresh(t) /\ tags[t] = {}

Holds(p, l, t) ==
    \/ <<l, t>> \in untagged[p]
    \/ <<l, {t}>> \in unsent[p]
    \/ \E f \in wire[p] : <<l, {t}>> \in f.ops

Unique ==
    /\ \A p \in Publishers, l \in Layers, t \in Tokens : Holds(p, l, t) => t =< minted
    /\ \A p, q \in Publishers, l, m \in Layers, t \in Tokens :
           Holds(p, l, t) /\ Holds(q, m, t) => p = q /\ l = m

Unminted == \A t \in Tokens : t > minted => data[t] = {} /\ tags[t] = {} /\ Unseen(t)

Single == \A d, e \in Documents, l, m \in Layers, t \in Tokens :
    t \in doc[d][l] /\ t \in doc[e][m] => d = e /\ l = m

Snapshot == \A p \in Publishers, e \in Documents, l, m \in Layers, t \in Tokens :
    t \in entries[p][l] /\ t \in doc[e][m] => e \in OwnDocument(p) /\ l = m

Located ==
    /\ \A d \in Documents, l \in Layers, t \in Tokens :
           t \in doc[d][l] => \A g \in tags[t] : g.document = d
    /\ \A p \in Publishers, l \in Layers, t \in Tokens :
           /\ \A f \in wire[p] : ~f.applied /\ <<l, {t}>> \in f.ops =>
                  \A g \in tags[t] : g.document = f.document
           /\ pc[p] \in {"layers", "ack"} /\ <<l, {t}>> \in unsent[p] =>
                  \A g \in tags[t] : g.document \in OwnDocument(p)

Arrived(p, o) ==
    /\ o \in ops[p]
    /\ o \in unsent[p] => \E f \in wire[p] : f.applied /\ o \in f.ops

Replacing(p) == Publishing(pc[p]) =>
    \A o \in ops[p] : Arrived(p, o) => \A t \in entries[p][o[1]] : ~Drawn(t)

Knows(known, d) == \A t \in DrawnBy(doc[d]) : t \in known \/ Young(t)

Informed(p) ==
    /\ Publishing(pc[p]) => \A d \in OwnDocument(p) : Knows(DrawnBy(entries[p]), d)
    /\ pc[p] \in {"reconcile", "tidy", "sweep"} =>
           \A d \in OwnDocument(p) : Knows(verified[p], d)
    /\ pc[p] = "reconcile" => \A d \in target[p] : Knows(referenced[p], d)

Condemned(p) == \A t \in Tokens : <<t, "data">> \in doomed[p] =>
    /\ pc[p] \in {"prune", "tidy"} => ~Drawn(t)
    /\ pc[p] = "expire" => \A d \in OwnDocument(p) : t \notin DrawnBy(doc[d])

Expiring(p) == \A t \in Tokens \ verified[p] : \A u \in data[t] : Unused(u) =>
    /\ pc[p] # "done"
    /\ pc[p] = "expire" => <<t, "data">> \in doomed[p]

Sound(p) == InSession(p) /\ Replacing(p) /\ Informed(p) /\ Condemned(p) /\ Expiring(p)

IInv ==
    /\ TypeOK /\ Afloat /\ Unique /\ Unminted /\ Single /\ Snapshot /\ Located
    /\ \A p \in Publishers : Sound(p)

-----------------------------------------------------------------------------
(* What most steps have in common: the files in flight are left alone      *)
(* (Aloof), no file is put in flight (Receding), and no file ages.         *)
Aloof == \A t \in Tokens : Unseen(t) /\ Young(t) =>
    Unseen(t)' /\ data'[t] = data[t] /\ tags'[t] = tags[t]

Receding == \A p \in Publishers, l \in Layers, t \in Tokens :
    /\ InFlight(p, <<l, {t}>>)' => InFlight(p, <<l, {t}>>)
    /\ <<l, t>> \in untagged'[p] => <<l, t>> \in untagged[p]
    /\ Holds(p, l, t)' => Holds(p, l, t)

StaysYoung == \A t \in Tokens : Young(t) => Young(t)'

LEMMA HoldersStay ==
    ASSUME Unique, minted' = minted, Receding
    PROVE  Unique'
  <1>1. ASSUME NEW p \in Publishers, NEW l \in Layers, NEW t \in Tokens, Holds(p, l, t)'
        PROVE  t =< minted' /\ Holds(p, l, t)
    BY <1>1 DEF Receding, Unique
  <1>2. ASSUME NEW p \in Publishers, NEW q \in Publishers, NEW l \in Layers,
               NEW m \in Layers, NEW t \in Tokens, Holds(p, l, t)', Holds(q, m, t)'
        PROVE  p = q /\ l = m
    <2>1. Holds(p, l, t) /\ Holds(q, m, t)
      BY <1>1, <1>2
    <2> QED
      BY <2>1 DEF Unique
  <1> QED
    BY <1>1, <1>2 DEF Unique

(* A step that adds nothing to what publishes hold sends nothing.          *)
LEMMA NothingSent ==
    ASSUME \A p \in Publishers :
              /\ untagged'[p] \subseteq untagged[p]
              /\ unsent'[p] \subseteq unsent[p]
              /\ wire'[p] = wire[p]
              /\ \/ pc'[p] \in {"layers", "ack"} => pc[p] \in {"layers", "ack"}
                 \/ unsent'[p] = {}
    PROVE  Receding
  <1> SUFFICES ASSUME NEW p \in Publishers, NEW l \in Layers, NEW t \in Tokens
               PROVE  /\ InFlight(p, <<l, {t}>>)' => InFlight(p, <<l, {t}>>)
                      /\ <<l, t>> \in untagged'[p] => <<l, t>> \in untagged[p]
                      /\ Holds(p, l, t)' => Holds(p, l, t)
    BY DEF Receding
  <1>1. InFlight(p, <<l, {t}>>)' => InFlight(p, <<l, {t}>>)
    BY DEF InFlight
  <1>2. Holds(p, l, t)' => Holds(p, l, t)
    BY DEF Holds
  <1> QED
    BY <1>1, <1>2

LEMMA FilesStay ==
    ASSUME IInv, clock' = clock, minted' = minted, Aloof, Receding
    PROVE  Afloat' /\ Unique' /\ Unminted'
  <1>1. Afloat'
    <2> SUFFICES ASSUME NEW p \in Publishers, NEW l \in Layers, NEW t \in Tokens
                 PROVE  /\ InFlight(p, <<l, {t}>>)' => (Fresh(t) /\ Young(t) /\ tags[t] # {})'
                        /\ <<l, t>> \in untagged'[p] => (Fresh(t) /\ tags[t] = {})'
      BY DEF Afloat
    <2>1. CASE InFlight(p, <<l, {t}>>)
      BY <2>1 DEF IInv, Aloof, Receding, Afloat, Fresh, Young
    <2>2. CASE <<l, t>> \in untagged[p]
      BY <2>2 DEF IInv, Aloof, Receding, Afloat, Fresh, Young
    <2> QED
      BY <2>1, <2>2 DEF Receding
  <1>2. Unique'
    BY HoldersStay DEF IInv
  <1>3. Unminted'
    BY DEF IInv, Aloof, Unminted, Young
  <1> QED
    BY <1>1, <1>2, <1>3

LEMMA DrawnByLayers ==
    \A layers, t : t \in DrawnBy(layers) <=> \E l \in Layers : t \in layers[l]
  BY DEF DrawnBy

(* What a document draws, it drew, or it is young.                         *)
NoStranger == \A d \in Documents, t \in Tokens :
    t \in DrawnBy(doc'[d]) => t \in DrawnBy(doc[d]) \/ Young(t)'

LEMMA KnowledgeLasts ==
    ASSUME TypeOK, TypeOK', StaysYoung, NoStranger, NEW q \in Publishers,
           bound'[q] = bound[q]
    PROVE  /\ OwnDocument(q)' = OwnDocument(q)
           /\ OwnDocument(q) \subseteq Documents
           /\ \A d \in Documents : \A known : Knows(known, d) =>
                 \A t \in DrawnBy(doc'[d]) : t \in known \/ Young(t)'
  <1>1. OwnDocument(q)' = OwnDocument(q) /\ OwnDocument(q) \subseteq Documents
    BY DEF OwnDocument, TypeOK, Bindings
  <1>2. ASSUME NEW d \in Documents, NEW known, Knows(known, d), NEW t \in DrawnBy(doc'[d])
        PROVE  t \in known \/ Young(t)'
    <2>1. t \in Tokens
      BY DEF TypeOK, DrawnBy
    <2> QED
      BY <1>2, <2>1 DEF StaysYoung, NoStranger, Knows
  <1> QED
    BY <1>1, <1>2

LEMMA StaysInformed ==
    ASSUME TypeOK, TypeOK', StaysYoung, NoStranger, NEW q \in Publishers,
           bound'[q] = bound[q], Informed(q),
           Publishing(pc'[q]) => Publishing(pc[q]) /\ entries'[q] = entries[q],
           pc'[q] \in {"reconcile", "tidy", "sweep"} =>
               pc[q] \in {"reconcile", "tidy", "sweep"} /\ verified'[q] = verified[q],
           pc'[q] = "reconcile" => /\ pc[q] = "reconcile"
                                   /\ target'[q] = target[q]
                                   /\ referenced'[q] = referenced[q]
    PROVE  Informed(q)'
  <1>1. target[q] \subseteq Documents
    BY DEF TypeOK
  <1>2. CASE Publishing(pc'[q])
    BY <1>2, KnowledgeLasts DEF Informed, Knows, Publishing
  <1>3. CASE pc'[q] \in {"reconcile", "tidy", "sweep"}
    BY <1>1, <1>3, KnowledgeLasts DEF Informed, Knows, Publishing
  <1> QED
    BY <1>2, <1>3 DEF Informed, Publishing

LEMMA NowIsNotOld ==
    clock \in Nat => ~Unused(clock) /\ ~Old(clock)
  BY DocumentAssumption DEF Unused, Old

LEMMA YoungIsNotOld ==
    ASSUME IInv, NEW t \in Tokens, Young(t)
    PROVE  /\ \A u \in data[t] : ~Unused(u)
           /\ \A g \in tags[t] : ~Old(g.at)
  <1>1. clock \in Nat
    BY DEF IInv, TypeOK
  <1>2. \A u \in data[t] : u = clock
    BY DEF Young
  <1> QED
    BY <1>1, <1>2, NowIsNotOld DEF Young

LEMMA WrittenIsAFunction ==
    ASSUME NEW layers, NEW operations
    PROVE  Written(layers, operations) = [l \in Layers |-> Written(layers, operations)[l]]
  BY DEF Written

(* What a frame puts into a document is its own operations'.               *)
LEMMA WrittenIsOldOrNew ==
    ASSUME NEW layers \in [Layers -> SUBSET Tokens], NEW operations \in SUBSET Operations
    PROVE  /\ Written(layers, operations) \in [Layers -> SUBSET Tokens]
           /\ \A l \in Layers : \A t \in Written(layers, operations)[l] :
                 \/ t \in layers[l]
                 \/ t \in Tokens /\ <<l, {t}>> \in operations
           /\ \A l \in Layers : \A t \in layers[l] :
                 \/ t \in Written(layers, operations)[l]
                 \/ \E o \in operations : o[1] = l
  <1> DEFINE new(l) == {o[2] : o \in {q \in operations : q[1] = l}}
  <1>1. \A l \in Layers : \A s \in new(l) :
           s \in SUBSET Tokens /\ \A t \in s : <<l, {t}>> \in operations
    BY DEF Operations
  <1>2. \A l \in Layers : Written(layers, operations)[l] =
                             IF new(l) = {} THEN layers[l] ELSE UNION new(l)
    BY DEF Written
  <1>3. \A l \in Layers : new(l) # {} => \E o \in operations : o[1] = l
    OBVIOUS
  <1> HIDE DEF new
  <1>5. \A l \in Layers : (UNION new(l)) \in SUBSET Tokens
    BY <1>1
  <1>6. \A l \in Layers : Written(layers, operations)[l] \in SUBSET Tokens
    BY <1>2, <1>5
  <1>7. Written(layers, operations) \in [Layers -> SUBSET Tokens]
    BY <1>6, WrittenIsAFunction
  <1> QED
    BY <1>1, <1>2, <1>3, <1>7

(* A layer an operation names is of the operations alone.                  *)
LEMMA WrittenOver ==
    ASSUME NEW layers \in [Layers -> SUBSET Tokens], NEW operations \in SUBSET Operations,
           NEW o \in operations, NEW t \in Written(layers, operations)[o[1]]
    PROVE  t \in Tokens /\ <<o[1], {t}>> \in operations
  <1> DEFINE new(l) == {z[2] : z \in {q \in operations : q[1] = l}}
  <1>1. o[1] \in Layers /\ o[2] \in new(o[1])
    BY DEF Operations
  <1>2. ASSUME NEW z \in operations, z[1] = o[1], NEW u \in z[2]
        PROVE  u \in Tokens /\ <<o[1], {u}>> \in operations
    <2>1. z \in Operations
      OBVIOUS
    <2>2. z = <<o[1], z[2]>> /\ z[2] \in {{}} \cup {{v} : v \in Tokens}
      BY <1>2, <2>1 DEF Operations
    <2>3. z[2] = {u} /\ u \in Tokens
      BY <1>2, <2>2
    <2> QED
      BY <2>2, <2>3
  <1>3. Written(layers, operations)[o[1]] = UNION new(o[1])
    BY <1>1 DEF Written
  <1> QED
    BY <1>2, <1>3

LEMMA OnTheWire ==
    ASSUME IInv, NEW p \in Publishers, NEW f \in wire[p]
    PROVE  /\ f \in Frames /\ f.document \in Documents /\ f.ops \in SUBSET Operations
           /\ wire[p] = {f}
           /\ pc[p] \in {"ack", "failed", "idle"}
  <1>1. f \in Frames
    BY DEF IInv, TypeOK
  <1>2. wire[p] = {f} /\ pc[p] \in {"ack", "failed", "idle"}
    BY DEF IInv, Sound, InSession
  <1> QED
    BY <1>1, <1>2 DEF Frames

LEMMA DrawnByTokens ==
    ASSUME NEW layers \in [Layers -> SUBSET Tokens]
    PROVE  DrawnBy(layers) \in SUBSET Tokens
  BY DEF DrawnBy

LEMMA BothOf ==
    ASSUME NEW s, NEW t
    PROVE  (<<t, "data">> \in Both(s) <=> t \in s) /\ (<<t, "tag">> \in Both(s) <=> t \in s)
  BY DEF Both

LEMMA BothTokens ==
    ASSUME NEW s \in SUBSET Tokens
    PROVE  Both(s) \in SUBSET Both(Tokens)
  <1>1. \A x \in Both(s) : x \in Both(Tokens)
    BY DEF Both
  <1> QED
    BY <1>1

LEMMA FlyingIsFresh ==
    ASSUME IInv, NEW p \in Publishers, NEW l \in Layers, NEW t \in Tokens,
           InFlight(p, <<l, {t}>>)
    PROVE  Fresh(t) /\ Young(t) /\ tags[t] # {} /\ Holds(p, l, t)
  <1>1. Fresh(t) /\ Young(t) /\ tags[t] # {}
    <2>1. Afloat
      BY DEF IInv
    <2> QED
      BY <2>1 DEF Afloat
  <1>2. Holds(p, l, t)
    BY DEF InFlight, Holds
  <1> QED
    BY <1>1, <1>2

-----------------------------------------------------------------------------
LEMMA OpenKeeps ==
    ASSUME IInv, NEW p \in Publishers, NEW d \in Documents, NEW member \in Joining,
           Open(p, d, member)
    PROVE  IInv'
  <1> USE DEF IInv, Sound, Open, files, session, house, Move, Reading, Add
  <1>a. entries'[p] = doc[d] /\ pc'[p] = "layers" /\ unsent[p] = {} /\ ops[p] = {}
    BY DEF TypeOK, InSession
  <1>b. OwnDocument(p)' = {d}
    <2> DEFINE binding == [document |-> d, member |-> member]
    <2>1. bound'[p] = {binding} /\ binding.document = d
      BY DEF TypeOK
    <2> HIDE DEF binding
    <2> QED
      BY <2>1 DEF OwnDocument
  <1>1. TypeOK'
    BY DocumentAssumption DEF TypeOK, Steps, Bindings
  <1>2. StaysYoung
    BY DEF StaysYoung, Young
  <1>3. NoStranger
    BY DEF NoStranger
  <1>4. Aloof
    BY DEF TypeOK, Aloof, Unseen, Drawn
  <1>5. Receding
    BY <1>a, NothingSent DEF TypeOK
  <1>6. Afloat' /\ Unique' /\ Unminted'
    BY FilesStay, <1>4, <1>5
  <1>7. Single'
    BY DEF Single
  <1>8. Snapshot'
    <2> SUFFICES ASSUME NEW r \in Publishers, NEW e \in Documents, NEW k \in Layers,
                        NEW m \in Layers, NEW t \in Tokens,
                        t \in entries'[r][k], t \in doc'[e][m]
                 PROVE  e \in OwnDocument(r)' /\ k = m
      BY DEF Snapshot
    <2>1. CASE r = p
      BY <1>a, <1>b, <2>1 DEF Single
    <2>2. CASE r # p
      BY <2>2 DEF TypeOK, Snapshot, OwnDocument
    <2> QED
      BY <2>1, <2>2
  <1>9. Located'
    <2>1. \A e \in Documents, k \in Layers, t \in Tokens :
             t \in doc'[e][k] => \A g \in tags'[t] : g.document = e
      BY DEF Located
    <2> SUFFICES ASSUME NEW r \in Publishers, NEW k \in Layers, NEW t \in Tokens
                 PROVE  /\ \A f \in wire'[r] : ~f.applied /\ <<k, {t}>> \in f.ops =>
                               \A g \in tags'[t] : g.document = f.document
                        /\ pc'[r] \in {"layers", "ack"} /\ <<k, {t}>> \in unsent'[r] =>
                               \A g \in tags'[t] : g.document \in OwnDocument(r)'
      BY <2>1 DEF Located
    <2>2a. wire'[r] = wire[r] /\ tags' = tags
      OBVIOUS
    <2>2. \A f \in wire'[r] : ~f.applied /\ <<k, {t}>> \in f.ops =>
             \A g \in tags'[t] : g.document = f.document
      BY <2>2a DEF Located
    <2>3. pc'[r] \in {"layers", "ack"} /\ <<k, {t}>> \in unsent'[r] =>
             \A g \in tags'[t] : g.document \in OwnDocument(r)'
      <3>1. CASE r = p
        BY <3>1, <1>a, <1>b
      <3>2. CASE r # p
        BY <3>2 DEF TypeOK, Located, OwnDocument
      <3> QED
        BY <3>1, <3>2
    <2> QED
      BY <2>2, <2>3
  <1> SUFFICES ASSUME NEW q \in Publishers PROVE Sound(q)'
    BY <1>1, <1>2, <1>3, <1>4, <1>5, <1>6, <1>7, <1>8, <1>9
  <1>10. Replacing(q)'
    <2>1. CASE q = p
      BY <2>1 DEF TypeOK, Replacing, InSession, Arrived
    <2>2. CASE q # p
      BY <2>2 DEF TypeOK, Replacing, Arrived, Drawn
    <2> QED
      BY <2>1, <2>2
  <1>11. Informed(q)'
    <2>1. CASE q = p
      BY <2>1, <1>a, <1>b DEF TypeOK, Informed, Knows, Publishing
    <2>2. CASE q # p
      BY <2>2, <1>1, <1>2, <1>3, StaysInformed DEF TypeOK, Publishing
    <2> QED
      BY <2>1, <2>2
  <1>12. InSession(q)'
    BY DEF TypeOK, InSession, Deleting, OwnDocument
  <1>13. Condemned(q)'
    BY DEF TypeOK, Condemned, OwnDocument, Drawn
  <1>14. Expiring(q)'
    BY DEF TypeOK, Expiring, Unused
  <1> QED
    BY <1>10, <1>11, <1>12, <1>13, <1>14

LEMMA SkipLayerKeeps ==
    ASSUME IInv, NEW p \in Publishers, NEW l \in Layers, SkipLayer(p, l)
    PROVE  IInv'
  <1> USE DEF IInv, Sound, SkipLayer, files, session, house, Move, Reading, Add
  <1>1. TypeOK'
    BY DEF TypeOK, Steps, Bindings, Tag, Frames
  <1>2. StaysYoung /\ NoStranger
    BY DEF TypeOK, StaysYoung, Young, NoStranger
  <1>3. Aloof
    BY DEF TypeOK, Aloof, Unseen, Drawn
  <1>4. Receding
    BY NothingSent DEF TypeOK
  <1>5. Afloat' /\ Unique' /\ Unminted'
    BY FilesStay, <1>3, <1>4
  <1>6. Single' /\ Snapshot' /\ Located'
    BY DEF Single, Snapshot, Located, OwnDocument
  <1> SUFFICES ASSUME NEW q \in Publishers PROVE Sound(q)'
    BY <1>1, <1>2, <1>3, <1>4, <1>5, <1>6
  <1>7. Informed(q)'
    BY <1>1, <1>2, StaysInformed DEF TypeOK, Publishing
  <1>8. InSession(q)'
    BY DEF TypeOK, InSession, Deleting, OwnDocument
  <1>9. Replacing(q)'
    BY DEF TypeOK, Replacing, Publishing, Arrived, Drawn
  <1>10. Condemned(q)'
    BY DEF TypeOK, Condemned, OwnDocument, Drawn
  <1>11. Expiring(q)'
    BY DEF TypeOK, Expiring, Unused
  <1> QED
    BY <1>7, <1>8, <1>9, <1>10, <1>11

LEMMA InlineLayerKeeps ==
    ASSUME IInv, NEW p \in Publishers, NEW l \in Layers, InlineLayer(p, l)
    PROVE  IInv'
  <1> USE DEF IInv, Sound, InlineLayer, files, session, house, Move, Reading, Add
  <1>a. /\ wire[p] = {} /\ pc[p] = "layers"
        /\ ops'[p] = ops[p] \cup {<<l, {}>>} /\ unsent'[p] = unsent[p] \cup {<<l, {}>>}
    <2>1. wire[p] = {} /\ pc[p] = "layers"
      BY DEF InSession
    <2> QED
      BY <2>1 DEF TypeOK
  <1>1. TypeOK'
    <2>1. <<l, {}>> \in Operations
      BY DEF Operations
    <2> QED
      BY <2>1 DEF TypeOK, Steps
  <1>2. StaysYoung /\ NoStranger
    BY DEF TypeOK, StaysYoung, Young, NoStranger
  <1>3. Aloof
    BY DEF TypeOK, Aloof, Unseen, Drawn
  <1>4. Receding
    <2> SUFFICES ASSUME NEW r \in Publishers, NEW k \in Layers, NEW t \in Tokens
                 PROVE  /\ InFlight(r, <<k, {t}>>)' => InFlight(r, <<k, {t}>>)
                        /\ <<k, t>> \in untagged'[r] => <<k, t>> \in untagged[r]
                        /\ Holds(r, k, t)' => Holds(r, k, t)
      BY DEF Receding
    <2>1. CASE r = p
      BY <2>1, <1>a DEF InFlight, Holds
    <2>2. CASE r # p
      BY <2>2 DEF TypeOK, InFlight, Holds
    <2> QED
      BY <2>1, <2>2
  <1>5. Afloat' /\ Unique' /\ Unminted'
    BY FilesStay, <1>3, <1>4
  <1>6. Single' /\ Snapshot' /\ Located'
    BY DEF Single, Snapshot, Located, OwnDocument
  <1> SUFFICES ASSUME NEW q \in Publishers PROVE Sound(q)'
    BY <1>1, <1>2, <1>3, <1>4, <1>5, <1>6
  <1>7. Replacing(q)'
    <2>1. CASE q = p
      BY <2>1, <1>a DEF TypeOK, Replacing, Arrived, Drawn, Publishing
    <2>2. CASE q # p
      BY <2>2 DEF TypeOK, Replacing, Arrived, Drawn
    <2> QED
      BY <2>1, <2>2
  <1>8. Informed(q)'
    BY <1>1, <1>2, StaysInformed DEF TypeOK, Publishing
  <1>9. InSession(q)' /\ Condemned(q)' /\ Expiring(q)'
    BY DEF TypeOK, InSession, Condemned, Expiring, Deleting, OwnDocument, Drawn,
           Unused
  <1> QED
    BY <1>7, <1>8, <1>9

LEMMA WriteDataKeeps ==
    ASSUME IInv, NEW p \in Publishers, NEW l \in Layers, WriteData(p, l)
    PROVE  IInv'
  <1> USE DEF IInv, Sound, WriteData, files, session, house, Move, Reading, Add
  <1> DEFINE x == minted + 1
  <1>a. x \in Tokens /\ data[x] = {} /\ tags[x] = {} /\ Unseen(x)
    BY DocumentAssumption DEF TypeOK, Tokens, Unminted
  <1>b. \A r \in Publishers, k \in Layers, t \in Tokens :
           (InFlight(r, <<k, {t}>>)' <=> InFlight(r, <<k, {t}>>))
    BY DEF InFlight
  <1>c. \A t \in Tokens : Unseen(t) => Unseen(t)'
    BY DEF Unseen, Drawn
  <1>d. \A r \in Publishers, k \in Layers, t \in Tokens :
           /\ <<k, t>> \in untagged'[r] => <<k, t>> \in untagged[r] \/ (r = p /\ k = l /\ t = x)
           /\ Holds(r, k, t)' => Holds(r, k, t) \/ (r = p /\ k = l /\ t = x)
    BY DEF TypeOK, Holds
  <1>e. \A r \in Publishers, k \in Layers : ~Holds(r, k, x)
    <2>1. ~(x =< minted)
      BY DEF TypeOK
    <2> QED
      BY <1>a, <2>1 DEF Unique
  <1> HIDE DEF x
  <1>f. /\ minted' = x /\ minted \in Nat /\ x = minted + 1
        /\ data' = [data EXCEPT ![x] = {clock}]
    BY DocumentAssumption DEF TypeOK, x
  <1>1. TypeOK'
    <2>1. minted' \in 0 .. MaxTokens
      BY <1>a, <1>f DEF Tokens
    <2> QED
      BY <1>a, <1>f, <2>1 DEF TypeOK, x
  <1>2. StaysYoung /\ NoStranger
    BY DEF TypeOK, StaysYoung, Young, NoStranger
  <1>3. Afloat'
    <2> SUFFICES ASSUME NEW r \in Publishers, NEW k \in Layers, NEW t \in Tokens
                 PROVE  /\ InFlight(r, <<k, {t}>>)' => (Fresh(t) /\ Young(t) /\ tags[t] # {})'
                        /\ <<k, t>> \in untagged'[r] => (Fresh(t) /\ tags[t] = {})'
      BY DEF Afloat
    <2>1. CASE t = x
      <3>1. ~InFlight(r, <<k, {t}>>)'
        BY <1>b, <1>e, <2>1 DEF InFlight, Holds
      <3> QED
        BY <1>a, <1>c, <1>f, <2>1, <3>1 DEF TypeOK, Fresh
    <2>2. CASE t # x
      <3>1. data'[t] = data[t]
        BY <1>f, <2>2 DEF TypeOK
      <3> QED
        BY <1>b, <1>c, <1>d, <2>2, <3>1 DEF Afloat, Fresh, Young
    <2> QED
      BY <2>1, <2>2
  <1>4. Unique'
    <2>1. ASSUME NEW r \in Publishers, NEW k \in Layers, NEW t \in Tokens, Holds(r, k, t)'
          PROVE  t =< minted' /\ (Holds(r, k, t) \/ (r = p /\ k = l /\ t = x))
      <3>1. Holds(r, k, t) \/ (r = p /\ k = l /\ t = x)
        BY <1>d, <2>1
      <3>2. t = x => t =< minted'
        BY <1>a, <1>f DEF Tokens
      <3>3. Holds(r, k, t) => t =< minted'
        BY <1>f DEF Unique, Tokens
      <3> QED
        BY <3>1, <3>2, <3>3
    <2>2. ASSUME NEW r \in Publishers, NEW s \in Publishers, NEW k \in Layers,
                 NEW m \in Layers, NEW t \in Tokens, Holds(r, k, t)', Holds(s, m, t)'
          PROVE  r = s /\ k = m
      <3>1. /\ Holds(r, k, t) \/ (r = p /\ k = l /\ t = x)
            /\ Holds(s, m, t) \/ (s = p /\ m = l /\ t = x)
        BY <2>1, <2>2
      <3> QED
        BY <1>e, <3>1 DEF Unique
    <2> QED
      BY <2>1, <2>2 DEF Unique
  <1>5. Unminted'
    <2> SUFFICES ASSUME NEW t \in Tokens, t > minted'
                 PROVE  data'[t] = {} /\ tags'[t] = {} /\ Unseen(t)'
      BY DEF Unminted
    <2>1. t > minted /\ t # x
      BY <1>f DEF Tokens
    <2> QED
      BY <1>c, <1>f, <2>1 DEF TypeOK, Unminted
  <1>6. Single' /\ Snapshot' /\ Located'
    BY DEF Single, Snapshot, Located, OwnDocument
  <1> SUFFICES ASSUME NEW q \in Publishers PROVE Sound(q)'
    BY <1>1, <1>2, <1>3, <1>4, <1>5, <1>6
  <1>7. Informed(q)'
    BY <1>1, <1>2, StaysInformed DEF TypeOK, Publishing
  <1>8. Expiring(q)'
    <2>1. ASSUME NEW t \in Tokens, NEW u \in data'[t], Unused(u)'
          PROVE  u \in data[t] /\ Unused(u)
      BY <2>1, NowIsNotOld DEF TypeOK, Unused
    <2> QED
      BY <2>1 DEF TypeOK, Expiring
  <1>9. InSession(q)' /\ Replacing(q)' /\ Condemned(q)'
    BY DEF TypeOK, InSession, Replacing, Condemned, Deleting, OwnDocument,
           Publishing, Arrived, Drawn
  <1> QED
    BY <1>7, <1>8, <1>9

LEMMA WriteTagKeeps ==
    ASSUME IInv, NEW p \in Publishers, WriteTag(p)
    PROVE  IInv'
  <1> USE DEF IInv, Sound, WriteTag, files, session, house, Move, Reading, Add
  <1>a. PICK w \in untagged[p], b \in bound[p] :
           /\ tags' = [tags EXCEPT ![w[2]] = {[document |-> b.document,
                                              member |-> b.member, at |-> clock]}]
           /\ Add(p, w[1], {w[2]})
    OBVIOUS
  <1> DEFINE x == w[2]
             k0 == w[1]
             tag == [document |-> b.document, member |-> b.member, at |-> clock]
  <1>b. x \in Tokens /\ k0 \in Layers /\ w = <<k0, x>>
    BY <1>a DEF TypeOK
  <1>c. tag \in Tag /\ tag.document = b.document /\ tag.at = clock
    BY DEF TypeOK, Bindings, Tag
  <1>d. /\ Fresh(x) /\ tags[x] = {} /\ Holds(p, k0, x) /\ <<k0, x>> \in untagged[p]
        /\ pc[p] \in {"layers", "failed"}
    <2>1. <<k0, x>> \in untagged[p]
      BY <1>b
    <2>2. pc[p] \in {"layers", "failed"}
      BY <2>1 DEF InSession
    <2> QED
      BY <1>b, <2>1, <2>2 DEF Afloat, Holds
  <1>e. \A t \in Tokens : tags'[t] = IF t = x THEN {tag} ELSE tags[t]
    BY <1>a DEF TypeOK
  <1>f. \A r \in Publishers :
           /\ unsent'[r] = IF r = p THEN unsent[p] \cup {<<k0, {x}>>} ELSE unsent[r]
           /\ ops'[r] = IF r = p THEN ops[p] \cup {<<k0, {x}>>} ELSE ops[r]
           /\ untagged'[r] = IF r = p THEN {} ELSE untagged[r]
    BY <1>a DEF TypeOK
  <1>g. work' = [work EXCEPT ![p] = @ \ {k0}]
    BY <1>a
  <1> HIDE DEF x, k0, tag
  <1>h. \A t \in Tokens : Unseen(t) => Unseen(t)'
    BY DEF Unseen, Drawn
  <1>i. \A r \in Publishers, k \in Layers : Holds(r, k, x) => r = p /\ k = k0
    BY <1>b, <1>d DEF Unique
  <1>j. \A r \in Publishers, k \in Layers, t \in Tokens :
           Holds(r, k, t)' => Holds(r, k, t)
    <2> SUFFICES ASSUME NEW r \in Publishers, NEW k \in Layers, NEW t \in Tokens
                 PROVE  Holds(r, k, t)' => Holds(r, k, t)
      OBVIOUS
    <2>1. untagged'[r] \subseteq untagged[r] /\ wire'[r] = wire[r]
      BY <1>f
    <2>2. CASE <<k, {t}>> \in unsent'[r] /\ <<k, {t}>> \notin unsent[r]
      <3>1. r = p /\ k = k0 /\ t = x
        BY <1>f, <2>2
      <3> QED
        BY <1>d, <3>1
    <2>3. CASE <<k, {t}>> \in unsent'[r] => <<k, {t}>> \in unsent[r]
      BY <2>1, <2>3 DEF Holds
    <2> QED
      BY <2>2, <2>3
  <1>k. \A r \in Publishers, k \in Layers, t \in Tokens \ {x} :
           InFlight(r, <<k, {t}>>)' => InFlight(r, <<k, {t}>>)
    <2> SUFFICES ASSUME NEW r \in Publishers, NEW k \in Layers, NEW t \in Tokens \ {x},
                        <<k, {t}>> \in unsent'[r]
                 PROVE  <<k, {t}>> \in unsent[r]
      BY DEF InFlight
    <2> QED
      BY <1>f
  <1>1. TypeOK'
    <2>1. <<k0, {x}>> \in Operations
      BY <1>b DEF Operations
    <2>2. tags' = [tags EXCEPT ![x] = {tag}]
      BY <1>a DEF x, tag
    <2>3. /\ unsent' = [unsent EXCEPT ![p] = @ \cup {<<k0, {x}>>}]
          /\ ops' = [ops EXCEPT ![p] = @ \cup {<<k0, {x}>>}]
      BY <1>a DEF x, k0
    <2>4. /\ unsent[p] \cup {<<k0, {x}>>} \in SUBSET Operations
          /\ ops[p] \cup {<<k0, {x}>>} \in SUBSET Operations
          /\ {tag} \in SUBSET Tag
      BY <1>c, <2>1 DEF TypeOK
    <2>5. unsent' \in [Publishers -> SUBSET Operations]
      BY <2>3, <2>4 DEF TypeOK
    <2>6. ops' \in [Publishers -> SUBSET Operations]
      BY <2>3, <2>4 DEF TypeOK
    <2>7. tags' \in [Tokens -> SUBSET Tag]
      BY <1>b, <2>2, <2>4 DEF TypeOK
    <2> QED
      BY <1>g, <2>5, <2>6, <2>7 DEF TypeOK
  <1>2. StaysYoung
    BY <1>c, <1>e DEF StaysYoung, Young
  <1>3. NoStranger
    BY DEF NoStranger
  <1>4. Afloat'
    <2> SUFFICES ASSUME NEW r \in Publishers, NEW k \in Layers, NEW t \in Tokens
                 PROVE  /\ InFlight(r, <<k, {t}>>)' => (Fresh(t) /\ Young(t) /\ tags[t] # {})'
                        /\ <<k, t>> \in untagged'[r] => (Fresh(t) /\ tags[t] = {})'
      BY DEF Afloat
    <2>1. CASE t = x
      <3>1. <<k, t>> \notin untagged'[r]
        <4>1. <<k, x>> \in untagged[r] => r = p
          BY <1>i DEF Holds
        <4> QED
          BY <1>f, <2>1, <4>1
      <3>2. Fresh(t)'
        BY <1>d, <1>h, <2>1 DEF Fresh
      <3>3. Young(t)' /\ tags'[t] # {}
        BY <1>c, <1>d, <1>e, <2>1 DEF Fresh, Young
      <3> QED
        BY <3>1, <3>2, <3>3
    <2>2. CASE t # x
      <3>1. tags'[t] = tags[t]
        BY <1>e, <2>2
      <3>2. Fresh(t) /\ Young(t) => (Fresh(t) /\ Young(t))'
        BY <1>h, <3>1 DEF Fresh, Young
      <3>3. Fresh(t) => Fresh(t)'
        BY <1>h DEF Fresh
      <3>4. <<k, t>> \in untagged'[r] => <<k, t>> \in untagged[r]
        BY <1>f
      <3> QED
        BY <1>k, <2>2, <3>1, <3>2, <3>3, <3>4 DEF Afloat
    <2> QED
      BY <2>1, <2>2
  <1>5. Unique'
    <2>1. ASSUME NEW r \in Publishers, NEW k \in Layers, NEW t \in Tokens, Holds(r, k, t)'
          PROVE  t =< minted' /\ Holds(r, k, t)
      BY <1>j, <2>1 DEF Unique
    <2>2. ASSUME NEW r \in Publishers, NEW s \in Publishers, NEW k \in Layers,
                 NEW m \in Layers, NEW t \in Tokens, Holds(r, k, t)', Holds(s, m, t)'
          PROVE  r = s /\ k = m
      <3>1. Holds(r, k, t) /\ Holds(s, m, t)
        BY <2>1, <2>2
      <3> QED
        BY <3>1 DEF Unique
    <2> QED
      BY <2>1, <2>2 DEF Unique
  <1>6. Unminted'
    <2> SUFFICES ASSUME NEW t \in Tokens, t > minted
                 PROVE  data'[t] = {} /\ tags'[t] = {} /\ Unseen(t)'
      BY DEF Unminted
    <2>1. x =< minted
      BY <1>b, <1>d DEF Unique
    <2>2. t # x
      BY <2>1 DEF TypeOK, Tokens
    <2> QED
      BY <1>e, <1>h, <2>2 DEF Unminted
  <1>7. Single'
    BY DEF Single
  <1>8. Snapshot'
    BY DEF Snapshot, OwnDocument
  <1>9. Located'
    <2>1. \A e \in Documents, k \in Layers, t \in Tokens :
             t \in doc[e][k] => \A g \in tags'[t] : g.document = e
      <3>1. \A e \in Documents, k \in Layers : x \notin doc[e][k]
        BY <1>d DEF Fresh, Unseen, Drawn, DrawnBy
      <3> QED
        BY <1>e, <3>1 DEF Located
    <2> SUFFICES ASSUME NEW r \in Publishers, NEW k \in Layers, NEW t \in Tokens
                 PROVE  /\ \A f \in wire[r] : ~f.applied /\ <<k, {t}>> \in f.ops =>
                               \A g \in tags'[t] : g.document = f.document
                        /\ pc[r] \in {"layers", "ack"} /\ <<k, {t}>> \in unsent'[r] =>
                               \A g \in tags'[t] : g.document \in OwnDocument(r)
      BY <2>1 DEF Located, OwnDocument
    <2>2. CASE t = x
      <3>1. \A f \in wire[r] : ~f.applied => <<k, {t}>> \notin f.ops
        BY <1>d, <2>2 DEF Afloat, InFlight
      <3>2. <<k, {t}>> \in unsent'[r] => r = p
        BY <1>f, <1>i, <2>2 DEF Holds
      <3>3. tag.document \in OwnDocument(p)
        BY <1>c DEF OwnDocument
      <3>4. tags'[t] = {tag}
        BY <1>e, <2>2
      <3> QED
        BY <3>1, <3>2, <3>3, <3>4
    <2>3. CASE t # x
      <3>1. tags'[t] = tags[t]
        BY <1>e, <2>3
      <3>2. <<k, {t}>> \in unsent'[r] => <<k, {t}>> \in unsent[r]
        BY <1>f, <2>3
      <3> QED
        BY <3>1, <3>2 DEF Located
    <2> QED
      BY <2>2, <2>3
  <1> SUFFICES ASSUME NEW q \in Publishers PROVE Sound(q)'
    BY <1>1, <1>2, <1>3, <1>4, <1>5, <1>6, <1>7, <1>8, <1>9
  <1>10. InSession(q)'
    <2>1. CASE q = p
      <3>0. OwnDocument(p)' = OwnDocument(p)
        BY DEF OwnDocument
      <3>1. unsent'[p] \subseteq ops'[p] /\ untagged'[p] = {}
        BY <1>f DEF InSession
      <3> QED
        BY <1>d, <2>1, <3>0, <3>1 DEF InSession, Deleting
    <2>2. CASE q # p
      BY <2>2, <1>f DEF InSession, Deleting, OwnDocument
    <2> QED
      BY <2>1, <2>2
  <1>11. Replacing(q)'
    <2>1. CASE q = p
      <3>1. pc[p] = "layers" => wire[p] = {}
        BY DEF InSession
      <3>2. pc[p] = "failed" => ~Publishing(pc[p])
        BY DEF Publishing
      <3>3. CASE pc[p] = "layers"
        <4>1. \A o \in ops'[p] : Arrived(p, o)' => o \in ops[p] /\ Arrived(p, o)
          BY <1>f, <3>1, <3>3 DEF Arrived
        <4> QED
          BY <2>1, <4>1 DEF Replacing, Drawn
      <3> QED
        BY <1>d, <2>1, <3>2, <3>3 DEF Replacing
    <2>2. CASE q # p
      BY <1>f, <2>2 DEF Replacing, Arrived, Drawn
    <2> QED
      BY <2>1, <2>2
  <1>12. Informed(q)'
    BY <1>1, <1>2, <1>3, StaysInformed DEF TypeOK, Publishing
  <1>13. Condemned(q)' /\ Expiring(q)'
    BY DEF TypeOK, Condemned, Expiring, OwnDocument, Drawn, Unused
  <1> QED
    BY <1>10, <1>11, <1>12, <1>13

LEMMA SendFrameKeeps ==
    ASSUME IInv, NEW p \in Publishers, SendFrame(p)
    PROVE  IInv'
  <1> USE DEF IInv, Sound, SendFrame, files, session, house, Move, Reading, Add
  <1>a. PICK fs \in SUBSET unsent[p], b \in bound[p] :
           wire' = [wire EXCEPT ![p] = {[document |-> b.document, ops |-> fs,
                                         applied |-> FALSE]}]
    OBVIOUS
  <1> DEFINE frame == [document |-> b.document, ops |-> fs, applied |-> FALSE]
  <1>b. /\ wire[p] = {} /\ pc[p] = "layers" /\ pc'[p] = "ack" /\ wire'[p] = {frame}
        /\ frame.document = b.document /\ frame.ops = fs /\ ~frame.applied
    <2>0. wire[p] = {} /\ pc[p] = "layers"
      BY DEF InSession
    <2>1. wire[p] = {} /\ pc[p] = "layers" /\ pc'[p] = "ack"
      BY <2>0 DEF TypeOK
    <2>2. wire'[p] = {frame}
      BY <1>a DEF TypeOK
    <2> QED
      BY <2>1, <2>2
  <1> HIDE DEF frame
  <1>c. b.document \in OwnDocument(p) /\ \A e \in OwnDocument(p) : e = b.document
    BY DEF InSession, OwnDocument
  <1>d. \A r \in Publishers : OwnDocument(r)' = OwnDocument(r)
    BY DEF OwnDocument
  <1>1. TypeOK'
    BY DEF TypeOK, Steps, Bindings, Tag, Frames
  <1>2. StaysYoung /\ NoStranger
    BY DEF TypeOK, StaysYoung, Young, NoStranger
  <1>3. Aloof
    BY DEF TypeOK, Aloof, Unseen, Drawn
  <1>4. Receding
    <2> SUFFICES ASSUME NEW r \in Publishers, NEW k \in Layers, NEW t \in Tokens
                 PROVE  /\ InFlight(r, <<k, {t}>>)' => InFlight(r, <<k, {t}>>)
                        /\ <<k, t>> \in untagged'[r] => <<k, t>> \in untagged[r]
                        /\ Holds(r, k, t)' => Holds(r, k, t)
      BY DEF Receding
    <2>1. CASE r = p
      BY <2>1, <1>b DEF InFlight, Holds
    <2>2. CASE r # p
      BY <2>2 DEF TypeOK, InFlight, Holds
    <2> QED
      BY <2>1, <2>2
  <1>5. Afloat' /\ Unique' /\ Unminted'
    BY FilesStay, <1>3, <1>4
  <1>6. Single'
    BY DEF Single
  <1>7. Snapshot'
    BY DEF Snapshot, OwnDocument
  <1>8. Located'
    <2> SUFFICES ASSUME NEW r \in Publishers, NEW k \in Layers, NEW t \in Tokens
                 PROVE  /\ \A f \in wire'[r] : ~f.applied /\ <<k, {t}>> \in f.ops =>
                               \A g \in tags'[t] : g.document = f.document
                        /\ pc'[r] \in {"layers", "ack"} /\ <<k, {t}>> \in unsent'[r] =>
                               \A g \in tags'[t] : g.document \in OwnDocument(r)
      BY <1>d DEF Located
    <2>1. CASE r = p
      BY <2>1, <1>b, <1>c DEF Located
    <2>2. CASE r # p
      <3>1. wire'[r] = wire[r] /\ pc'[r] = pc[r] /\ tags' = tags /\ unsent' = unsent
        BY <2>2 DEF TypeOK
      <3> QED
        BY <3>1 DEF Located
    <2> QED
      BY <2>1, <2>2
  <1> SUFFICES ASSUME NEW q \in Publishers PROVE Sound(q)'
    BY <1>1, <1>2, <1>3, <1>4, <1>5, <1>6, <1>7, <1>8
  <1>9. InSession(q)'
    <2>1. CASE q = p
      BY <2>1, <1>b, <1>c, <1>d DEF InSession, Deleting
    <2>2. CASE q # p
      BY <2>2, <1>d DEF TypeOK, InSession, Deleting
    <2> QED
      BY <2>1, <2>2
  <1>10. Replacing(q)'
    <2>1. CASE q = p
      BY <2>1, <1>b DEF Replacing, Arrived, Drawn, Publishing
    <2>2. CASE q # p
      BY <2>2 DEF TypeOK, Replacing, Arrived, Drawn
    <2> QED
      BY <2>1, <2>2
  <1>11. Informed(q)'
    BY <1>1, <1>2, StaysInformed DEF TypeOK, Publishing
  <1>12. Condemned(q)' /\ Expiring(q)'
    BY DEF TypeOK, Condemned, Expiring, OwnDocument, Drawn, Unused
  <1> QED
    BY <1>9, <1>10, <1>11, <1>12

LEMMA ApplyKeeps ==
    ASSUME IInv, NEW p \in Publishers, Apply(p)
    PROVE  IInv'
  <1> USE DEF IInv, Sound, Apply, files, session, house, Move, Reading, Add
  <1>a. PICK frame \in wire[p] :
           /\ ~frame.applied
           /\ doc' = [doc EXCEPT ![frame.document] = Written(@, frame.ops)]
           /\ wire' = [wire EXCEPT ![p] = IF pc[p] = "ack" THEN {[frame EXCEPT !.applied = TRUE]}
                                                          ELSE {}]
           /\ UNCHANGED <<clock, files, pc, session, house, doomed>>
    OBVIOUS
  <1> DEFINE sent == [frame EXCEPT !.applied = TRUE]
  <1>b. /\ frame \in Frames /\ frame.document \in Documents
        /\ frame.ops \in SUBSET Operations /\ wire[p] = {frame}
        /\ pc[p] \in {"ack", "failed", "idle"}
    BY OnTheWire
  <1>c. sent \in Frames /\ sent.document = frame.document /\ sent.ops = frame.ops /\ sent.applied
    BY <1>b DEF Frames
  <1>d. \A r \in Publishers :
           wire'[r] = IF r # p THEN wire[r] ELSE IF pc[p] = "ack" THEN {sent} ELSE {}
    BY <1>a DEF TypeOK
  <1> HIDE DEF sent
  <1>e. \A d \in Documents : doc'[d] = IF d = frame.document THEN Written(doc[d], frame.ops)
                                                             ELSE doc[d]
    BY <1>a, <1>b DEF TypeOK
  <1>f. \A d \in Documents : doc[d] \in [Layers -> SUBSET Tokens]
    BY DEF TypeOK
  <1>g. \A d \in Documents, k \in Layers, t \in Tokens :
           t \in doc'[d][k] =>
               t \in doc[d][k] \/ (d = frame.document /\ <<k, {t}>> \in frame.ops)
    BY <1>b, <1>e, <1>f, WrittenIsOldOrNew
  <1>h. \A k \in Layers, t \in Tokens : <<k, {t}>> \in frame.ops =>
           Holds(p, k, t) /\ Fresh(t) /\ Young(t) /\ tags[t] # {}
    <2>1. \A k \in Layers, t \in Tokens : <<k, {t}>> \in frame.ops =>
             InFlight(p, <<k, {t}>>)
      BY <1>a DEF InFlight
    <2> QED
      BY <2>1, FlyingIsFresh
  <1>i. \A t \in Tokens : (\A k \in Layers : <<k, {t}>> \notin frame.ops) =>
           \A d \in Documents : t \in DrawnBy(doc'[d]) => t \in DrawnBy(doc[d])
    <2> SUFFICES ASSUME NEW t \in Tokens, \A k \in Layers : <<k, {t}>> \notin frame.ops,
                        NEW d \in Documents, NEW k \in Layers, t \in doc'[d][k]
                 PROVE  t \in DrawnBy(doc[d])
      BY DEF DrawnBy
    <2>1. t \in doc[d][k]
      BY <1>g
    <2> QED
      BY <2>1 DEF DrawnBy
  <1>j. \A t \in Tokens : Unseen(t) /\ (\A k \in Layers : <<k, {t}>> \notin frame.ops) =>
           Unseen(t)'
    BY <1>i DEF Unseen, Drawn
  <1>k. ASSUME NEW r \in Publishers, NEW o, InFlight(r, o)'
        PROVE  InFlight(r, o) /\ (r = p => o \notin frame.ops)
    <2>1. CASE r # p
      BY <1>d, <1>k, <2>1 DEF InFlight
    <2>2. CASE r = p
      BY <1>a, <1>b, <1>c, <1>d, <1>k, <2>2 DEF InFlight
    <2> QED
      BY <2>1, <2>2
  <1>l. \A r \in Publishers, k \in Layers, t \in Tokens : Holds(r, k, t)' => Holds(r, k, t)
    <2> SUFFICES ASSUME NEW r \in Publishers, NEW k \in Layers, NEW t \in Tokens,
                        NEW g \in wire'[r], <<k, {t}>> \in g.ops
                 PROVE  \E h \in wire[r] : <<k, {t}>> \in h.ops
      BY DEF Holds
    <2> QED
      BY <1>b, <1>c, <1>d
  <1>m. Receding
    BY <1>k, <1>l DEF Receding
  <1>1. TypeOK'
    <2>1. wire' \in [Publishers -> SUBSET Frames]
      <3>1. wire' = [wire EXCEPT ![p] = IF pc[p] = "ack" THEN {sent} ELSE {}]
        BY <1>a DEF sent
      <3>2. (IF pc[p] = "ack" THEN {sent} ELSE {}) \in SUBSET Frames
        BY <1>c
      <3> QED
        BY <3>1, <3>2 DEF TypeOK
    <2>2. doc' \in [Documents -> [Layers -> SUBSET Tokens]]
      BY <1>a, <1>b, <1>f, WrittenIsOldOrNew DEF TypeOK
    <2> QED
      BY <2>1, <2>2 DEF TypeOK
  <1>2. StaysYoung
    BY DEF TypeOK, StaysYoung, Young
  <1>3. NoStranger
    <2> SUFFICES ASSUME NEW d \in Documents, NEW t \in Tokens, t \in DrawnBy(doc'[d])
                 PROVE  t \in DrawnBy(doc[d]) \/ Young(t)
      BY <1>2 DEF NoStranger, StaysYoung
    <2> QED
      BY <1>h, <1>i
  <1>4. Afloat'
    <2> SUFFICES ASSUME NEW r \in Publishers, NEW k \in Layers, NEW t \in Tokens
                 PROVE  /\ InFlight(r, <<k, {t}>>)' => (Fresh(t) /\ Young(t) /\ tags[t] # {})'
                        /\ <<k, t>> \in untagged'[r] => (Fresh(t) /\ tags[t] = {})'
      BY DEF Afloat
    <2>1. ASSUME InFlight(r, <<k, {t}>>)'
          PROVE  (Fresh(t) /\ Young(t) /\ tags[t] # {})'
      <3>0. InFlight(r, <<k, {t}>>)
        BY <1>k, <2>1
      <3>1. Fresh(t) /\ Young(t) /\ tags[t] # {}
        BY <3>0, FlyingIsFresh
      <3>2. Holds(r, k, t)
        BY <3>0, FlyingIsFresh
      <3>3. \A m \in Layers : <<m, {t}>> \notin frame.ops
        BY <1>h, <1>k, <2>1, <3>2 DEF Unique
      <3> QED
        BY <1>j, <3>1, <3>3 DEF Fresh, Young
    <2>2. ASSUME <<k, t>> \in untagged'[r]
          PROVE  (Fresh(t) /\ tags[t] = {})'
      <3>1. Fresh(t) /\ tags[t] = {}
        BY <2>2 DEF Afloat
      <3>2. \A m \in Layers : <<m, {t}>> \notin frame.ops
        BY <1>h, <3>1
      <3> QED
        BY <1>j, <3>1, <3>2 DEF Fresh
    <2> QED
      BY <2>1, <2>2
  <1>5. Unique'
    BY <1>m, HoldersStay
  <1>6. Unminted'
    <2> SUFFICES ASSUME NEW t \in Tokens, t > minted
                 PROVE  data'[t] = {} /\ tags'[t] = {} /\ Unseen(t)'
      BY DEF Unminted
    <2>1. data[t] = {} /\ tags[t] = {} /\ Unseen(t)
      BY DEF Unminted
    <2>2. \A m \in Layers : <<m, {t}>> \notin frame.ops
      BY <1>h, <2>1
    <2> QED
      BY <1>j, <2>1, <2>2
  <1>7. Single'
    <2> SUFFICES ASSUME NEW d \in Documents, NEW e \in Documents, NEW k \in Layers,
                        NEW m \in Layers, NEW t \in Tokens,
                        t \in doc'[d][k], t \in doc'[e][m]
                 PROVE  d = e /\ k = m
      BY DEF Single
    <2>1. CASE \A j \in Layers : <<j, {t}>> \notin frame.ops
      <3>1. t \in doc[d][k] /\ t \in doc[e][m]
        BY <1>g, <2>1
      <3> QED
        BY <3>1 DEF Single
    <2>2. CASE \E j \in Layers : <<j, {t}>> \in frame.ops
      <3>1. t \notin doc[d][k] /\ t \notin doc[e][m]
        <4>1. ~Drawn(t)
          BY <1>h, <2>2 DEF Fresh, Unseen
        <4> QED
          BY <4>1 DEF Drawn, DrawnBy
      <3>2. d = e /\ Holds(p, k, t) /\ Holds(p, m, t)
        BY <1>g, <1>h, <3>1
      <3> QED
        BY <3>2 DEF Unique
    <2> QED
      BY <2>1, <2>2
  <1>8. Snapshot'
    <2> SUFFICES ASSUME NEW r \in Publishers, NEW e \in Documents, NEW k \in Layers,
                        NEW m \in Layers, NEW t \in Tokens,
                        t \in entries'[r][k], t \in doc'[e][m]
                 PROVE  e \in OwnDocument(r)' /\ k = m
      BY DEF Snapshot
    <2>1. t \in DrawnBy(entries[r])
      BY DEF DrawnBy
    <2>2. t \in doc[e][m]
      BY <1>g, <1>h, <2>1 DEF Fresh, Unseen
    <2> QED
      BY <2>2 DEF Snapshot, OwnDocument
  <1>9. Located'
    <2>1. \A e \in Documents, k \in Layers, t \in Tokens :
             t \in doc'[e][k] => \A g \in tags[t] : g.document = e
      <3> SUFFICES ASSUME NEW e \in Documents, NEW k \in Layers, NEW t \in Tokens,
                          t \in doc'[e][k]
                   PROVE  \A g \in tags[t] : g.document = e
        OBVIOUS
      <3>1. CASE t \in doc[e][k]
        BY <3>1 DEF Located
      <3>2. CASE e = frame.document /\ <<k, {t}>> \in frame.ops
        BY <1>a, <3>2 DEF Located
      <3> QED
        BY <1>g, <3>1, <3>2
    <2> SUFFICES ASSUME NEW r \in Publishers, NEW k \in Layers, NEW t \in Tokens
                 PROVE  \A g \in wire'[r] : ~g.applied /\ <<k, {t}>> \in g.ops =>
                            g \in wire[r]
      BY <2>1 DEF Located, OwnDocument
    <2> QED
      BY <1>c, <1>d
  <1> SUFFICES ASSUME NEW q \in Publishers PROVE Sound(q)'
    BY <1>1, <1>2, <1>3, <1>4, <1>5, <1>6, <1>7, <1>8, <1>9
  <1>10. InSession(q)'
    <2>0. OwnDocument(q)' = OwnDocument(q)
      BY DEF OwnDocument
    <2>1. CASE q = p
      <3>1. wire'[p] = {} \/ (pc[p] = "ack" /\ wire'[p] = {sent})
        BY <1>d
      <3>2. pc[p] = "ack" => frame.ops \subseteq unsent[p] /\ frame.document \in OwnDocument(p)
        BY DEF InSession
      <3>3. pc[p] = "ack" => \A g \in wire'[p] : /\ g.ops \subseteq unsent[p]
                                               /\ g.document \in OwnDocument(p)
        BY <1>c, <3>1, <3>2
      <3>4. \A g, h \in wire'[p] : g = h
        BY <3>1
      <3>5. pc[p] # "ack" => wire'[p] = {}
        BY <3>1
      <3> QED
        BY <1>b, <2>0, <2>1, <3>3, <3>4, <3>5 DEF InSession, Deleting
    <2>2. CASE q # p
      BY <1>d, <2>0, <2>2 DEF InSession, Deleting
    <2> QED
      BY <2>1, <2>2
  <1>11. Replacing(q)'
    <2> SUFFICES ASSUME Publishing(pc[q]), NEW o \in ops[q], Arrived(q, o)',
                        NEW t \in entries[q][o[1]], Drawn(t)'
                 PROVE  FALSE
      BY DEF Replacing
    <2>1. o[1] \in Layers
      BY DEF TypeOK, Operations
    <2>2. t \in Tokens /\ t \in DrawnBy(entries[q])
      BY <2>1 DEF TypeOK, DrawnBy
    <2>3. \A k \in Layers : <<k, {t}>> \notin frame.ops
      BY <1>h, <2>2 DEF Fresh, Unseen
    <2>4. PICK d \in Documents, m \in Layers : t \in doc'[d][m]
      BY DEF Drawn, DrawnBy
    <2>5. t \in doc[d][m]
      BY <1>g, <2>2, <2>3, <2>4
    <2>6. Drawn(t)
      BY <2>5 DEF Drawn, DrawnBy
    <2>7. ~Arrived(q, o)
      BY <2>6 DEF Replacing
    <2>8. q = p /\ o \in frame.ops
      BY <1>c, <1>d, <2>7 DEF Arrived
    <2>9. m = o[1] /\ d \in OwnDocument(p)
      BY <2>1, <2>2, <2>5, <2>8 DEF Snapshot
    <2>10. d = frame.document
      BY <1>b, <2>8, <2>9 DEF InSession, OwnDocument, Publishing
    <2>11. t \notin Written(doc[d], frame.ops)[o[1]]
      BY <1>b, <1>f, <2>1, <2>3, <2>8, WrittenOver
    <2> QED
      BY <1>e, <2>4, <2>9, <2>10, <2>11
  <1>12. Informed(q)'
    BY <1>1, <1>2, <1>3, StaysInformed DEF TypeOK, Publishing
  <1>13. Condemned(q)'
    <2>0. OwnDocument(q)' = OwnDocument(q) /\ OwnDocument(q) \subseteq Documents
      BY DEF TypeOK, OwnDocument, Bindings
    <2> SUFFICES ASSUME NEW t \in Tokens, <<t, "data">> \in doomed[q]
                 PROVE  /\ pc[q] \in {"prune", "tidy"} => ~Drawn(t)'
                        /\ pc[q] = "expire" => \A d \in OwnDocument(q) : t \notin DrawnBy(doc'[d])
      BY <2>0 DEF Condemned
    <2>1. \A k \in Layers : <<k, {t}>> \notin frame.ops
      BY <1>h DEF Fresh, Unseen
    <2> QED
      BY <1>i, <2>0, <2>1 DEF Condemned, Drawn
  <1>14. Expiring(q)'
    BY DEF TypeOK, Expiring, Unused
  <1> QED
    BY <1>10, <1>11, <1>12, <1>13, <1>14

LEMMA LoseKeeps ==
    ASSUME IInv, NEW p \in Publishers, Lose(p)
    PROVE  IInv'
  <1> USE DEF IInv, Sound, Lose, files, session, house, Move, Reading, Add
  <1>1. TypeOK'
    BY DEF TypeOK, Steps, Bindings, Tag, Frames
  <1>2. StaysYoung /\ NoStranger
    BY DEF TypeOK, StaysYoung, Young, NoStranger
  <1>3. Aloof
    BY DEF TypeOK, Aloof, Unseen, Drawn
  <1>4. Receding
    <2> SUFFICES ASSUME NEW r \in Publishers, NEW k \in Layers, NEW t \in Tokens
                 PROVE  /\ InFlight(r, <<k, {t}>>)' => InFlight(r, <<k, {t}>>)
                        /\ <<k, t>> \in untagged'[r] => <<k, t>> \in untagged[r]
                        /\ Holds(r, k, t)' => Holds(r, k, t)
      BY DEF Receding
    <2>1. InFlight(r, <<k, {t}>>)' => InFlight(r, <<k, {t}>>)
      BY DEF TypeOK, InFlight, InSession
    <2>2. Holds(r, k, t)' => Holds(r, k, t)
      BY DEF TypeOK, Holds
    <2>3. <<k, t>> \in untagged'[r] => <<k, t>> \in untagged[r]
      BY DEF TypeOK
    <2> QED
      BY <2>1, <2>2, <2>3
  <1>5. Afloat' /\ Unique' /\ Unminted'
    BY FilesStay, <1>3, <1>4
  <1>6. Single' /\ Snapshot' /\ Located'
    BY DEF Single, Snapshot, Located, OwnDocument
  <1> SUFFICES ASSUME NEW q \in Publishers PROVE Sound(q)'
    BY <1>1, <1>2, <1>3, <1>4, <1>5, <1>6
  <1>7. Informed(q)'
    BY <1>1, <1>2, StaysInformed DEF TypeOK, Publishing
  <1>8. InSession(q)'
    BY DEF TypeOK, InSession, Deleting, OwnDocument
  <1>9. Replacing(q)'
    BY DEF TypeOK, Replacing, Publishing, Arrived, Drawn
  <1>10. Condemned(q)'
    BY DEF TypeOK, Condemned, OwnDocument, Drawn
  <1>11. Expiring(q)'
    BY DEF TypeOK, Expiring, Unused
  <1> QED
    BY <1>7, <1>8, <1>9, <1>10, <1>11

LEMMA ReceiveAckKeeps ==
    ASSUME IInv, NEW p \in Publishers, ReceiveAck(p)
    PROVE  IInv'
  <1> USE DEF IInv, Sound, ReceiveAck, files, session, house, Move, Reading, Add
  <1>a. PICK f \in wire[p] : f.applied /\ unsent' = [unsent EXCEPT ![p] = @ \ f.ops]
    OBVIOUS
  <1>b. /\ wire[p] = {f} /\ wire'[p] = {} /\ unsent'[p] = unsent[p] \ f.ops
        /\ pc[p] = "ack" /\ pc'[p] = "layers"
    BY <1>a, OnTheWire DEF TypeOK
  <1>1. TypeOK'
    BY DEF TypeOK, Steps, Bindings, Tag, Frames
  <1>2. StaysYoung /\ NoStranger
    BY DEF TypeOK, StaysYoung, Young, NoStranger
  <1>3. Aloof
    BY DEF TypeOK, Aloof, Unseen, Drawn
  <1>4. Receding
    <2> SUFFICES ASSUME NEW r \in Publishers, NEW k \in Layers, NEW t \in Tokens
                 PROVE  /\ InFlight(r, <<k, {t}>>)' => InFlight(r, <<k, {t}>>)
                        /\ <<k, t>> \in untagged'[r] => <<k, t>> \in untagged[r]
                        /\ Holds(r, k, t)' => Holds(r, k, t)
      BY DEF Receding
    <2>1. CASE r = p
      BY <2>1, <1>a, <1>b DEF InFlight, Holds
    <2>2. CASE r # p
      BY <2>2 DEF TypeOK, InFlight, Holds
    <2> QED
      BY <2>1, <2>2
  <1>5. Afloat' /\ Unique' /\ Unminted'
    BY FilesStay, <1>3, <1>4
  <1>6. Single' /\ Snapshot' /\ Located'
    BY DEF Single, Snapshot, Located, OwnDocument
  <1> SUFFICES ASSUME NEW q \in Publishers PROVE Sound(q)'
    BY <1>1, <1>2, <1>3, <1>4, <1>5, <1>6
  <1>7. Replacing(q)'
    <2>1. CASE q = p
      BY <2>1, <1>a, <1>b DEF Replacing, Arrived, Drawn, Publishing
    <2>2. CASE q # p
      BY <2>2 DEF TypeOK, Replacing, Arrived, Drawn
    <2> QED
      BY <2>1, <2>2
  <1>8. Informed(q)'
    BY <1>1, <1>2, StaysInformed DEF TypeOK, Publishing
  <1>9. InSession(q)' /\ Condemned(q)' /\ Expiring(q)'
    BY DEF TypeOK, InSession, Condemned, Expiring, Deleting, OwnDocument, Drawn,
           Unused
  <1> QED
    BY <1>7, <1>8, <1>9

LEMMA PruneKeeps ==
    ASSUME IInv, NEW p \in Publishers, Prune(p)
    PROVE  IInv'
  <1> USE DEF IInv, Sound, Prune, files, session, house, Move, Reading, Add
  <1>a. \A t \in Replaced(entries[p], ops[p]) :
           t \in Tokens /\ t \in DrawnBy(entries[p]) /\ ~Drawn(t)
    <2> SUFFICES ASSUME NEW o \in ops[p], NEW t \in entries[p][o[1]]
                 PROVE  t \in Tokens /\ t \in DrawnBy(entries[p]) /\ ~Drawn(t)
      BY DEF Replaced
    <2>1. o[1] \in Layers
      BY DEF TypeOK, Operations
    <2>2. Arrived(p, o)
      BY DEF Arrived
    <2>3. pc[p] = "layers"
      OBVIOUS
    <2> QED
      BY <2>1, <2>2, <2>3 DEF TypeOK, DrawnBy, Replacing, Publishing
  <1>b. doomed'[p] = Both(Replaced(entries[p], ops[p]))
    BY DEF TypeOK
  <1>1. TypeOK'
    <2>1. Both(Replaced(entries[p], ops[p])) \in SUBSET Both(Tokens)
      BY <1>a, BothTokens
    <2> QED
      BY <2>1 DEF TypeOK, Steps
  <1>2. StaysYoung /\ NoStranger
    BY DEF TypeOK, StaysYoung, Young, NoStranger
  <1>3. Aloof
    <2> SUFFICES ASSUME NEW t \in Tokens, Unseen(t), Young(t)
                 PROVE  Unseen(t)'
      BY DEF Aloof
    <2>1. t \notin Replaced(entries[p], ops[p])
      BY <1>a DEF Unseen
    <2>2. <<t, "data">> \notin doomed'[p] /\ <<t, "tag">> \notin doomed'[p]
      BY <1>b, <2>1, BothOf
    <2> QED
      BY <2>2 DEF TypeOK, Unseen, Drawn
  <1>4. Receding
    BY NothingSent DEF TypeOK
  <1>5. Afloat' /\ Unique' /\ Unminted'
    BY FilesStay, <1>3, <1>4
  <1>6. Single' /\ Snapshot' /\ Located'
    BY DEF Single, Snapshot, Located, OwnDocument
  <1> SUFFICES ASSUME NEW q \in Publishers PROVE Sound(q)'
    BY <1>1, <1>2, <1>3, <1>4, <1>5, <1>6
  <1>7. Informed(q)'
    BY <1>1, <1>2, StaysInformed DEF TypeOK, Publishing
  <1>8. Condemned(q)'
    <2>1. CASE q = p
      BY <2>1, <1>a, BothOf DEF TypeOK, Condemned, Drawn
    <2>2. CASE q # p
      BY <2>2 DEF TypeOK, Condemned, OwnDocument, Drawn
    <2> QED
      BY <2>1, <2>2
  <1>9. InSession(q)' /\ Replacing(q)' /\ Expiring(q)'
    BY DEF TypeOK, InSession, Replacing, Expiring, Deleting, OwnDocument,
           Publishing, Arrived, Drawn, Unused
  <1> QED
    BY <1>7, <1>8, <1>9

LEMMA FailKeeps ==
    ASSUME IInv, NEW p \in Publishers, Fail(p)
    PROVE  IInv'
  <1> USE DEF IInv, Sound, Fail, files, session, house, Move, Reading, Add
  <1>1. TypeOK'
    BY DEF TypeOK, Steps, Bindings, Tag, Frames
  <1>2. StaysYoung /\ NoStranger
    BY DEF TypeOK, StaysYoung, Young, NoStranger
  <1>3. Aloof
    BY DEF TypeOK, Aloof, Unseen, Drawn
  <1>4. Receding
    BY NothingSent DEF TypeOK
  <1>5. Afloat' /\ Unique' /\ Unminted'
    BY FilesStay, <1>3, <1>4
  <1>6. Single' /\ Snapshot' /\ Located'
    BY DEF Single, Snapshot, Located, OwnDocument
  <1> SUFFICES ASSUME NEW q \in Publishers PROVE Sound(q)'
    BY <1>1, <1>2, <1>3, <1>4, <1>5, <1>6
  <1>7. Informed(q)'
    BY <1>1, <1>2, StaysInformed DEF TypeOK, Publishing
  <1>8. InSession(q)'
    BY DEF TypeOK, InSession, Deleting, OwnDocument
  <1>9. Replacing(q)'
    BY DEF TypeOK, Replacing, Publishing, Arrived, Drawn
  <1>10. Condemned(q)'
    BY DEF TypeOK, Condemned, OwnDocument, Drawn
  <1>11. Expiring(q)'
    BY DEF TypeOK, Expiring, Unused
  <1> QED
    BY <1>7, <1>8, <1>9, <1>10, <1>11

LEMMA UnlinkDataKeeps ==
    ASSUME IInv, NEW p \in Publishers, NEW x \in Tokens, UnlinkData(p, x)
    PROVE  IInv'
  <1> USE DEF IInv, Sound, UnlinkData, files, session, house, Move, Reading, Add
  <1>1. TypeOK'
    BY DEF TypeOK, Steps, Bindings, Tag, Frames
  <1>2. StaysYoung /\ NoStranger
    BY DEF TypeOK, StaysYoung, Young, NoStranger
  <1>3. Aloof
    BY DEF TypeOK, Aloof, Unseen, Drawn
  <1>4. Receding
    BY NothingSent DEF TypeOK
  <1>5. Afloat' /\ Unique' /\ Unminted'
    BY FilesStay, <1>3, <1>4
  <1>6. Single' /\ Snapshot' /\ Located'
    BY DEF Single, Snapshot, Located, OwnDocument
  <1> SUFFICES ASSUME NEW q \in Publishers PROVE Sound(q)'
    BY <1>1, <1>2, <1>3, <1>4, <1>5, <1>6
  <1>7. Informed(q)'
    BY <1>1, <1>2, StaysInformed DEF TypeOK, Publishing
  <1>8. InSession(q)'
    BY DEF TypeOK, InSession, Deleting, OwnDocument
  <1>9. Replacing(q)'
    BY DEF TypeOK, Replacing, Publishing, Arrived, Drawn
  <1>10. Condemned(q)'
    BY DEF TypeOK, Condemned, OwnDocument, Drawn
  <1>11. Expiring(q)'
    BY DEF TypeOK, Expiring, Unused
  <1> QED
    BY <1>7, <1>8, <1>9, <1>10, <1>11

LEMMA UnlinkTagKeeps ==
    ASSUME IInv, NEW p \in Publishers, NEW x \in Tokens, UnlinkTag(p, x)
    PROVE  IInv'
  <1> USE DEF IInv, Sound, UnlinkTag, files, session, house, Move, Reading, Add
  <1>1. TypeOK'
    BY DEF TypeOK, Steps, Bindings, Tag, Frames
  <1>2. StaysYoung /\ NoStranger
    BY DEF TypeOK, StaysYoung, Young, NoStranger
  <1>3. Aloof
    BY DEF TypeOK, Aloof, Unseen, Drawn
  <1>4. Receding
    BY NothingSent DEF TypeOK
  <1>5. Afloat' /\ Unique' /\ Unminted'
    BY FilesStay, <1>3, <1>4
  <1>6. Single' /\ Snapshot' /\ Located'
    BY DEF Single, Snapshot, Located, OwnDocument
  <1> SUFFICES ASSUME NEW q \in Publishers PROVE Sound(q)'
    BY <1>1, <1>2, <1>3, <1>4, <1>5, <1>6
  <1>7. Informed(q)'
    BY <1>1, <1>2, StaysInformed DEF TypeOK, Publishing
  <1>8. InSession(q)'
    BY DEF TypeOK, InSession, Deleting, OwnDocument
  <1>9. Replacing(q)'
    BY DEF TypeOK, Replacing, Publishing, Arrived, Drawn
  <1>10. Condemned(q)'
    BY DEF TypeOK, Condemned, OwnDocument, Drawn
  <1>11. Expiring(q)'
    BY DEF TypeOK, Expiring, Unused
  <1> QED
    BY <1>7, <1>8, <1>9, <1>10, <1>11

LEMMA CloseKeeps ==
    ASSUME IInv, NEW p \in Publishers, Close(p)
    PROVE  IInv'
  <1> USE DEF IInv, Sound, Close, files, session, house, Move, Reading, Add
  <1>a. entries[p] \in [Layers -> SUBSET Tokens] /\ ops[p] \in SUBSET Operations
    BY DEF TypeOK
  <1>1. TypeOK'
    <2>1. Named(entries[p], ops[p]) \subseteq Tokens
      BY <1>a, DrawnByTokens, WrittenIsOldOrNew DEF Named
    <2>2. OwnDocument(p) \subseteq Documents
      BY DEF TypeOK, OwnDocument, Bindings
    <2> QED
      BY <2>1, <2>2 DEF TypeOK, Steps
  <1>2. StaysYoung /\ NoStranger
    BY DEF TypeOK, StaysYoung, Young, NoStranger
  <1>3. Aloof
    BY DEF TypeOK, Aloof, Unseen, Drawn
  <1>4. Receding
    BY NothingSent DEF TypeOK
  <1>5. Afloat' /\ Unique' /\ Unminted'
    BY FilesStay, <1>3, <1>4
  <1>6. Single' /\ Snapshot' /\ Located'
    BY DEF Single, Snapshot, Located, OwnDocument
  <1> SUFFICES ASSUME NEW q \in Publishers PROVE Sound(q)'
    BY <1>1, <1>2, <1>3, <1>4, <1>5, <1>6
  <1>7. Informed(q)'
    <2>1. CASE q = p
      <3>1. \A d \in OwnDocument(p) : Knows(DrawnBy(entries[p]), d)
        BY DEF Informed, Publishing
      <3>2. \A d \in Documents : Knows(DrawnBy(entries[p]), d) =>
               Knows(Named(entries[p], ops[p]), d)
        <4> SUFFICES ASSUME NEW d \in Documents, NEW t \in DrawnBy(doc[d]),
                            t \in DrawnBy(entries[p]), t \notin Named(entries[p], ops[p])
                     PROVE  FALSE
          BY DEF Knows
        <4>1. PICK k \in Layers : t \in entries[p][k]
          BY DEF DrawnBy
        <4>2. t \notin Written(entries[p], ops[p])[k]
          BY DEF Named, DrawnBy
        <4>3. PICK o \in ops[p] : o[1] = k
          BY <1>a, <4>1, <4>2, WrittenIsOldOrNew
        <4>4. Arrived(p, o)
          BY DEF Arrived, InSession
        <4>5. ~Drawn(t)
          BY <4>1, <4>3, <4>4 DEF Replacing, Publishing
        <4> QED
          BY <4>5 DEF Drawn
      <3>3. /\ verified'[p] = Named(entries[p], ops[p])
            /\ referenced'[p] = Named(entries[p], ops[p])
            /\ target'[p] = OwnDocument(p)
            /\ pc'[p] = "reconcile" /\ bound'[p] = bound[p]
        BY DEF TypeOK
      <3> QED
        BY <2>1, <3>1, <3>2, <3>3, <1>1, <1>2, KnowledgeLasts
        DEF Publishing, Informed, Knows
    <2>2. CASE q # p
      BY <2>2, <1>1, <1>2, StaysInformed DEF TypeOK, Publishing
    <2> QED
      BY <2>1, <2>2
  <1>8. InSession(q)'
    BY DEF TypeOK, InSession, Deleting, OwnDocument
  <1>9. Replacing(q)'
    BY DEF TypeOK, Replacing, Publishing, Arrived, Drawn
  <1>10. Condemned(q)'
    BY DEF TypeOK, Condemned, OwnDocument, Drawn
  <1>11. Expiring(q)'
    BY DEF TypeOK, Expiring, Unused
  <1> QED
    BY <1>7, <1>8, <1>9, <1>10, <1>11

LEMMA ReconcileKeeps ==
    ASSUME IInv, NEW p \in Publishers, Reconcile(p)
    PROVE  IInv'
  <1> USE DEF IInv, Sound, Reconcile, files, session, house, Move, Reading, Add
  <1> USE DEF TagsOf
  <1>a. PICK d \in target[p] : doomed' = [doomed EXCEPT ![p] = Both(TagsOf(d) \ referenced[p])]
    OBVIOUS
  <1>b. d \in Documents /\ doomed'[p] = Both(TagsOf(d) \ referenced[p])
    BY <1>a DEF TypeOK
  <1>1. TypeOK'
    <2>1. Both(TagsOf(d) \ referenced[p]) \in SUBSET Both(Tokens)
      BY BothTokens
    <2> QED
      BY <1>a, <2>1 DEF TypeOK, Steps
  <1>2. StaysYoung /\ NoStranger
    BY DEF TypeOK, StaysYoung, Young, NoStranger
  <1>3. Aloof
    <2> SUFFICES ASSUME NEW t \in Tokens, Unseen(t), Young(t)
                 PROVE  Unseen(t)' /\ data'[t] = data[t] /\ tags'[t] = tags[t]
      BY DEF Aloof
    <2>1. t \notin TagsOf(d)
      BY YoungIsNotOld
    <2>2. data'[t] = data[t]
      BY DEF TypeOK, Young
    <2>3. Unseen(t)'
      BY <1>a, <1>b, <2>1, BothOf DEF TypeOK, Unseen, Drawn
    <2> QED
      BY <2>2, <2>3
  <1>4. Receding
    BY NothingSent DEF TypeOK
  <1>5. Afloat' /\ Unique' /\ Unminted'
    BY FilesStay, <1>3, <1>4
  <1>6. Single' /\ Snapshot' /\ Located'
    BY DEF Single, Snapshot, Located, OwnDocument
  <1> SUFFICES ASSUME NEW q \in Publishers PROVE Sound(q)'
    BY <1>1, <1>2, <1>3, <1>4, <1>5, <1>6
  <1>7. Informed(q)'
    BY <1>1, <1>2, StaysInformed DEF TypeOK, Publishing
  <1>8. Condemned(q)'
    <2>1. CASE q = p
      <3>0. pc'[p] = "tidy"
        BY DEF TypeOK
      <3> SUFFICES ASSUME NEW t \in Tokens, <<t, "data">> \in doomed'[p], Drawn(t)
                   PROVE  FALSE
        BY <2>1, <3>0 DEF Condemned, Drawn
      <3> t \in TagsOf(d) /\ t \notin referenced[p]
        BY <1>b, BothOf
      <3>1. PICK e \in Documents : t \in DrawnBy(doc[e])
        BY DEF Drawn
      <3>2. e = d
        BY <3>1, DrawnByLayers DEF Located
      <3>3. Young(t)
        BY <3>1, <3>2 DEF Informed, Knows
      <3> QED
        BY <3>3, YoungIsNotOld
    <2>2. CASE q # p
      BY <1>a, <2>2 DEF TypeOK, Condemned, OwnDocument, Drawn
    <2> QED
      BY <2>1, <2>2
  <1>9. Expiring(q)'
    <2>1. ASSUME NEW t \in Tokens, NEW u \in data'[t], Unused(u)'
          PROVE  u \in data[t] /\ Unused(u)
      BY <2>1, NowIsNotOld DEF TypeOK, Unused
    <2> QED
      BY <2>1, <1>a DEF TypeOK, Expiring
  <1>10. InSession(q)' /\ Replacing(q)'
    BY DEF TypeOK, InSession, Replacing, Deleting, OwnDocument, Publishing,
           Arrived, Drawn
  <1> QED
    BY <1>7, <1>8, <1>9, <1>10

LEMMA ChooseDocumentsKeeps ==
    ASSUME IInv, NEW p \in Publishers, ChooseDocuments(p)
    PROVE  IInv'
  <1> USE DEF IInv, Sound, ChooseDocuments, files, session, house, Move, Reading, Add
  <1>1. TypeOK'
    BY DEF TypeOK, Steps, Others
  <1>2. StaysYoung /\ NoStranger
    BY DEF TypeOK, StaysYoung, Young, NoStranger
  <1>3. Aloof
    BY DEF TypeOK, Aloof, Unseen, Drawn
  <1>4. Receding
    BY NothingSent DEF TypeOK
  <1>5. Afloat' /\ Unique' /\ Unminted'
    BY FilesStay, <1>3, <1>4
  <1>6. Single' /\ Snapshot' /\ Located'
    BY DEF Single, Snapshot, Located, OwnDocument
  <1> SUFFICES ASSUME NEW q \in Publishers PROVE Sound(q)'
    BY <1>1, <1>2, <1>3, <1>4, <1>5, <1>6
  <1>7. Informed(q)'
    BY <1>1, <1>2, StaysInformed DEF TypeOK, Publishing
  <1>8. InSession(q)'
    BY DEF TypeOK, InSession, Deleting, OwnDocument
  <1>9. Replacing(q)'
    BY DEF TypeOK, Replacing, Publishing, Arrived, Drawn
  <1>10. Condemned(q)'
    BY DEF TypeOK, Condemned, OwnDocument, Drawn
  <1>11. Expiring(q)'
    BY DEF TypeOK, Expiring, Unused
  <1> QED
    BY <1>7, <1>8, <1>9, <1>10, <1>11

LEMMA SweepOnKeeps ==
    ASSUME IInv, NEW p \in Publishers, SweepOn(p)
    PROVE  IInv'
  <1> USE DEF IInv, Sound, SweepOn, files, session, house, Move, Reading, Add
  <1>1. TypeOK'
    BY DEF TypeOK, Steps, Bindings, Tag, Frames
  <1>2. StaysYoung /\ NoStranger
    BY DEF TypeOK, StaysYoung, Young, NoStranger
  <1>3. Aloof
    BY DEF TypeOK, Aloof, Unseen, Drawn
  <1>4. Receding
    BY NothingSent DEF TypeOK
  <1>5. Afloat' /\ Unique' /\ Unminted'
    BY FilesStay, <1>3, <1>4
  <1>6. Single' /\ Snapshot' /\ Located'
    BY DEF Single, Snapshot, Located, OwnDocument
  <1> SUFFICES ASSUME NEW q \in Publishers PROVE Sound(q)'
    BY <1>1, <1>2, <1>3, <1>4, <1>5, <1>6
  <1>7. Informed(q)'
    BY <1>1, <1>2, StaysInformed DEF TypeOK, Publishing
  <1>8. InSession(q)'
    BY DEF TypeOK, InSession, Deleting, OwnDocument
  <1>9. Replacing(q)'
    BY DEF TypeOK, Replacing, Publishing, Arrived, Drawn
  <1>10. Condemned(q)'
    BY DEF TypeOK, Condemned, OwnDocument, Drawn
  <1>11. Expiring(q)'
    BY DEF TypeOK, Expiring, Unused
  <1> QED
    BY <1>7, <1>8, <1>9, <1>10, <1>11

LEMMA RejoinKeeps ==
    ASSUME IInv, NEW p \in Publishers, NEW d \in Documents, Rejoin(p, d)
    PROVE  IInv'
  <1> USE DEF IInv, Sound, Rejoin, files, session, house, Move, Reading, Add
  <1>1. TypeOK'
    <2>1. \A layers \in [Layers -> SUBSET Tokens] : DrawnBy(layers) \in SUBSET Tokens
      BY ONLY DrawnByTokens
    <2>2. DrawnBy(doc[d]) \in SUBSET Tokens
      BY <2>1 DEF TypeOK
    <2> QED
      BY <2>2 DEF TypeOK, Steps
  <1>2. StaysYoung /\ NoStranger
    BY DEF TypeOK, StaysYoung, Young, NoStranger
  <1>3. Aloof
    BY DEF TypeOK, Aloof, Unseen, Drawn
  <1>4. Receding
    BY NothingSent DEF TypeOK
  <1>5. Afloat' /\ Unique' /\ Unminted'
    BY FilesStay, <1>3, <1>4
  <1>6. Single' /\ Snapshot' /\ Located'
    BY DEF Single, Snapshot, Located, OwnDocument
  <1> SUFFICES ASSUME NEW q \in Publishers PROVE Sound(q)'
    BY <1>1, <1>2, <1>3, <1>4, <1>5, <1>6
  <1>7. Informed(q)'
    <2>1. CASE q = p
      <3>1. /\ verified'[p] = verified[p] \cup DrawnBy(doc[d])
            /\ referenced'[p] = DrawnBy(doc[d])
            /\ target'[p] = {d}
            /\ pc[p] = "sweep" /\ pc'[p] = "reconcile" /\ bound'[p] = bound[p]
        BY DEF TypeOK
      <3> QED
        BY <2>1, <3>1, <1>1, <1>2, KnowledgeLasts DEF Publishing, Informed, Knows
    <2>2. CASE q # p
      BY <2>2, <1>1, <1>2, StaysInformed DEF TypeOK, Publishing
    <2> QED
      BY <2>1, <2>2
  <1>8. InSession(q)' /\ Replacing(q)' /\ Condemned(q)' /\ Expiring(q)'
    BY DEF TypeOK, InSession, Replacing, Condemned, Expiring, Deleting,
           OwnDocument, Publishing, Arrived, Drawn, Unused
  <1> QED
    BY <1>7, <1>8

LEMMA RejoinRefusedKeeps ==
    ASSUME IInv, NEW p \in Publishers, NEW d \in Documents,
           RejoinRefused(p, d)
    PROVE  IInv'
  <1> USE DEF IInv, Sound, RejoinRefused, files, session, house, Move, Reading, Add
  <1>1. TypeOK'
    BY DEF TypeOK, Steps, Bindings, Tag, Frames
  <1>2. StaysYoung /\ NoStranger
    BY DEF TypeOK, StaysYoung, Young, NoStranger
  <1>3. Aloof
    BY DEF TypeOK, Aloof, Unseen, Drawn
  <1>4. Receding
    BY NothingSent DEF TypeOK
  <1>5. Afloat' /\ Unique' /\ Unminted'
    BY FilesStay, <1>3, <1>4
  <1>6. Single' /\ Snapshot' /\ Located'
    BY DEF Single, Snapshot, Located, OwnDocument
  <1> SUFFICES ASSUME NEW q \in Publishers PROVE Sound(q)'
    BY <1>1, <1>2, <1>3, <1>4, <1>5, <1>6
  <1>7. Informed(q)'
    BY <1>1, <1>2, StaysInformed DEF TypeOK, Publishing
  <1>8. InSession(q)'
    BY DEF TypeOK, InSession, Deleting, OwnDocument
  <1>9. Replacing(q)'
    BY DEF TypeOK, Replacing, Publishing, Arrived, Drawn
  <1>10. Condemned(q)'
    BY DEF TypeOK, Condemned, OwnDocument, Drawn
  <1>11. Expiring(q)'
    BY DEF TypeOK, Expiring, Unused
  <1> QED
    BY <1>7, <1>8, <1>9, <1>10, <1>11

LEMMA ExpireKeeps ==
    ASSUME IInv, NEW p \in Publishers, Expire(p)
    PROVE  IInv'
  <1> USE DEF IInv, Sound, Expire, files, session, house, Move, Reading, Add
  <1>a. \A t \in Tokens : Young(t) => t \notin UnusedData
    BY YoungIsNotOld DEF UnusedData
  <1>1. TypeOK'
    <2>1. Both(UnusedData \ verified[p]) \in SUBSET Both(Tokens)
      BY BothTokens DEF UnusedData
    <2> QED
      BY <2>1 DEF TypeOK, Steps
  <1>2. StaysYoung /\ NoStranger
    BY DEF TypeOK, StaysYoung, Young, NoStranger
  <1>3. Aloof
    <2> SUFFICES ASSUME NEW t \in Tokens, Unseen(t), Young(t)
                 PROVE  Unseen(t)'
      BY DEF Aloof
    <2>1. doomed'[p] = Both(UnusedData \ verified[p])
      BY DEF TypeOK
    <2>2. <<t, "data">> \notin doomed'[p] /\ <<t, "tag">> \notin doomed'[p]
      BY <1>a, <2>1, BothOf
    <2> QED
      BY <2>2 DEF TypeOK, Unseen, Drawn
  <1>4. Receding
    BY NothingSent DEF TypeOK
  <1>5. Afloat' /\ Unique' /\ Unminted'
    BY FilesStay, <1>3, <1>4
  <1>6. Single' /\ Snapshot' /\ Located'
    BY DEF Single, Snapshot, Located, OwnDocument
  <1> SUFFICES ASSUME NEW q \in Publishers PROVE Sound(q)'
    BY <1>1, <1>2, <1>3, <1>4, <1>5, <1>6
  <1>7. Informed(q)'
    BY <1>1, <1>2, StaysInformed DEF TypeOK, Publishing
  <1>8. Condemned(q)'
    <2>1. CASE q = p
      <3>1. \A d \in OwnDocument(p) : \A t \in DrawnBy(doc[d]) : t \in verified[p] \/ Young(t)
        BY DEF Informed, Knows
      <3>2. doomed'[p] = Both(UnusedData \ verified[p])
        BY DEF TypeOK
      <3>3. OwnDocument(p)' = OwnDocument(p)
        BY DEF OwnDocument
      <3> QED
        BY <1>a, <2>1, <3>1, <3>2, <3>3, BothOf DEF TypeOK, Condemned
    <2>2. CASE q # p
      BY <2>2 DEF TypeOK, Condemned, OwnDocument, Drawn
    <2> QED
      BY <2>1, <2>2
  <1>9. Expiring(q)'
    <2>1. CASE q = p
      BY <2>1, BothOf DEF TypeOK, Expiring, UnusedData, Unused
    <2>2. CASE q # p
      BY <2>2 DEF TypeOK, Expiring, Unused
    <2> QED
      BY <2>1, <2>2
  <1>10. InSession(q)' /\ Replacing(q)'
    BY DEF TypeOK, InSession, Replacing, Deleting, OwnDocument, Publishing,
           Arrived, Drawn
  <1> QED
    BY <1>7, <1>8, <1>9, <1>10

LEMMA FinishKeeps ==
    ASSUME IInv, NEW p \in Publishers, Finish(p)
    PROVE  IInv'
  <1> USE DEF IInv, Sound, Finish, files, session, house, Move, Reading, Add
  <1>1. TypeOK'
    BY DEF TypeOK, Steps, Bindings, Tag, Frames
  <1>2. StaysYoung /\ NoStranger
    BY DEF TypeOK, StaysYoung, Young, NoStranger
  <1>3. Aloof
    BY DEF TypeOK, Aloof, Unseen, Drawn
  <1>4. Receding
    BY NothingSent DEF TypeOK
  <1>5. Afloat' /\ Unique' /\ Unminted'
    BY FilesStay, <1>3, <1>4
  <1>6. Single' /\ Snapshot' /\ Located'
    BY DEF Single, Snapshot, Located, OwnDocument
  <1> SUFFICES ASSUME NEW q \in Publishers PROVE Sound(q)'
    BY <1>1, <1>2, <1>3, <1>4, <1>5, <1>6
  <1>7. Informed(q)'
    BY <1>1, <1>2, StaysInformed DEF TypeOK, Publishing
  <1>8. InSession(q)'
    BY DEF TypeOK, InSession, Deleting, OwnDocument
  <1>9. Replacing(q)'
    BY DEF TypeOK, Replacing, Publishing, Arrived, Drawn
  <1>10. Condemned(q)'
    BY DEF TypeOK, Condemned, OwnDocument, Drawn
  <1>11. Expiring(q)'
    BY DEF TypeOK, Expiring, Unused
  <1> QED
    BY <1>7, <1>8, <1>9, <1>10, <1>11

LEMMA EndKeeps ==
    ASSUME IInv, NEW p \in Publishers, End(p)
    PROVE  IInv'
  <1> USE DEF IInv, Sound, End, files, session, house, Move, Reading, Add
  <1>a. /\ wire'[p] = {f \in wire[p] : ~f.applied} /\ unsent'[p] = {}
        /\ untagged'[p] = {} /\ pc'[p] = "idle"
    BY DEF TypeOK
  <1>1. TypeOK'
    BY DEF TypeOK, Steps, Bindings, Tag, Frames
  <1>2. StaysYoung /\ NoStranger
    BY DEF TypeOK, StaysYoung, Young, NoStranger
  <1>3. Aloof
    <2> SUFFICES ASSUME NEW t \in Tokens, Unseen(t), Young(t)
                 PROVE  Unseen(t)'
      BY DEF Aloof
    <2>1. t \notin DrawnBy(entries'[p]) /\ doomed'[p] = {}
      BY DEF TypeOK, DrawnBy
    <2> QED
      BY <2>1 DEF TypeOK, Unseen, Drawn
  <1>4. Receding
    <2> SUFFICES ASSUME NEW r \in Publishers, NEW k \in Layers, NEW t \in Tokens
                 PROVE  /\ InFlight(r, <<k, {t}>>)' => InFlight(r, <<k, {t}>>)
                        /\ <<k, t>> \in untagged'[r] => <<k, t>> \in untagged[r]
                        /\ Holds(r, k, t)' => Holds(r, k, t)
      BY DEF Receding
    <2>1. CASE r = p
      BY <2>1, <1>a DEF InFlight, Holds
    <2>2. CASE r # p
      BY <2>2 DEF TypeOK, InFlight, Holds
    <2> QED
      BY <2>1, <2>2
  <1>5. Afloat' /\ Unique' /\ Unminted'
    BY FilesStay, <1>3, <1>4
  <1>6. Single'
    BY DEF Single
  <1>7. Snapshot'
    <2> SUFFICES ASSUME NEW r \in Publishers, NEW e \in Documents, NEW k \in Layers,
                        NEW m \in Layers, NEW t \in Tokens,
                        t \in entries'[r][k], t \in doc'[e][m]
                 PROVE  e \in OwnDocument(r)' /\ k = m
      BY DEF Snapshot
    <2>1. r # p /\ bound'[r] = bound[r]
      BY DEF TypeOK
    <2> QED
      BY <2>1 DEF TypeOK, Snapshot, OwnDocument
  <1>8. Located'
    <2>1. \A e \in Documents, k \in Layers, t \in Tokens :
             t \in doc'[e][k] => \A g \in tags'[t] : g.document = e
      BY DEF Located
    <2> SUFFICES ASSUME NEW r \in Publishers, NEW k \in Layers, NEW t \in Tokens
                 PROVE  /\ \A f \in wire'[r] : ~f.applied /\ <<k, {t}>> \in f.ops =>
                               \A g \in tags'[t] : g.document = f.document
                        /\ pc'[r] \in {"layers", "ack"} /\ <<k, {t}>> \in unsent'[r] =>
                               \A g \in tags'[t] : g.document \in OwnDocument(r)'
      BY <2>1 DEF Located
    <2>2a. wire'[r] \subseteq wire[r]
      BY <1>a DEF TypeOK
    <2>2. \A f \in wire'[r] : ~f.applied /\ <<k, {t}>> \in f.ops =>
             \A g \in tags'[t] : g.document = f.document
      BY <2>2a DEF Located
    <2>3. pc'[r] \in {"layers", "ack"} /\ <<k, {t}>> \in unsent'[r] =>
             \A g \in tags'[t] : g.document \in OwnDocument(r)'
      <3>1. CASE r = p
        BY <3>1, <1>a
      <3>2. CASE r # p
        BY <3>2 DEF TypeOK, Located, OwnDocument
      <3> QED
        BY <3>1, <3>2
    <2> QED
      BY <2>2, <2>3
  <1> SUFFICES ASSUME NEW q \in Publishers PROVE Sound(q)'
    BY <1>1, <1>2, <1>3, <1>4, <1>5, <1>6, <1>7, <1>8
  <1>9. Informed(q)'
    <2>1. CASE q = p
      BY <2>1 DEF TypeOK, Informed, Publishing
    <2>2. CASE q # p
      BY <2>2, <1>1, <1>2, StaysInformed DEF TypeOK, Publishing
    <2> QED
      BY <2>1, <2>2
  <1>10. InSession(q)' /\ Replacing(q)' /\ Condemned(q)' /\ Expiring(q)'
    BY DEF TypeOK, InSession, Replacing, Condemned, Expiring, Deleting,
           OwnDocument, Publishing, Arrived, Drawn, Unused
  <1> QED
    BY <1>9, <1>10

LEMMA RemoveKeeps ==
    ASSUME IInv, NEW d \in Documents, NEW l \in Layers, Remove(d, l)
    PROVE  IInv'
  <1> USE DEF IInv, Sound, Remove, files, session, house, Move, Reading, Add
  <1>a. \A e \in Documents : \A t : t \in DrawnBy(doc'[e]) => t \in DrawnBy(doc[e])
    <2>1. \A e \in Documents, k \in Layers : doc'[e][k] \subseteq doc[e][k]
      BY DEF TypeOK
    <2> QED
      BY <2>1 DEF DrawnBy
  <1>b. \A t : Drawn(t)' => Drawn(t)
    BY <1>a DEF Drawn
  <1>1. TypeOK'
    BY DEF TypeOK, Steps, Bindings, Tag, Frames
  <1>2. StaysYoung
    BY DEF TypeOK, StaysYoung, Young
  <1>3. NoStranger
    BY <1>a DEF NoStranger
  <1>4. Aloof
    BY <1>b DEF TypeOK, Aloof, Unseen
  <1>5. Receding
    BY NothingSent DEF TypeOK
  <1>6. Afloat' /\ Unique' /\ Unminted'
    BY FilesStay, <1>4, <1>5
  <1>7. Single' /\ Snapshot' /\ Located'
    BY DEF Single, Snapshot, Located, OwnDocument
  <1> SUFFICES ASSUME NEW q \in Publishers PROVE Sound(q)'
    BY <1>1, <1>2, <1>3, <1>4, <1>5, <1>6, <1>7
  <1>8. Replacing(q)'
    BY <1>b DEF TypeOK, Replacing, Arrived
  <1>9. Informed(q)'
    BY <1>1, <1>2, <1>3, StaysInformed DEF TypeOK, Publishing
  <1>10. Condemned(q)'
    <2>1. OwnDocument(q)' = OwnDocument(q) /\ OwnDocument(q) \subseteq Documents
      BY DEF TypeOK, OwnDocument, Bindings
    <2> SUFFICES ASSUME NEW t \in Tokens, <<t, "data">> \in doomed[q]
                 PROVE  /\ pc[q] \in {"prune", "tidy"} => ~Drawn(t)'
                        /\ pc[q] = "expire" => \A e \in OwnDocument(q) : t \notin DrawnBy(doc'[e])
      BY <2>1 DEF Condemned
    <2> QED
      BY <1>a, <1>b, <2>1 DEF Condemned
  <1>11. InSession(q)' /\ Expiring(q)'
    BY DEF TypeOK, InSession, Expiring, Deleting, OwnDocument, Unused
  <1> QED
    BY <1>8, <1>9, <1>10, <1>11

LEMMA FetchKeeps ==
    ASSUME IInv, NEW x \in Tokens, Fetch(x)
    PROVE  IInv'
  <1> USE DEF IInv, Sound, Fetch, files, session, house, Move, Reading, Add
  <1>1. TypeOK'
    BY DEF TypeOK, Steps, Bindings, Tag, Frames
  <1>2. StaysYoung /\ NoStranger
    BY DEF TypeOK, StaysYoung, Young, NoStranger
  <1>3. Aloof
    BY DEF TypeOK, Aloof, Unseen, Drawn
  <1>4. Receding
    BY NothingSent DEF TypeOK
  <1>5. Afloat' /\ Unique' /\ Unminted'
    BY FilesStay, <1>3, <1>4
  <1>6. Single' /\ Snapshot' /\ Located'
    BY DEF Single, Snapshot, Located, OwnDocument
  <1> SUFFICES ASSUME NEW q \in Publishers PROVE Sound(q)'
    BY <1>1, <1>2, <1>3, <1>4, <1>5, <1>6
  <1>7. Informed(q)'
    BY <1>1, <1>2, StaysInformed DEF TypeOK, Publishing
  <1>8. Expiring(q)'
    <2>1. ASSUME NEW t \in Tokens, NEW u \in data'[t], Unused(u)'
          PROVE  u \in data[t] /\ Unused(u)
      BY <2>1, NowIsNotOld DEF TypeOK, Unused
    <2> QED
      BY <2>1 DEF TypeOK, Expiring
  <1>9. InSession(q)'
    BY DEF TypeOK, InSession, Deleting, OwnDocument
  <1>10. Replacing(q)'
    BY DEF TypeOK, Replacing, Publishing, Arrived, Drawn
  <1>11. Condemned(q)'
    BY DEF TypeOK, Condemned, OwnDocument, Drawn
  <1> QED
    BY <1>7, <1>8, <1>9, <1>10, <1>11

LEMMA TickKeeps ==
    ASSUME IInv, Tick
    PROVE  IInv'
  <1> USE DEF IInv, Sound, Tick, files, session, house, Move, Reading, Add
  <1>a. \A r \in Publishers : \A o : ~InFlight(r, o)' /\ untagged[r] = {}
    BY DEF TypeOK, InFlight, InSession
  <1>b. Receding
    BY <1>a DEF Receding, Holds
  <1>1. TypeOK'
    BY DEF TypeOK, Steps, Bindings, Tag, Frames
  <1>2. Afloat'
    BY <1>a DEF Afloat
  <1>3. Unique'
    BY <1>b, HoldersStay
  <1>4. Unminted'
    BY DEF TypeOK, Unminted, Unseen, Drawn
  <1>5. Single' /\ Snapshot' /\ Located'
    BY DEF Single, Snapshot, Located, OwnDocument
  <1> SUFFICES ASSUME NEW q \in Publishers PROVE Sound(q)'
    BY <1>1, <1>2, <1>3, <1>4, <1>5
  <1>6. InSession(q)' /\ Replacing(q)' /\ Informed(q)' /\ Condemned(q)' /\ Expiring(q)'
    BY DEF TypeOK, InSession, Replacing, Informed, Condemned, Expiring, Deleting,
           OwnDocument, Publishing, Arrived, Drawn, Knows, Young, Unused
  <1> QED
    BY <1>6

-----------------------------------------------------------------------------
LEMMA StutterKeeps ==
    IInv /\ UNCHANGED vars => IInv'
  <1> SUFFICES ASSUME IInv, UNCHANGED vars PROVE IInv'
    OBVIOUS
  <1> USE DEF IInv, vars
  <1>1. TypeOK'
    BY DEF TypeOK
  <1>5. Single' /\ Snapshot' /\ Located'
    BY DEF Single, Snapshot, Located, OwnDocument
  <1>2. Aloof /\ StaysYoung /\ NoStranger
    BY DEF Aloof, StaysYoung, NoStranger, Young, Unseen, Drawn
  <1>3. Receding
    BY NothingSent
  <1>4. Afloat' /\ Unique' /\ Unminted'
    BY <1>2, <1>3, FilesStay
  <1>6. ASSUME NEW q \in Publishers
        PROVE  Sound(q)'
    <2>1. Sound(q)
      OBVIOUS
    <2>2. Informed(q)'
      BY <1>1, <1>2, <2>1, StaysInformed DEF Sound
    <2> QED
      BY <2>1, <2>2 DEF Sound, InSession, Replacing, Condemned, Expiring, Arrived,
                        Drawn, OwnDocument, Unused
  <1> QED
    BY <1>1, <1>4, <1>5, <1>6

LEMMA Invariance ==
    IInv /\ [Next]_vars => IInv'
  <1> SUFFICES ASSUME IInv, [Next]_vars PROVE IInv'
    OBVIOUS
  <1>1. ASSUME NEW p \in Publishers, Publish(p)
        PROVE  IInv'
    BY <1>1, OpenKeeps, SkipLayerKeeps, InlineLayerKeeps, WriteDataKeeps, WriteTagKeeps,
       SendFrameKeeps, ReceiveAckKeeps, PruneKeeps, FailKeeps, CloseKeeps,
       UnlinkDataKeeps, UnlinkTagKeeps, ReconcileKeeps, ChooseDocumentsKeeps,
       SweepOnKeeps, RejoinKeeps, RejoinRefusedKeeps, ExpireKeeps, FinishKeeps, EndKeeps
    DEF Publish
  <1>2. ASSUME NEW p \in Publishers, Apply(p) \/ Lose(p)
        PROVE  IInv'
    BY <1>2, ApplyKeeps, LoseKeeps
  <1>3. CASE Members
    BY <1>3, RemoveKeeps, FetchKeeps DEF Members
  <1> QED
    BY <1>1, <1>2, <1>3, TickKeeps, StutterKeeps DEF Next

LEMMA Initially ==
    Init => IInv
  <1> SUFFICES ASSUME Init PROVE IInv
    OBVIOUS
  <1> USE DEF Init
  <1>1. TypeOK
    BY DocumentAssumption DEF TypeOK, Steps
  <1>2. \A t : ~Drawn(t) /\ \A p \in Publishers : t \notin DrawnBy(entries[p])
    BY DEF Drawn, DrawnBy
  <1>3. Afloat /\ Unique
    BY DEF Afloat, Unique, InFlight, Holds
  <1>4. Unminted /\ Single /\ Snapshot /\ Located
    BY <1>2 DEF Unminted, Unseen, Single, Snapshot, Located
  <1>5. \A p \in Publishers : Sound(p)
    BY DEF Sound, InSession, Replacing, Informed, Condemned, Expiring,
           Publishing, Deleting
  <1> QED
    BY <1>1, <1>3, <1>4, <1>5 DEF IInv

LEMMA Promised ==
    IInv => TypeOK /\ InFlightDataKept /\ NothingLeftBehind
  <1>1. IInv => InFlightDataKept
    BY DEF IInv, Afloat, Fresh, InFlightDataKept
  <1>2. IInv => NothingLeftBehind
    BY DEF IInv, Sound, Expiring, NothingLeftBehind
  <1> QED
    BY <1>1, <1>2 DEF IInv

-----------------------------------------------------------------------------
(* A file of a publish in flight (waiting to be sent, or sent by one that  *)
(* gave up) is there with its tag, whatever the housekeeping of others     *)
(* does meanwhile (reconcile_document, expire_layer_data).                 *)
THEOREM InFlightIsKept ==
    Spec => []InFlightDataKept
  <1> QED
    BY Initially, Invariance, Promised, PTL DEF Spec

(* A publish that finished its housekeeping leaves no unconfirmed data     *)
(* file that nothing used for the maximum age (expire_layer_data).         *)
THEOREM NothingIsLeftBehind ==
    Spec => []NothingLeftBehind
  <1> QED
    BY Initially, Invariance, Promised, PTL DEF Spec

(* What one step does to a file that a document draws                      *)
Kept(t) == Drawn(t)' /\ data'[t] = {} =>
    \/ Drawn(t) /\ data[t] = {}
    \/ \E p \in Publishers : \E d \in Others(p) :
          /\ pc[p] = "expire" /\ <<t, "data">> \in doomed[p]
          /\ t \in DrawnBy(doc[d])

LEMMA AppliedIsKept ==
    ASSUME IInv, NEW p \in Publishers, Apply(p), NEW t \in Tokens
    PROVE  Kept(t)
  <1>1. PICK frame \in wire[p] :
           /\ ~frame.applied
           /\ doc' = [doc EXCEPT ![frame.document] = Written(@, frame.ops)]
           /\ data' = data
    BY DEF Apply, files
  <1>2. /\ frame.document \in Documents /\ frame.ops \in SUBSET Operations
        /\ \A d \in Documents : doc[d] \in [Layers -> SUBSET Tokens]
    BY OnTheWire DEF IInv, TypeOK
  <1>3. \A k \in Layers : <<k, {t}>> \in frame.ops => data[t] # {}
    <2> SUFFICES ASSUME NEW k \in Layers, <<k, {t}>> \in frame.ops
                 PROVE  data[t] # {}
      OBVIOUS
    <2>1. InFlight(p, <<k, {t}>>)
      BY <1>1 DEF InFlight
    <2> QED
      BY <2>1 DEF IInv, Afloat, Fresh
  <1>4. ASSUME NEW d \in Documents, NEW k \in Layers, t \in doc'[d][k], data[t] = {}
        PROVE  t \in doc[d][k]
    <2>1. \A j \in Layers : <<j, {t}>> \notin frame.ops
      BY <1>3, <1>4
    <2>2. doc'[d] = IF d = frame.document THEN Written(doc[d], frame.ops) ELSE doc[d]
      BY <1>1, <1>2 DEF IInv, TypeOK
    <2> QED
      BY <1>2, <1>4, <2>1, <2>2, WrittenIsOldOrNew
  <1> QED
    BY <1>1, <1>4 DEF Kept, Drawn, DrawnBy

LEMMA UnlinkedIsKept ==
    ASSUME IInv, NEW p \in Publishers, NEW x \in Tokens, UnlinkData(p, x), NEW t \in Tokens
    PROVE  Kept(t)
  <1>1. CASE t # x
    BY <1>1 DEF IInv, TypeOK, UnlinkData, Kept, Drawn
  <1>2. CASE t = x
    <2>1. <<t, "data">> \in doomed[p] /\ pc[p] \in {"prune", "tidy", "expire"}
      BY <1>2 DEF IInv, Sound, InSession, Deleting, UnlinkData
    <2> SUFFICES ASSUME Drawn(t)'
                 PROVE  /\ pc[p] = "expire"
                        /\ \E d \in Others(p) : t \in DrawnBy(doc[d])
      BY <2>1 DEF Kept
    <2>2. Drawn(t)
      BY DEF UnlinkData, Drawn
    <2>3. PICK d \in Documents : t \in DrawnBy(doc[d])
      BY <2>2 DEF Drawn
    <2> QED
      BY <2>1, <2>2, <2>3 DEF IInv, Sound, Condemned, Others
  <1> QED
    BY <1>1, <1>2

LEMMA DrawnStep ==
    ASSUME IInv, Next, NEW t \in Tokens
    PROVE  Kept(t)
  <1>1. ASSUME NEW p \in Publishers, Publish(p)
        PROVE  Kept(t)
    <2>1. CASE \E x \in Tokens : UnlinkData(p, x)
      BY <2>1, UnlinkedIsKept
    <2>2. CASE \E l \in Layers : WriteData(p, l)
      <3>1. data' = [data EXCEPT ![minted + 1] = {clock}]
        BY <2>2 DEF WriteData
      <3>2. data'[t] = {} => data[t] = {}
        BY <3>1 DEF IInv, TypeOK
      <3> QED
        BY <2>2, <3>2 DEF WriteData, Kept, Drawn
    <2>3. CASE Reconcile(p)
      <3>1. data'[t] = {} => data[t] = {}
        BY <2>3 DEF Reconcile
      <3> QED
        BY <2>3, <3>1 DEF Reconcile, Kept, Drawn
    <2>4. CASE UNCHANGED <<doc, data>>
      BY <2>4 DEF Kept, Drawn
    <2> QED
      BY <1>1, <2>1, <2>2, <2>3, <2>4
      DEF Publish, Open, SkipLayer, InlineLayer, WriteTag, SendFrame, ReceiveAck, Prune,
          Fail, Close, UnlinkTag, ChooseDocuments, SweepOn, Rejoin, RejoinRefused, Expire,
          Finish, End, files
  <1>2. ASSUME NEW p \in Publishers, Apply(p) \/ Lose(p)
        PROVE  Kept(t)
    <2>1. CASE Lose(p)
      BY <2>1 DEF Lose, files, Kept, Drawn
    <2> QED
      BY <1>2, <2>1, AppliedIsKept
  <1>3. ASSUME NEW d \in Documents, NEW l \in Layers, Remove(d, l)
        PROVE  Kept(t)
    <2>1. \A e \in Documents, k \in Layers : doc'[e][k] \subseteq doc[e][k]
      BY <1>3 DEF IInv, TypeOK, Remove
    <2>2. Drawn(t)' => Drawn(t)
      BY <2>1 DEF Drawn, DrawnBy
    <2> QED
      BY <1>3, <2>2 DEF Remove, files, Kept
  <1>4. ASSUME NEW x \in Tokens, Fetch(x)
        PROVE  Kept(t)
    <2>1. data'[t] = {} => data[t] = {}
      BY <1>4 DEF IInv, TypeOK, Fetch
    <2> QED
      BY <1>4, <2>1 DEF Fetch, Kept, Drawn
  <1>5. CASE Tick
    BY <1>5 DEF Tick, files, Kept, Drawn
  <1> QED
    BY <1>1, <1>2, <1>3, <1>4, <1>5 DEF Next, Members

(* A document's file is never missing: it is there when its operation is   *)
(* applied, and no prune or reconciliation takes away a file that any      *)
(* document draws; expiry may, and only from another document than the     *)
(* publish's own (prune_layer_data, reconcile_document,                    *)
(* expire_layer_data).                                                     *)
THEOREM DrawnIsKept ==
    Spec => DrawnDataKept
  <1>1. IInv /\ [Next]_vars => [\A t \in Tokens : Kept(t)]_vars
    BY DrawnStep
  <1>2. IInv /\ [Next]_vars => IInv'
    BY Invariance
  <1> QED
    BY <1>1, <1>2, Initially, PTL DEF Spec, DrawnDataKept, Kept
=============================================================================
