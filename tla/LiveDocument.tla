--------------------------- MODULE LiveDocument ---------------------------
(***************************************************************************)
(* api/live_document.py with core/agora.py's session: publishing layers    *)
(* into shared documents, and the files of features too large to travel    *)
(* inside one.                                                             *)
(*                                                                         *)
(* A document (agora's, external) maps layer ids to entries; all that      *)
(* matters here of an entry is which published file it draws from, if any. *)
(* A file is a token's data and its tag, two files in one directory.       *)
(* Publishers are requests of the server: their file operations run on its *)
(* event loop and in threads, so they interleave.                          *)
(*                                                                         *)
(* The ages below are a day and ninety days, and each wait of a publish    *)
(* has a timeout of seconds: the clock ticks while none is under way.      *)
(*                                                                         *)
(* Some definitions stand beside the one the code has (NamedByOps,         *)
(* OldWhenYoung, UnusedTagged): mistakes that a change to the code could   *)
(* make, which the properties below tell from the code.                    *)
(***************************************************************************)
EXTENDS Naturals, FiniteSets

CONSTANTS Publishers,           \* the publishes under way at once
          Documents,
          Layers,               \* layer ids
          UNREFERENCED_AGE,     \* UNREFERENCED_AGE_SECONDS, in ticks
          MAXIMUM_UNUSED_AGE,   \* MAXIMUM_UNUSED_AGE_SECONDS, in ticks
          SWEEP_DOCUMENT_LIMIT,
          Joining,              \* whether publishes may join as members, by a link
          MaxTokens,            \* bound: files published in a behaviour
          MaxClock              \* bound: ticks in a behaviour

ASSUME DocumentAssumption ==
    /\ UNREFERENCED_AGE \in Nat \ {0}
    /\ MAXIMUM_UNUSED_AGE \in Nat \ {0}
    /\ SWEEP_DOCUMENT_LIMIT \in Nat
    /\ Joining \subseteq BOOLEAN
    /\ MaxTokens \in Nat
    /\ MaxClock \in Nat

VARIABLES clock,
          doc,        \* each document's layers: the token each draws from, {} for none
          data,       \* each token's data file: {} or {when it was last used}
          tags,       \* each token's tag file: {} or {what it says}
          minted,     \* the tokens minted so far, numbered in order
          pc,         \* where each publish is
          bound,      \* the document it writes to, and whether as a member
          entries,    \* the layers it saw when it joined
          work,       \* the layers it has yet to read
          untagged,   \* the file it has written and not yet tagged, with its layer
          ops,        \* its operations: layer and token
          unsent,     \* those that were not acknowledged yet
          wire,       \* the frame on its connection, {} for none
          target,     \* the document it reconciles
          referenced, \* the tokens that document draws from
          verified,   \* the tokens some document confirmed
          joins,      \* the other documents it has yet to rejoin
          doomed      \* the files it is about to delete

files == <<data, tags, minted>>
session == <<bound, entries, work, untagged, ops, unsent>>
house == <<target, referenced, verified, joins>>
vars == <<clock, doc, data, tags, minted, pc, bound, entries, work, untagged, ops,
          unsent, wire, target, referenced, verified, joins, doomed>>

Tokens == 1..MaxTokens

Move(p, step) == pc' = [pc EXCEPT ![p] = step]

DrawnBy(layers) == UNION {layers[l] : l \in Layers}
Drawn(t) == \E d \in Documents : t \in DrawnBy(doc[d])

(* agora puts a frame's operations in the place of the entries they name.  *)
Written(layers, operations) ==
    [l \in Layers |->
        LET new == {o[2] : o \in {q \in operations : q[1] = l}}
        IN  IF new = {} THEN layers[l] ELSE UNION new]

NamedByOps(layers, operations) == UNION {o[2] : o \in operations}
(* referenced_layer_data *)
Named(layers, operations) == DrawnBy(Written(layers, operations))

(* replaced_layer_data *)
Replaced(layers, operations) == UNION {layers[o[1]] : o \in operations}

OldWhenYoung(at) == clock - at >= UNREFERENCED_AGE - 1
Old(at) == clock - at >= UNREFERENCED_AGE
Unused(at) == clock - at >= MAXIMUM_UNUSED_AGE

Both(tokens) == tokens \X {"data", "tag"}

-----------------------------------------------------------------------------
(* open_binding and open_session: the snapshot is what the publish knows   *)
(* of the document from here on.  A publish of the camera alone has no     *)
(* layers.                                                                 *)
Open(p, d, member) ==
    /\ pc[p] = "idle"
    /\ wire[p] = {}
    /\ bound' = [bound EXCEPT ![p] = {[document |-> d, member |-> member]}]
    /\ entries' = [entries EXCEPT ![p] = doc[d]]
    /\ \E ls \in SUBSET Layers : work' = [work EXCEPT ![p] = ls]
    /\ Move(p, "layers")
    /\ UNCHANGED <<clock, doc, files, untagged, ops, unsent, wire, house, doomed>>

Add(p, l, source) ==
    /\ ops' = [ops EXCEPT ![p] = @ \cup {<<l, source>>}]
    /\ unsent' = [unsent EXCEPT ![p] = @ \cup {<<l, source>>}]
    /\ work' = [work EXCEPT ![p] = @ \ {l}]

(* layer_operations: the layer cannot be published, or travels inside the  *)
(* document, or as a url of a file that store_layer_data writes.           *)
Reading(p) == pc[p] = "layers" /\ untagged[p] = {}

SkipLayer(p, l) ==
    /\ Reading(p)
    /\ l \in work[p]
    /\ work' = [work EXCEPT ![p] = @ \ {l}]
    /\ UNCHANGED <<clock, doc, files, pc, bound, entries, untagged, ops, unsent,
                   wire, house, doomed>>

InlineLayer(p, l) ==
    /\ Reading(p)
    /\ l \in work[p]
    /\ Add(p, l, {})
    /\ UNCHANGED <<clock, doc, files, pc, bound, entries, untagged, wire, house,
                   doomed>>

WriteData(p, l) ==
    /\ Reading(p)
    /\ l \in work[p]
    /\ minted < MaxTokens
    /\ minted' = minted + 1
    /\ data' = [data EXCEPT ![minted + 1] = {clock}]
    /\ untagged' = [untagged EXCEPT ![p] = {<<l, minted + 1>>}]
    /\ UNCHANGED <<clock, doc, tags, pc, bound, entries, work, ops, unsent, wire,
                   house, doomed>>

WriteTag(p) ==
    /\ \E f \in untagged[p], b \in bound[p] :
          /\ tags' = [tags EXCEPT ![f[2]] = {[document |-> b.document,
                                              member |-> b.member, at |-> clock]}]
          /\ Add(p, f[1], {f[2]})
    /\ untagged' = [untagged EXCEPT ![p] = {}]
    /\ UNCHANGED <<clock, doc, data, minted, pc, bound, entries, wire, house,
                   doomed>>

-----------------------------------------------------------------------------
(* send_operations: in frames of one or more, each acknowledged before the *)
(* next is sent.                                                           *)
SendFrame(p) ==
    /\ Reading(p)
    /\ work[p] = {}
    /\ \E f \in SUBSET unsent[p] \ {{}}, b \in bound[p] :
          wire' = [wire EXCEPT ![p] = {[document |-> b.document, ops |-> f,
                                        applied |-> FALSE]}]
    /\ Move(p, "ack")
    /\ UNCHANGED <<clock, doc, files, session, house, doomed>>

(* agora, external: the frame is applied as a whole or never.  A publish   *)
(* that gave up does not take back what it sent.                           *)
Apply(p) ==
    \E f \in wire[p] :
        /\ ~f.applied
        /\ doc' = [doc EXCEPT ![f.document] = Written(@, f.ops)]
        /\ wire' = [wire EXCEPT ![p] = IF pc[p] = "ack" THEN {[f EXCEPT !.applied = TRUE]}
                                                       ELSE {}]
        /\ UNCHANGED <<clock, files, pc, session, house, doomed>>

Lose(p) ==
    /\ \E f \in wire[p] : ~f.applied
    /\ pc[p] # "ack"
    /\ wire' = [wire EXCEPT ![p] = {}]
    /\ UNCHANGED <<clock, doc, files, pc, session, house, doomed>>

ReceiveAck(p) ==
    /\ pc[p] = "ack"
    /\ \E f \in wire[p] : f.applied /\ unsent' = [unsent EXCEPT ![p] = @ \ f.ops]
    /\ wire' = [wire EXCEPT ![p] = {}]
    /\ Move(p, "layers")
    /\ UNCHANGED <<clock, doc, files, bound, entries, work, untagged, ops, house,
                   doomed>>

(* Every operation is acknowledged: prune_layer_data.                      *)
Prune(p) ==
    /\ Reading(p)
    /\ work[p] = {} /\ unsent[p] = {}
    /\ doomed' = [doomed EXCEPT ![p] = Both(Replaced(entries[p], ops[p]))]
    /\ Move(p, "prune")
    /\ UNCHANGED <<clock, doc, files, session, wire, house>>

(* Something refused, closed or timed out, a file could not be written, or *)
(* (with all of it done) the camera could not be sent: "nothing was        *)
(* written".                                                               *)
Fail(p) ==
    /\ \/ pc[p] \in {"layers", "ack"}
       \/ pc[p] = "prune" /\ doomed[p] = {}
    /\ Move(p, "failed")
    /\ UNCHANGED <<clock, doc, files, session, wire, house, doomed>>

-----------------------------------------------------------------------------
(* delete_layer_data: the data, then the tag, of one token after another.  *)
UnlinkData(p, t) ==
    /\ <<t, "data">> \in doomed[p]
    /\ \A u \in Tokens : <<u, "tag">> \in doomed[p] => <<u, "data">> \in doomed[p]
    /\ data' = [data EXCEPT ![t] = {}]
    /\ doomed' = [doomed EXCEPT ![p] = @ \ {<<t, "data">>}]
    /\ UNCHANGED <<clock, doc, tags, minted, pc, session, wire, house>>

UnlinkTag(p, t) ==
    /\ <<t, "tag">> \in doomed[p]
    /\ <<t, "data">> \notin doomed[p]
    /\ tags' = [tags EXCEPT ![t] = {}]
    /\ doomed' = [doomed EXCEPT ![p] = @ \ {<<t, "tag">>}]
    /\ UNCHANGED <<clock, doc, data, minted, pc, session, wire, house>>

OwnDocument(p) == {b.document : b \in bound[p]}
Others(p) == Documents \ OwnDocument(p)

(* The note for the caller is made; the housekeeping begins with the       *)
(* document of this publish.                                               *)
Close(p) ==
    /\ pc[p] = "prune"
    /\ doomed[p] = {}
    /\ target' = [target EXCEPT ![p] = OwnDocument(p)]
    /\ referenced' = [referenced EXCEPT ![p] = Named(entries[p], ops[p])]
    /\ verified' = [verified EXCEPT ![p] = Named(entries[p], ops[p])]
    /\ Move(p, "reconcile")
    /\ UNCHANGED <<clock, doc, files, session, wire, joins, doomed>>

TagsOf(d) == {t \in Tokens : \E g \in tags[t] : g.document = d /\ Old(g.at)}

(* reconcile_document: refresh_layer_data, then the document's files that  *)
(* it does not draw and that are old enough are deleted.                   *)
Reconcile(p) ==
    /\ pc[p] = "reconcile"
    /\ data' = [t \in Tokens |-> IF t \in referenced[p] /\ data[t] # {} THEN {clock}
                                                                       ELSE data[t]]
    /\ \E d \in target[p] :
          doomed' = [doomed EXCEPT ![p] = Both(TagsOf(d) \ referenced[p])]
    /\ Move(p, "tidy")
    /\ UNCHANGED <<clock, doc, tags, minted, session, wire, house>>

FilesOf(d) == {g \in UNION {tags[t] : t \in Tokens} : g.document = d}
Sweepable(d) == /\ \E g \in FilesOf(d) : g.member
                /\ \A g \in FilesOf(d) : Old(g.at)
NotAfter(d, e) == \E g \in FilesOf(d) : \A h \in FilesOf(e) : g.at =< h.at

(* sweepable_documents: the ones with the oldest files, up to the limit.   *)
ChooseDocuments(p) ==
    /\ pc[p] = "tidy"
    /\ doomed[p] = {}
    /\ target[p] = OwnDocument(p)
    /\ \E chosen \in SUBSET {d \in Others(p) : Sweepable(d)} :
          LET passed == {d \in Others(p) : Sweepable(d)} \ chosen IN
          /\ Cardinality(chosen) =< SWEEP_DOCUMENT_LIMIT
          /\ passed # {} => Cardinality(chosen) = SWEEP_DOCUMENT_LIMIT
          /\ \A d \in chosen, e \in passed : NotAfter(d, e)
          /\ joins' = [joins EXCEPT ![p] = chosen]
    /\ target' = [target EXCEPT ![p] = {}]
    /\ referenced' = [referenced EXCEPT ![p] = {}]
    /\ Move(p, "sweep")
    /\ UNCHANGED <<clock, doc, files, session, wire, verified, doomed>>

(* sweep_other_documents.  A document that agora says is gone counts as    *)
(* one that draws nothing.                                                 *)
Rejoin(p, d) ==
    /\ pc[p] = "sweep"
    /\ d \in joins[p]
    /\ joins' = [joins EXCEPT ![p] = @ \ {d}]
    /\ target' = [target EXCEPT ![p] = {d}]
    /\ referenced' = [referenced EXCEPT ![p] = DrawnBy(doc[d])]
    /\ verified' = [verified EXCEPT ![p] = @ \cup DrawnBy(doc[d])]
    /\ Move(p, "reconcile")
    /\ UNCHANGED <<clock, doc, files, session, wire, doomed>>

SweepOn(p) ==
    /\ pc[p] = "tidy"
    /\ doomed[p] = {}
    /\ target[p] # OwnDocument(p)
    /\ target' = [target EXCEPT ![p] = {}]
    /\ referenced' = [referenced EXCEPT ![p] = {}]
    /\ Move(p, "sweep")
    /\ UNCHANGED <<clock, doc, files, session, wire, verified, joins, doomed>>

RejoinRefused(p, d) ==
    /\ pc[p] = "sweep"
    /\ d \in joins[p]
    /\ joins' = [joins EXCEPT ![p] = @ \ {d}]
    /\ UNCHANGED <<clock, doc, files, pc, session, wire, target, referenced, verified,
                   doomed>>

UnusedTagged == {t \in Tokens : tags[t] # {} /\ \E u \in data[t] : Unused(u)}
UnusedData == {t \in Tokens : \E u \in data[t] : Unused(u)}

(* expire_layer_data: the files nothing fetched or confirmed for long.     *)
Expire(p) ==
    /\ pc[p] = "sweep"
    /\ joins[p] = {}
    /\ doomed' = [doomed EXCEPT ![p] = Both(UnusedData \ verified[p])]
    /\ Move(p, "expire")
    /\ UNCHANGED <<clock, doc, files, session, wire, house>>

Finish(p) ==
    /\ pc[p] = "expire"
    /\ doomed[p] = {}
    /\ Move(p, "done")
    /\ UNCHANGED <<clock, doc, files, session, wire, house, doomed>>

(* The request is over: it was answered, or its client left, or the        *)
(* server was stopped (and with it every request).                         *)
End(p) ==
    /\ pc[p] # "idle"
    /\ Move(p, "idle")
    /\ bound' = [bound EXCEPT ![p] = {}]
    /\ entries' = [entries EXCEPT ![p] = [l \in Layers |-> {}]]
    /\ work' = [work EXCEPT ![p] = {}]
    /\ untagged' = [untagged EXCEPT ![p] = {}]
    /\ ops' = [ops EXCEPT ![p] = {}]
    /\ unsent' = [unsent EXCEPT ![p] = {}]
    /\ wire' = [wire EXCEPT ![p] = {f \in @ : ~f.applied}]
    /\ target' = [target EXCEPT ![p] = {}]
    /\ referenced' = [referenced EXCEPT ![p] = {}]
    /\ verified' = [verified EXCEPT ![p] = {}]
    /\ joins' = [joins EXCEPT ![p] = {}]
    /\ doomed' = [doomed EXCEPT ![p] = {}]
    /\ UNCHANGED <<clock, doc, files>>

-----------------------------------------------------------------------------
(* The members of the documents, external, and time.                       *)
Remove(d, l) ==
    /\ doc[d][l] # {}
    /\ doc' = [doc EXCEPT ![d][l] = {}]
    /\ UNCHANGED <<clock, files, pc, session, wire, house, doomed>>

(* A member pastes an entry, into this document or another.               *)
Copy(d, l, e, m) ==
    /\ doc[d][l] # doc[e][m]
    /\ doc' = [doc EXCEPT ![e][m] = doc[d][l]]
    /\ UNCHANGED <<clock, files, pc, session, wire, house, doomed>>

(* A viewer that joins fetches what it draws: get_live_data.               *)
Fetch(t) ==
    /\ Drawn(t)
    /\ data[t] # {}
    /\ data' = [data EXCEPT ![t] = {clock}]
    /\ UNCHANGED <<clock, doc, tags, minted, pc, session, wire, house, doomed>>

Tick ==
    /\ clock < MaxClock
    /\ \A p \in Publishers : pc[p] = "idle" /\ wire[p] = {}
    /\ clock' = clock + 1
    /\ UNCHANGED <<doc, files, pc, session, wire, house, doomed>>

-----------------------------------------------------------------------------
Init ==
    /\ clock = 0
    /\ doc = [d \in Documents |-> [l \in Layers |-> {}]]
    /\ data = [t \in Tokens |-> {}]
    /\ tags = [t \in Tokens |-> {}]
    /\ minted = 0
    /\ pc = [p \in Publishers |-> "idle"]
    /\ entries = [p \in Publishers |-> [l \in Layers |-> {}]]
    /\ bound = [p \in Publishers |-> {}]
    /\ work = [p \in Publishers |-> {}]
    /\ untagged = [p \in Publishers |-> {}]
    /\ ops = [p \in Publishers |-> {}]
    /\ unsent = [p \in Publishers |-> {}]
    /\ wire = [p \in Publishers |-> {}]
    /\ target = [p \in Publishers |-> {}]
    /\ referenced = [p \in Publishers |-> {}]
    /\ verified = [p \in Publishers |-> {}]
    /\ joins = [p \in Publishers |-> {}]
    /\ doomed = [p \in Publishers |-> {}]

Publish(p) ==
    \/ \E d \in Documents, member \in Joining : Open(p, d, member)
    \/ \E l \in Layers : SkipLayer(p, l) \/ InlineLayer(p, l) \/ WriteData(p, l)
    \/ WriteTag(p) \/ SendFrame(p) \/ ReceiveAck(p) \/ Prune(p) \/ Fail(p) \/ Close(p)
    \/ \E t \in Tokens : UnlinkData(p, t) \/ UnlinkTag(p, t)
    \/ Reconcile(p) \/ ChooseDocuments(p) \/ SweepOn(p)
    \/ \E d \in Documents : Rejoin(p, d) \/ RejoinRefused(p, d)
    \/ Expire(p) \/ Finish(p) \/ End(p)

Members ==
    \/ \E d \in Documents, l \in Layers : Remove(d, l)
    \/ \E t \in Tokens : Fetch(t)

Next == \/ \E p \in Publishers : Publish(p) \/ Apply(p) \/ Lose(p)
        \/ Members
        \/ Tick

Spec == Init /\ [][Next]_vars

(* The documents of members who copy entries.                              *)
CopyingNext == Next \/ \E d, e \in Documents, l, m \in Layers : Copy(d, l, e, m)
CopyingSpec == Init /\ [][CopyingNext]_vars

-----------------------------------------------------------------------------
(* A file is gone only when the entry that named it is (line 305): what a  *)
(* document draws is there from the moment its operation is applied, and   *)
(* only expiry, in the name of another document, may take it away.         *)
DrawnDataKept ==
    [][\A t \in Tokens : Drawn(t)' /\ data'[t] = {} =>
          \/ Drawn(t) /\ data[t] = {}
          \/ \E p \in Publishers : \E d \in Others(p) :
                /\ pc[p] = "expire" /\ <<t, "data">> \in doomed[p]
                /\ t \in DrawnBy(doc[d])]_vars

(* The operation is still to be applied by agora: waiting to be sent, or   *)
(* on its way, be it from a publish that gave up.                          *)
InFlight(p, o) ==
    \/ \E f \in wire[p] : ~f.applied /\ o \in f.ops
    \/ /\ pc[p] \in {"layers", "ack"}
       /\ o \in unsent[p]
       /\ ~\E f \in wire[p] : f.applied /\ o \in f.ops

(* A file of a publish in flight is left alone whatever the document says  *)
(* (lines 335-338), however the housekeeping of others interleaves.        *)
InFlightDataKept ==
    \A p \in Publishers, l \in Layers, t \in Tokens :
        InFlight(p, <<l, {t}>>) => data[t] # {} /\ tags[t] # {}

(* "Nothing was written" (lines 653-656): no operation of the publish was  *)
(* applied.                                                                *)
NothingWrittenMeansNothing ==
    \A p \in Publishers : pc[p] = "failed" =>
        unsent[p] = ops[p] /\ \A f \in wire[p] : ~f.applied

(* No published file lives for ever unused: a publish that finished its    *)
(* housekeeping leaves no data file that nothing has used for the maximum  *)
(* age, whatever crashes left behind, unless a document confirmed it.      *)
NothingLeftBehind ==
    \A p \in Publishers : pc[p] = "done" =>
        \A t \in Tokens \ verified[p] : \A u \in data[t] :
            ~Unused(u)
=============================================================================
