------------------------------- MODULE Shares -------------------------------
(***************************************************************************)
(* Shared snapshots of a map: POST /share (api/server.py), the files they  *)
(* are kept in and the move of the old file of all shares to one file      *)
(* each, which every start of the service makes (core/utils.py).           *)
(*                                                                         *)
(* Both run on the thread of the event loop without an await, so one save  *)
(* is under way at a time; the process may die between any two steps of    *)
(* it, and a write may fail.  A file is absent, half written or whole, and *)
(* whole is the share that was saved under its id.                         *)
(*                                                                         *)
(* RenameUnwritten and UnlinkEarly stand beside Replace and UnlinkOld:     *)
(* mistakes that a change could make.                                      *)
(***************************************************************************)
CONSTANTS ShareIds,  \* the share ids of a behaviour
          OldKeys    \* what an old file may have held, keys that are no ids among them

VARIABLES server,   \* down, splitting the old file or serving
          old,      \* what the old file holds, or gone
          left,     \* the keys that are still to be moved
          saving,   \* the id that save_json saves, or nothing
          partial,  \* what <id>.json.partial holds
          step,     \* how far save_json has come
          file,     \* what <id>.json holds
          owed      \* history: the ids given out, and those that the old file held

vars == <<server, old, left, saving, partial, step, file, owed>>

Gone == {"gone"}
Nothing == "nothing"

-----------------------------------------------------------------------------
(* save_json                                                               *)

Begin(id) == saving' = id /\ step' = "open"

\* Opening the partial file truncates it, what a dead process left in it included.
OpenPartial ==
    /\ step = "open"
    /\ step' = "write"
    /\ partial' = [partial EXCEPT ![saving] = "half"]
    /\ UNCHANGED <<server, old, left, saving, file, owed>>

WritePartial ==
    /\ step = "write"
    /\ step' = "rename"
    /\ partial' = [partial EXCEPT ![saving] = "whole"]
    /\ UNCHANGED <<server, old, left, saving, file, owed>>

\* The rename; then create_share answers with the id.
Rename ==
    /\ step' = "idle"
    /\ saving' = Nothing
    /\ file' = [file EXCEPT ![saving] = partial[saving]]
    /\ partial' = [partial EXCEPT ![saving] = "absent"]
    /\ owed' = owed \cup {saving}
    /\ UNCHANGED <<server, old, left>>

RenameUnwritten == step \in {"write", "rename"} /\ Rename

Replace == step = "rename" /\ Rename

\* A full disk: create_share answers with an error, and a start of the service fails.
WriteFails ==
    /\ step \in {"open", "write"}
    /\ step' = "idle"
    /\ saving' = Nothing
    /\ server' = IF server = "splitting" THEN "down" ELSE server
    /\ UNCHANGED <<old, left, partial, file, owed>>

-----------------------------------------------------------------------------
(* The service                                                             *)

\* create_share, under an id that nobody has been given
CreateShare(id) ==
    /\ server = "serving"
    /\ step = "idle"
    /\ id \notin owed
    /\ Begin(id)
    /\ UNCHANGED <<server, old, left, partial, file, owed>>

\* lifespan, split_all_shares_file
Start ==
    /\ server = "down"
    /\ server' = IF old = Gone THEN "serving" ELSE "splitting"
    /\ left' = IF old = Gone THEN {} ELSE old
    /\ UNCHANGED <<old, saving, partial, step, file, owed>>

\* A key that is not a share id is dropped.
SplitOne(key) ==
    /\ server = "splitting"
    /\ step = "idle"
    /\ key \in left
    /\ left' = left \ {key}
    /\ IF key \in ShareIds THEN Begin(key) ELSE UNCHANGED <<saving, step>>
    /\ UNCHANGED <<server, old, partial, file, owed>>

Unlink ==
    /\ server = "splitting"
    /\ old' = Gone
    /\ UNCHANGED <<left, saving, partial, step, file, owed>>

UnlinkEarly ==
    /\ step = "idle"
    /\ Unlink
    /\ server' = IF left = {} THEN "serving" ELSE server

UnlinkOld ==
    /\ step = "idle"
    /\ left = {}
    /\ Unlink
    /\ server' = "serving"

Crash ==
    /\ server # "down"
    /\ server' = "down"
    /\ step' = "idle"
    /\ saving' = Nothing
    /\ UNCHANGED <<old, left, partial, file, owed>>

Init ==
    /\ server = "down"
    /\ old \in {Gone} \cup SUBSET OldKeys
    /\ left = {}
    /\ saving = Nothing
    /\ step = "idle"
    /\ partial = [id \in ShareIds |-> "absent"]
    /\ file = [id \in ShareIds |-> "absent"]
    /\ owed = old \cap ShareIds

Next ==
    \/ OpenPartial \/ WritePartial \/ Replace \/ WriteFails
    \/ \E id \in ShareIds : CreateShare(id)
    \/ Start \/ \E key \in OldKeys : SplitOne(key)
    \/ UnlinkOld \/ Crash

Spec == Init /\ [][Next]_vars

-----------------------------------------------------------------------------

\* Whoever was given a share's link, before or after the old file was split, is
\* served that share whenever the service serves, and never half of one, whatever
\* died on the way (save_json, split_all_shares_file, get_share_data).
LinksKeepWorking ==
    /\ \A id \in ShareIds : file[id] # "half"
    /\ server = "serving" => \A id \in owed : file[id] = "whole"
=============================================================================
