---------------------------- MODULE CallerFiles ----------------------------
(***************************************************************************)
(* A caller's datasets: POST /upload and POST /draw (api/server.py), the   *)
(* catalogue of what a caller has uploaded and the caller's directory      *)
(* (core/utils.py), the limits of an upload (api/upload_limits.py) and the *)
(* sweep of old files (api/outputs_retention.py).                          *)
(*                                                                         *)
(* The routes run on one event loop: between two awaits a request is       *)
(* alone, and the awaits are the reading of the body and of each chunk     *)
(* that save_upload copies.  The sweep is a thread of its own.  Reading    *)
(* a layer, a table or an archive is external and may fail.                *)
(*                                                                         *)
(* What a name holds is known by the request that wrote it last, and by    *)
(* whether all of it came from that request: two of them that copy to one  *)
(* name at a time write into each other's file.                            *)
(*                                                                         *)
(* FirstKept stands beside Added: a mistake a change could make.           *)
(***************************************************************************)
EXTENDS Integers, Sequences, Functions

CONSTANTS Callers,
          Anonymous,  \* ANONYMOUS_OUTPUTS_DIRECTORY
          Uploads,    \* the uploads and drawings of a behaviour
          Files       \* what is sent: its stem, its suffix, a layer inside a zip, a flaw

VARIABLES retention,  \* whether GEOLANG_USER_DATA_RETENTION_DAYS is set
          disk,       \* what is under user_data: a place to what is there
          made,       \* the directories under user_data that exist
          upload,     \* the requests
          stored,     \* history: the requests answered with a dataset, in order
          sweeping    \* the file whose age the sweep has just looked at

vars == <<retention, disk, made, upload, stored, sweeping>>

Server == "server"
NoPlace == <<>>

\* A directory part, a link out of the caller's directory, nothing before the
\* extension, a type that /upload does not read
NameFlaws == {"directory", "link", "stem", "suffix"}

\* A body, a file or an archive over its limit, an entry outside the folder
SizeFlaws == {"body", "bytes", "entries", "unzipped", "outside", "not_zip"}

Place(dir, folder, stem, suffix) == <<dir, folder, stem, suffix>>

\* caller_catalogue_file
CatalogueAt(dir) == Place(dir, "", "catalogue", "json")

\* What by has put there, and whether all of it is by's
Layer(by) == [by |-> by, whole |-> TRUE, old |-> FALSE, entries |-> {}]

-----------------------------------------------------------------------------
(* Directories and catalogues, in the state a disk d is in.                *)

\* current_caller_directory: the bearer is verified again on every call
Dir(u) == IF upload[u].live THEN upload[u].caller ELSE Anonymous

With(d, place, layer) == [p \in DOMAIN d \cup {place} |-> IF p = place THEN layer ELSE d[p]]

Without(d, places) == Restrict(d, DOMAIN d \ places)

\* load_catalogue reads a list, not a layer that has taken its name
Loads(d, dir) == CatalogueAt(dir) \in DOMAIN d => d[CatalogueAt(dir)].by = Server

Loaded(d, dir) ==
    IF CatalogueAt(dir) \in DOMAIN d
      THEN {e \in d[CatalogueAt(dir)].entries : e.at \in DOMAIN d} ELSE {}

FirstKept(entries, e) ==
    IF \E k \in entries : k.name = e.name THEN entries ELSE entries \cup {e}

Added(entries, e) == {k \in entries : k.name # e.name} \cup {e}

\* save_catalogue, whole or not at all
Saved(d, dir, entries) ==
    With(d, CatalogueAt(dir), [Layer(Server) EXCEPT !.entries = entries])

Answer(u, answer) == upload' = [upload EXCEPT ![u].phase = answer]

\* The end of both routes: the entry goes into the catalogue of whoever the
\* bearer still is, and notify_agent swallows what goes wrong after it.
Listing(u, d, e) ==
    IF Loads(d, Dir(u))
      THEN /\ disk' = Saved(d, Dir(u), Added(Loaded(d, Dir(u)), e))
           /\ made' = made \cup {Dir(u)}
           /\ upload' = [upload EXCEPT ![u].phase = "stored", ![u].entry = e]
           /\ stored' = Append(stored, u)
      ELSE /\ disk' = d
           /\ made' = made \cup {Dir(u)}
           /\ Answer(u, "failed")
           /\ UNCHANGED stored

-----------------------------------------------------------------------------
(* POST /upload                                                            *)

NoRequest == [phase |-> "idle"]

\* The gate, and for an upload the directory, before the body is read.  A drawn
\* area is sent with a name alone, and becomes a layer of that name.
Receive(u, c, route, f) ==
    /\ upload[u] = NoRequest
    /\ route = "draw" => f.suffix = "gpkg"
    /\ upload' = [upload EXCEPT ![u] =
           [phase |-> route, caller |-> c, live |-> TRUE, file |-> f, dir |-> c,
            entry |-> NoPlace]]
    /\ made' = IF route = "upload" THEN made \cup {c} ELSE made
    /\ UNCHANGED <<retention, disk, stored, sweeping>>

InFlight(u) == upload[u].phase \in {"upload", "draw", "writing", "saved"}

TokenEnds(u) ==
    /\ InFlight(u)
    /\ upload[u].live
    /\ upload' = [upload EXCEPT ![u].live = FALSE]
    /\ UNCHANGED <<retention, disk, made, stored, sweeping>>

Refuse(u) ==
    /\ Answer(u, "refused")
    /\ UNCHANGED <<retention, disk, made, stored, sweeping>>

\* path_inside_directory and the checks after it
RefuseName(u) ==
    /\ upload[u].phase = "upload"
    /\ upload[u].file.flaw \in NameFlaws
    /\ Refuse(u)

\* bounded_request while the body comes, then the file and the archive
RefuseSize(u) ==
    /\ upload[u].phase \in {"upload", "draw"}
    /\ upload[u].file.flaw \in SizeFlaws
    /\ Refuse(u)

\* Both budgets are asked before either is spent, and one may be used up.
RefuseBudget(u) ==
    /\ upload[u].phase \in {"upload", "draw"}
    /\ upload[u].file.flaw = "none"
    /\ Refuse(u)

RawAt(u) == Place(upload[u].dir, "", upload[u].file.stem, upload[u].file.suffix)

\* The budgets are spent and the file is opened, which empties it; the sweep may
\* have removed the directory since.
Open(u) ==
    /\ upload[u].phase = "upload"
    /\ upload[u].file.flaw = "none"
    /\ IF upload[u].dir \in made
         THEN /\ disk' = With(disk, RawAt(u), Layer(u))
              /\ Answer(u, "writing")
         ELSE Answer(u, "failed") /\ UNCHANGED disk
    /\ UNCHANGED <<retention, made, stored, sweeping>>

\* What the name holds once u has written its last chunk: another upload that
\* opened it since has written over u's, and the other way round.
Overwritten(u, whole) ==
    IF RawAt(u) \notin DOMAIN disk THEN disk
    ELSE With(disk, RawAt(u), [Layer(u) EXCEPT !.whole = whole /\ disk[RawAt(u)].by = u])

Save(u) ==
    /\ upload[u].phase = "writing"
    /\ disk' = Overwritten(u, TRUE)
    /\ Answer(u, "saved")
    /\ UNCHANGED <<retention, made, stored, sweeping>>

SaveFails(u) ==
    /\ upload[u].phase = "writing"
    /\ disk' = Overwritten(u, FALSE)
    /\ Answer(u, "failed")
    /\ UNCHANGED <<retention, made, stored, sweeping>>

\* The layers under the folder a zip unpacks into, those of an earlier zip included
Inside(d, u) == {p \in DOMAIN d : p[1] = upload[u].dir /\ p[2] = upload[u].file.stem}

\* Where the dataset is after unzipping or converting, with the disk as it is then
Unpacked(u) ==
    LET f == upload[u].file
        raw == RawAt(u)
        data == [disk[raw] EXCEPT !.old = FALSE]
        table == Place(upload[u].dir, "", f.stem, "gpkg")
        layer == Place(upload[u].dir, f.stem, f.inner, "gpkg")
        unzipped == IF f.inner = "none" THEN Without(disk, {raw})
                    ELSE With(Without(disk, {raw}), layer, data)
    IN CASE f.suffix = "zip" -> {[disk |-> unzipped, at |-> p] : p \in Inside(unzipped, u)}
         [] f.suffix = "csv" -> {[disk |-> With(Without(disk, {raw}), table, data), at |-> table]}
         [] OTHER -> {[disk |-> disk, at |-> raw]}

There(u) == RawAt(u) \in DOMAIN disk

\* The dataset is read, and is listed under the stem of its file.
List(u) ==
    /\ upload[u].phase = "saved"
    /\ There(u)
    /\ \E data \in Unpacked(u) :
           Listing(u, data.disk,
                   [name |-> data.at[3], at |-> data.at, by |-> data.disk[data.at].by,
                    whole |-> data.disk[data.at].whole])
    /\ UNCHANGED <<retention, sweeping>>

\* It cannot be read, and is removed.
Unreadable(u) ==
    /\ upload[u].phase = "saved"
    /\ IF There(u)
         THEN \E data \in Unpacked(u) : disk' = Without(data.disk, {data.at})
         ELSE UNCHANGED disk
    /\ Answer(u, "failed")
    /\ UNCHANGED <<retention, made, stored, sweeping>>

\* An archive or a table that cannot be opened stays; a zip without a layer and a
\* table without coordinates are removed.
Unusable(u) ==
    /\ upload[u].phase = "saved"
    /\ There(u)
    /\ upload[u].file.suffix \in {"zip", "csv"}
    /\ disk' \in {disk, Without(disk, {RawAt(u)})}
    /\ Answer(u, "failed")
    /\ UNCHANGED <<retention, made, stored, sweeping>>

-----------------------------------------------------------------------------
(* POST /draw, which works out the directory after the body is read.       *)

Draw(u) ==
    /\ upload[u].phase = "draw"
    /\ upload[u].file.flaw = "none"
    /\ LET at == Place(Dir(u), "", upload[u].file.stem, "gpkg")
       IN Listing(u, With(disk, at, Layer(u)),
                  [name |-> upload[u].file.stem, at |-> at, by |-> u, whole |-> TRUE])
    /\ UNCHANGED <<retention, sweeping>>

-----------------------------------------------------------------------------
(* sweep_user_data                                                         *)

\* Days pass, which no request takes.
Age ==
    /\ \A u \in Uploads : ~InFlight(u)
    /\ \E p \in DOMAIN disk : ~disk[p].old
    /\ disk' = [p \in DOMAIN disk |-> [disk[p] EXCEPT !.old = TRUE]]
    /\ UNCHANGED <<retention, made, upload, stored, sweeping>>

LookAtAge(p) ==
    /\ retention
    /\ sweeping = NoPlace
    /\ disk[p].old
    /\ sweeping' = p
    /\ UNCHANGED <<retention, disk, made, upload, stored>>

\* os.remove of whatever has the name by now
RemoveSwept ==
    /\ sweeping # NoPlace
    /\ disk' = Without(disk, {sweeping})
    /\ sweeping' = NoPlace
    /\ UNCHANGED <<retention, made, upload, stored>>

RemoveIfEmpty(dir) ==
    /\ retention
    /\ sweeping = NoPlace
    /\ \A p \in DOMAIN disk : p[1] # dir
    /\ made' = made \ {dir}
    /\ UNCHANGED <<retention, disk, upload, stored, sweeping>>

Init ==
    /\ retention \in BOOLEAN
    /\ disk = [p \in {} |-> Layer(Server)]
    /\ made = {}
    /\ upload = [u \in Uploads |-> NoRequest]
    /\ stored = <<>>
    /\ sweeping = NoPlace

Next ==
    \/ \E u \in Uploads, c \in Callers, route \in {"upload", "draw"}, f \in Files :
           Receive(u, c, route, f)
    \/ \E u \in Uploads : \/ TokenEnds(u) \/ RefuseName(u) \/ RefuseSize(u)
                          \/ RefuseBudget(u) \/ Open(u) \/ Save(u) \/ SaveFails(u)
                          \/ List(u) \/ Unreadable(u) \/ Unusable(u) \/ Draw(u)
    \/ Age
    \/ \E p \in DOMAIN disk : LookAtAge(p)
    \/ RemoveSwept
    \/ \E dir \in made : RemoveIfEmpty(dir)

Spec == Init /\ [][Next]_vars

-----------------------------------------------------------------------------

\* The last dataset that c stored under a name, with a bearer that lasted
Current(u) ==
    \E i \in DOMAIN stored :
        /\ stored[i] = u
        /\ upload[u].live
        /\ \A j \in i + 1 .. Len(stored) :
               upload[stored[j]].caller = upload[u].caller
                   => upload[stored[j]].entry.name # upload[u].entry.name

Untouched(u) ==
    LET e == upload[u].entry
    IN e.at \in DOMAIN disk /\ disk[e.at].by = e.by /\ disk[e.at].whole = e.whole

TookTheCatalogue(u) ==
    upload[u] # NoRequest /\ upload[u].phase \notin {"upload", "refused"}
        /\ RawAt(u) = CatalogueAt(upload[u].caller)

NoneTookTheCatalogue(c) ==
    \A v \in Uploads : TookTheCatalogue(v) => upload[v].caller # c

\* A dataset whose request was answered to a bearer that lasted is listed for its
\* caller for as long as its file is the one that was read, whatever overlaps it,
\* fails after it or is drawn over another, unless a file called catalogue.json was
\* uploaded by that caller (upload_dataset, save_drawn_area, load_catalogue).
ListedWhileThere ==
    \A u \in Uploads :
        Current(u) /\ Untouched(u) /\ NoneTookTheCatalogue(upload[u].caller)
            => upload[u].entry \in Loaded(disk, upload[u].caller)

\* Without a retention of uploads, which is the default.
StoredIsListed == ~retention => ListedWhileThere

\* "It leaves each caller's upload catalogue alone", with one: a sweep drops from
\* the list only what it took from the disk.  It does not hold of the code.
SweepLeavesTheCatalogue == retention => ListedWhileThere

\* "catalogue.json lists that caller's uploads" (docs/architecture.md), whatever they
\* are called.  /upload takes that name for a dataset too, so it does not hold.
UploadsKeepTheirList ==
    ~retention =>
        \A u \in Uploads : Current(u) /\ Untouched(u)
                                => upload[u].entry \in Loaded(disk, upload[u].caller)

\* "Multipart upload into the caller's own directory, appended to their catalogue"
\* (docs/api_reference.md): a catalogue lists the files beside it.  A bearer that
\* ends while the body is read has its file listed for whoever has no bearer.
ListedBesideItsFile ==
    \A dir \in Callers \cup {Anonymous} : \A e \in Loaded(disk, dir) : e.at[1] = dir
=============================================================================
