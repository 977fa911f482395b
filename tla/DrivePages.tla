----------------------------- MODULE DrivePages -----------------------------
(***************************************************************************)
(* How drive_client.py reads a drive: page after page, each page asked for *)
(* again when the error is one that may pass, while users go on editing.   *)
(* GDrive gives each of these queries one moment; this module shows what   *)
(* the pages, put together, are worth.  The order of files.list and the    *)
(* contents of a page are Google's.                                        *)
(***************************************************************************)
EXTENDS GDrive, FiniteSets

CONSTANTS
    PageSize,
    MaxRetries      \* API_MAX_RETRIES

ASSUME PagesAssumption == PageSize \in Nat \ {0} /\ MaxRetries \in Nat

VARIABLES
    listing,        \* per drive: the query under way
    found,          \* per drive and file: what its pages said of the file
    token,          \* per drive: where the last complete listing ended, 0 if none
    mirror          \* per drive: files listed and not reported deleted since

pagesVars == <<gdriveVars, listing, found, token, mirror>>

-----------------------------------------------------------------------------
NoListing == [pc |-> "none", start |-> 0, pos |-> 0, visited |-> {}, attempt |-> 0]
Nothing   == [f \in Files |-> "none"]

PagesInit ==
    /\ GDriveInit
    /\ listing = [d \in Drives |-> NoListing]
    /\ found   = [d \in Drives |-> Nothing]
    /\ token   = [d \in Drives |-> 0]
    /\ mirror  = [d \in Drives |-> {}]

InQuery(d, pc) == listing[d].pc = pc

(* A drive without a token is listed in full, from the token of this moment. *)
OpenFull(d) ==
    /\ InQuery(d, "none") /\ token[d] = 0
    /\ listing' = [listing EXCEPT ![d] =
                     [NoListing EXCEPT !.pc = "files", !.start = StartPageToken(d)]]
    /\ found' = [found EXCEPT ![d] = Nothing]
    /\ UNCHANGED <<gdriveVars, token, mirror>>

OpenDelta(d) ==
    /\ InQuery(d, "none") /\ token[d] > 0
    /\ listing' = [listing EXCEPT ![d] =
                     [NoListing EXCEPT !.pc = "changes", !.start = token[d], !.pos = token[d]]]
    /\ found' = [found EXCEPT ![d] = Nothing]
    /\ UNCHANGED <<gdriveVars, token, mirror>>

(* files.list: the next files in Google's order, trashed ones left out; no *)
(* nextPageToken after the last.                                           *)
FilesPage(d) ==
    /\ InQuery(d, "files")
    /\ \E S \in SUBSET (Files \ listing[d].visited) :
        LET visited == listing[d].visited \cup S IN
        /\ Cardinality(S) <= PageSize
        /\ S # {} \/ visited = Files
        /\ found' = [found EXCEPT ![d] = [f \in Files |->
                        IF f \in S \cap alive[d] THEN "file" ELSE found[d][f]]]
        /\ listing' = [listing EXCEPT ![d].visited = visited, ![d].attempt = 0,
                          ![d].pc = IF visited = Files THEN "done" ELSE "files"]
    /\ UNCHANGED <<gdriveVars, token, mirror>>

(* changes.list: each file at its last change only; newStartPageToken on   *)
(* the last page.                                                          *)
ChangesPage(d) ==
    /\ InQuery(d, "changes")
    /\ LET next == listing[d].pos + PageSize
           last == next >= head[d]
           to   == IF last THEN head[d] ELSE next
       IN
        /\ found' = [found EXCEPT ![d] = [f \in Files |->
                        IF changed[d][f] \in (listing[d].pos + 1) .. to
                        THEN IF f \in alive[d] THEN "file" ELSE "delete"
                        ELSE found[d][f]]]
        /\ listing' = [listing EXCEPT ![d].pos = to, ![d].attempt = 0,
                          ![d].start = IF last THEN to ELSE @,
                          ![d].pc = IF last THEN "done" ELSE "changes"]
    /\ UNCHANGED <<gdriveVars, token, mirror>>

Asking(d) == InQuery(d, "files") \/ InQuery(d, "changes")

\* Mutant: after an error the next page is asked for.
RetryPageSkips(d) ==
    /\ Asking(d)
    /\ \E S \in SUBSET (Files \ listing[d].visited) :
        LET visited == listing[d].visited \cup S IN
        /\ Cardinality(S) <= PageSize
        /\ InQuery(d, "files")
        /\ listing' = [listing EXCEPT ![d].visited = visited,
                          ![d].pc = IF visited = Files THEN "done" ELSE "files"]
    /\ UNCHANGED <<gdriveVars, found, token, mirror>>

(* An error that _is_retriable_error knows: the same page is asked for again. *)
RetryPage(d) ==
    /\ Asking(d) /\ listing[d].attempt < MaxRetries
    /\ listing' = [listing EXCEPT ![d].attempt = @ + 1]
    /\ UNCHANGED <<gdriveVars, found, token, mirror>>

(* Another error, or one too many: the pages read so far are dropped. *)
PageRaises(d) ==
    /\ Asking(d)
    /\ listing' = [listing EXCEPT ![d] = NoListing]
    /\ UNCHANGED <<gdriveVars, found, token, mirror>>

(* The listing is complete and its files are handled. *)
CloseListing(d) ==
    /\ InQuery(d, "done")
    /\ token'   = [token EXCEPT ![d] = listing[d].start]
    /\ mirror'  = [mirror EXCEPT ![d] =
                     (@ \cup {f \in Files : found[d][f] = "file"})
                        \ {f \in Files : found[d][f] = "delete"}]
    /\ listing' = [listing EXCEPT ![d] = NoListing]
    /\ UNCHANGED <<gdriveVars, found>>

Edit(d) ==
    /\ \E f \in Files : WriteFile(d, f) \/ TrashFile(d, f)
    /\ UNCHANGED <<listing, found, token, mirror>>

PagesNext ==
    \E d \in Drives :
        \/ OpenFull(d) \/ OpenDelta(d)
        \/ FilesPage(d) \/ ChangesPage(d) \/ RetryPage(d) \/ PageRaises(d)
        \/ CloseListing(d)
        \/ Edit(d)

PagesSpec == PagesInit /\ [][PagesNext]_pagesVars

-----------------------------------------------------------------------------
(* Properties *)

(* Whatever is edited between the pages of a listing or between listings,  *)
(* and whichever pages fail, the files listed so far are the files that    *)
(* exist, but for changes after the token: the queries are worth as much   *)
(* as at one moment (src/src/drive_client.py:239-261,                      *)
(* src/src/drive_client.py:494-509).                                       *)
Mirrored ==
    \A d \in Drives, f \in Files :
        0 < changed[d][f] /\ changed[d][f] <= token[d] => (f \in mirror[d] <=> f \in alive[d])

=============================================================================
