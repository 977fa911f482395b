--------------------------- MODULE DocumentProofs ---------------------------
(***************************************************************************)
(* Theorems about the way of a document into the index: DrivePages, for    *)
(* any drives, files, changes and page size, ChunkStore, for any workers   *)
(* and numbers of chunks, and Chunking, for any text and any limits.       *)
(***************************************************************************)
EXTENDS DrivePages, ChunkStore, Chunking, FiniteSetTheorems, SequenceTheorems, TLAPS

-----------------------------------------------------------------------------
(* DrivePages *)

(* A drive's files: a(live), c(hanged) up to h(ead). *)
ListingRecord == [pc : {"none", "files", "changes", "done"}, start : Nat, pos : Nat,
                  visited : SUBSET Files, attempt : Nat]
Said == {"none", "file", "delete"}

PagesTypes ==
    /\ GDriveTypeOK
    /\ listing \in [Drives -> ListingRecord]
    /\ found \in [Drives -> [Files -> Said]]
    /\ token \in [Drives -> Nat]
    /\ mirror \in [Drives -> SUBSET Files]

(* The positions are in order; a full listing comes first. *)
Ordered(l, h, t, m) ==
    /\ t <= h
    /\ t = 0 => m = {}
    /\ l.pc = "files"   => t = 0 /\ 1 <= l.start /\ l.start <= h
    /\ l.pc = "changes" => 1 <= t /\ l.start = t /\ t <= l.pos /\ l.pos <= h
    /\ l.pc = "done"    => 1 <= l.start /\ l.start <= h

(* What the mirror and the pages read so far say of a file that was last   *)
(* changed at c and exists or not, where c is behind what they cover.      *)
FileOK(f, l, say, c, exists, t, inMirror) ==
    /\ 0 < c /\ c <= t => (inMirror <=> exists)
    /\ l.pc = "files" =>
        /\ say # "delete"
        /\ f \notin l.visited => say = "none"
        /\ f \in l.visited /\ 0 < c /\ c <= l.start => (say = "file" <=> exists)
    /\ l.pc = "changes" =>
        /\ c <= t => say = "none"
        /\ t < c /\ c <= l.pos => say = IF exists THEN "file" ELSE "delete"
    /\ l.pc = "done" /\ 0 < c /\ c <= l.start =>
        ((inMirror \/ say = "file") /\ say # "delete" <=> exists)

DriveOK(d) ==
    /\ Ordered(listing[d], head[d], token[d], mirror[d])
    /\ \A f \in Files :
        FileOK(f, listing[d], found[d][f], changed[d][f], f \in alive[d], token[d],
               f \in mirror[d])

PagesInv == PagesTypes /\ \A d \in Drives : DriveOK(d)

-----------------------------------------------------------------------------
(* A step that is about one drive: the others stay as they are. *)
LEMMA OneDrive ==
  ASSUME PagesInv, NEW d \in Drives, PagesTypes', DriveOK(d)',
         \A e \in Drives \ {d} :
            /\ listing'[e] = listing[e] /\ head'[e] = head[e] /\ token'[e] = token[e]
            /\ mirror'[e] = mirror[e] /\ found'[e] = found[e]
            /\ changed'[e] = changed[e] /\ alive'[e] = alive[e]
  PROVE  PagesInv'
<1>1. ASSUME NEW e \in Drives \ {d} PROVE DriveOK(e)'
  BY <1>1 DEF PagesInv, DriveOK
<1> QED
  BY <1>1 DEF PagesInv

(* A step of the client leaves the users' files alone. *)
LEMMA ClientStep ==
  ASSUME PagesInv, NEW d \in Drives, UNCHANGED gdriveVars,
         NEW l \in ListingRecord, listing' = [listing EXCEPT ![d] = l],
         NEW s \in [Files -> Said], found' = [found EXCEPT ![d] = s],
         NEW t \in Nat, token' = [token EXCEPT ![d] = t],
         NEW m \in SUBSET Files, mirror' = [mirror EXCEPT ![d] = m],
         Ordered(l, head[d], t, m),
         \A f \in Files : FileOK(f, l, s[f], changed[d][f], f \in alive[d], t, f \in m)
  PROVE  PagesInv'
<1>1. UNCHANGED <<head, changed, alive>>
  BY DEF gdriveVars
<1>2. PagesTypes'
  BY <1>1 DEF PagesInv, PagesTypes, GDriveTypeOK
<1>3. listing'[d] = l /\ found'[d] = s /\ token'[d] = t /\ mirror'[d] = m
  BY DEF PagesInv, PagesTypes
<1>4. DriveOK(d)'
  BY <1>1, <1>3 DEF DriveOK
<1>5. \A e \in Drives \ {d} :
        /\ listing'[e] = listing[e] /\ head'[e] = head[e] /\ token'[e] = token[e]
        /\ mirror'[e] = mirror[e] /\ found'[e] = found[e]
        /\ changed'[e] = changed[e] /\ alive'[e] = alive[e]
  BY <1>1 DEF PagesInv, PagesTypes
<1> QED
  BY <1>2, <1>4, <1>5, OneDrive

(* An edit: its file's change is ahead of everything read so far. *)
LEMMA EditKeeps ==
  ASSUME PagesInv, NEW d \in Drives, NEW f \in Files,
         WriteFile(d, f) \/ TrashFile(d, f), UNCHANGED <<listing, found, token, mirror>>
  PROVE  PagesInv'
<1>1. /\ head \in [Drives -> Nat \ {0}] /\ changed \in [Drives -> [Files -> Nat]]
      /\ alive \in [Drives -> SUBSET Files]
      /\ listing[d] \in ListingRecord /\ token[d] \in Nat /\ head[d] \in Nat
  BY DEF PagesInv, PagesTypes, GDriveTypeOK
<1>2. PICK a \in SUBSET Files : /\ alive' = [alive EXCEPT ![d] = a]
                                /\ \A g \in Files \ {f} : g \in a <=> g \in alive[d]
  BY <1>1 DEF WriteFile, TrashFile
<1>3. /\ head' = [head EXCEPT ![d] = @ + 1]
      /\ changed' = [changed EXCEPT ![d][f] = head[d] + 1]
  BY DEF WriteFile, TrashFile, LogChange
<1>4. PagesTypes'
  BY <1>1, <1>2, <1>3 DEF PagesInv, PagesTypes, GDriveTypeOK
<1>5. /\ head'[d] = head[d] + 1 /\ alive'[d] = a /\ changed'[d][f] = head[d] + 1
      /\ \A g \in Files \ {f} : changed'[d][g] = changed[d][g]
  BY <1>1, <1>2, <1>3
<1>6. DriveOK(d)
  BY DEF PagesInv
<1>7. Ordered(listing[d], head[d] + 1, token[d], mirror[d])
  BY <1>1, <1>6 DEF DriveOK, Ordered, ListingRecord
<1>8. ASSUME NEW g \in Files
      PROVE  FileOK(g, listing[d], found[d][g], changed'[d][g], g \in a, token[d], g \in mirror[d])
  <2>1. CASE g = f
    <3>1. FileOK(f, listing[d], found[d][f], changed[d][f], f \in alive[d], token[d], f \in mirror[d])
      BY <1>6 DEF DriveOK
    <3>2. listing[d].start \in Nat /\ listing[d].pos \in Nat
      BY <1>1 DEF ListingRecord
    <3>3. ~(head[d] + 1 <= token[d])
          /\ (listing[d].pc \in {"files", "done"} => ~(head[d] + 1 <= listing[d].start))
          /\ (listing[d].pc = "changes" => ~(head[d] + 1 <= listing[d].pos))
      BY <1>1, <1>6, <3>2 DEF DriveOK, Ordered
    <3> QED BY <1>5, <2>1, <3>1, <3>3 DEF FileOK
  <2>2. CASE g # f
    BY <1>2, <1>5, <1>6, <2>2 DEF DriveOK, FileOK
  <2> QED BY <2>1, <2>2
<1>9. DriveOK(d)'
  BY <1>5, <1>7, <1>8 DEF DriveOK
<1>10. \A e \in Drives \ {d} :
        /\ listing'[e] = listing[e] /\ head'[e] = head[e] /\ token'[e] = token[e]
        /\ mirror'[e] = mirror[e] /\ found'[e] = found[e]
        /\ changed'[e] = changed[e] /\ alive'[e] = alive[e]
  BY <1>1, <1>2, <1>3
<1> QED
  BY <1>4, <1>9, <1>10, OneDrive

-----------------------------------------------------------------------------
(* The steps of the client, each an instance of ClientStep. *)

LEMMA DriveTypes ==
  ASSUME PagesInv, NEW d \in Drives
  PROVE  /\ listing[d] \in ListingRecord /\ found[d] \in [Files -> Said]
         /\ token[d] \in Nat /\ mirror[d] \in SUBSET Files
         /\ head[d] \in Nat \ {0} /\ changed[d] \in [Files -> Nat] /\ alive[d] \in SUBSET Files
         /\ found = [found EXCEPT ![d] = found[d]] /\ token = [token EXCEPT ![d] = token[d]]
         /\ mirror = [mirror EXCEPT ![d] = mirror[d]]
         /\ NoListing \in ListingRecord /\ NoListing.pc = "none" /\ Nothing \in [Files -> Said]
  BY DEF PagesInv, PagesTypes, GDriveTypeOK, NoListing, ListingRecord, Nothing, Said

LEMMA OpenKeeps ==
  ASSUME PagesInv, NEW d \in Drives, OpenFull(d) \/ OpenDelta(d)
  PROVE  PagesInv'
<1>1. DriveOK(d) /\ listing[d].pc = "none"
  BY DEF PagesInv, OpenFull, OpenDelta, InQuery
<1>2. /\ UNCHANGED <<gdriveVars, token, mirror>>
      /\ found' = [found EXCEPT ![d] = Nothing]
  BY DEF OpenFull, OpenDelta
<1>3. \A f \in Files : Nothing[f] = "none"
  BY DEF Nothing
<1>4. CASE OpenFull(d)
  <2> DEFINE l == [NoListing EXCEPT !.pc = "files", !.start = StartPageToken(d)]
  <2>1. token[d] = 0 /\ listing' = [listing EXCEPT ![d] = l]
    BY <1>4 DEF OpenFull
  <2>2. l \in ListingRecord /\ l.pc = "files" /\ l.start = head[d] /\ l.visited = {}
    BY DriveTypes DEF NoListing, ListingRecord, StartPageToken
  <2> HIDE DEF l
  <2>3. Ordered(l, head[d], token[d], mirror[d])
    BY <1>1, <2>1, <2>2, DriveTypes DEF DriveOK, Ordered
  <2>4. ASSUME NEW f \in Files
        PROVE  FileOK(f, l, Nothing[f], changed[d][f], f \in alive[d], token[d], f \in mirror[d])
    BY <1>1, <1>3, <2>2 DEF DriveOK, FileOK
  <2> QED BY <1>2, <2>1, <2>2, <2>3, <2>4, DriveTypes, ClientStep
<1>5. CASE OpenDelta(d)
  <2> DEFINE l == [NoListing EXCEPT !.pc = "changes", !.start = token[d], !.pos = token[d]]
  <2>1. token[d] > 0 /\ listing' = [listing EXCEPT ![d] = l]
    BY <1>5 DEF OpenDelta
  <2>2. l \in ListingRecord /\ l.pc = "changes" /\ l.start = token[d] /\ l.pos = token[d]
    BY DriveTypes DEF NoListing, ListingRecord
  <2> HIDE DEF l
  <2>3. Ordered(l, head[d], token[d], mirror[d])
    BY <1>1, <2>1, <2>2, DriveTypes DEF DriveOK, Ordered
  <2>4. ASSUME NEW f \in Files
        PROVE  FileOK(f, l, Nothing[f], changed[d][f], f \in alive[d], token[d], f \in mirror[d])
    <3>1. changed[d][f] \in Nat /\ token[d] \in Nat
      BY DriveTypes
    <3> QED BY <1>1, <1>3, <2>2, <3>1 DEF DriveOK, FileOK
  <2> QED BY <1>2, <2>1, <2>2, <2>3, <2>4, DriveTypes, ClientStep
<1> QED BY <1>4, <1>5

LEMMA FilesPageKeeps ==
  ASSUME PagesInv, NEW d \in Drives, FilesPage(d)
  PROVE  PagesInv'
<1>1. DriveOK(d) /\ listing[d].pc = "files"
  BY DEF PagesInv, FilesPage, InQuery
<1>2. PICK S \in SUBSET (Files \ listing[d].visited) :
        LET visited == listing[d].visited \cup S IN
        /\ found' = [found EXCEPT ![d] = [f \in Files |->
                        IF f \in S \cap alive[d] THEN "file" ELSE found[d][f]]]
        /\ listing' = [listing EXCEPT ![d].visited = visited, ![d].attempt = 0,
                          ![d].pc = IF visited = Files THEN "done" ELSE "files"]
  BY DEF FilesPage
<1> DEFINE visited == listing[d].visited \cup S
           l == [listing[d] EXCEPT !.visited = visited, !.attempt = 0,
                   !.pc = IF visited = Files THEN "done" ELSE "files"]
           s == [f \in Files |-> IF f \in S \cap alive[d] THEN "file" ELSE found[d][f]]
<1>3. listing' = [listing EXCEPT ![d] = l]
  BY <1>2 DEF PagesInv, PagesTypes
<1>4. found' = [found EXCEPT ![d] = s] /\ UNCHANGED <<gdriveVars, token, mirror>>
  BY <1>2 DEF FilesPage
<1>5. /\ l \in ListingRecord /\ l.visited = visited /\ l.start = listing[d].start
      /\ l.pc = IF visited = Files THEN "done" ELSE "files"
  <2> DEFINE pc == IF visited = Files THEN "done" ELSE "files"
  <2>1. listing[d] \in ListingRecord /\ visited \in SUBSET Files /\ pc \in {"files", "done"}
    BY <1>2, DriveTypes DEF ListingRecord
  <2> HIDE DEF pc, visited
  <2> QED BY <2>1 DEF ListingRecord, pc
<1>6. s \in [Files -> Said]
  BY DriveTypes DEF Said
<1> HIDE DEF l
<1>7. Ordered(l, head[d], token[d], mirror[d])
  BY <1>1, <1>5 DEF DriveOK, Ordered
<1>8. token[d] = 0 /\ mirror[d] = {}
  BY <1>1 DEF DriveOK, Ordered
<1>9. ASSUME NEW f \in Files
      PROVE  FileOK(f, l, s[f], changed[d][f], f \in alive[d], token[d], f \in mirror[d])
  <2>1. FileOK(f, listing[d], found[d][f], changed[d][f], f \in alive[d], token[d], f \in mirror[d])
    BY <1>1 DEF DriveOK
  <2>2. /\ found[d][f] # "delete" /\ (f \notin listing[d].visited => found[d][f] = "none")
        /\ f \in listing[d].visited /\ 0 < changed[d][f] /\ changed[d][f] <= l.start
           => (found[d][f] = "file" <=> f \in alive[d])
    BY <1>1, <1>5, <2>1 DEF FileOK
  <2>3. /\ s[f] # "delete" /\ (f \notin visited => s[f] = "none")
        /\ f \in visited /\ 0 < changed[d][f] /\ changed[d][f] <= l.start
           => (s[f] = "file" <=> f \in alive[d])
    BY <2>2
  <2> HIDE DEF s
  <2>4. visited = Files => f \in visited
    OBVIOUS
  <2> HIDE DEF visited
  <2> QED BY <1>5, <1>8, <2>1, <2>3, <2>4 DEF FileOK
<1> HIDE DEF s
<1> QED BY <1>3, <1>4, <1>5, <1>6, <1>7, <1>9, DriveTypes, ClientStep

LEMMA ChangesPageKeeps ==
  ASSUME PagesInv, NEW d \in Drives, ChangesPage(d)
  PROVE  PagesInv'
<1>1. DriveOK(d) /\ listing[d].pc = "changes"
  BY DEF PagesInv, ChangesPage, InQuery
<1> DEFINE next == listing[d].pos + PageSize
           final == next >= head[d]
           to   == IF final THEN head[d] ELSE next
           l == [listing[d] EXCEPT !.pos = to, !.attempt = 0, !.start = IF final THEN to ELSE @,
                   !.pc = IF final THEN "done" ELSE "changes"]
           s == [f \in Files |-> IF changed[d][f] \in (listing[d].pos + 1) .. to
                                 THEN IF f \in alive[d] THEN "file" ELSE "delete"
                                 ELSE found[d][f]]
<1>2. /\ found' = [found EXCEPT ![d] = s]
      /\ listing' = [listing EXCEPT ![d].pos = to, ![d].attempt = 0,
                        ![d].start = IF final THEN to ELSE @,
                        ![d].pc = IF final THEN "done" ELSE "changes"]
      /\ UNCHANGED <<gdriveVars, token, mirror>>
  BY DEF ChangesPage
<1>3. listing' = [listing EXCEPT ![d] = l]
  BY <1>2 DEF PagesInv, PagesTypes
<1>4. /\ listing[d].pos \in Nat /\ head[d] \in Nat /\ token[d] \in Nat /\ to \in Nat
      /\ listing[d].start = token[d] /\ 1 <= token[d] /\ token[d] <= listing[d].pos
      /\ listing[d].pos <= to /\ to <= head[d]
  BY <1>1, DriveTypes, PagesAssumption DEF DriveOK, Ordered, ListingRecord
<1> HIDE DEF to, final
<1>5. /\ l \in ListingRecord /\ l.pos = to
      /\ l.start = (IF final THEN to ELSE token[d])
      /\ l.pc = IF final THEN "done" ELSE "changes"
  <2> DEFINE start == IF final THEN to ELSE listing[d].start
             pc    == IF final THEN "done" ELSE "changes"
  <2>1. listing[d] \in ListingRecord /\ start \in Nat /\ pc \in {"none", "files", "changes", "done"}
    BY <1>4, DriveTypes
  <2>2. start = (IF final THEN to ELSE token[d])
    BY <1>4
  <2>3. l = [listing[d] EXCEPT !.pos = to, !.attempt = 0, !.start = start, !.pc = pc]
    OBVIOUS
  <2> HIDE DEF l, start
  <2>4. /\ l.pc = pc /\ l.start = start /\ l.pos = to /\ l.attempt = 0
        /\ l.visited = listing[d].visited /\ l \in ListingRecord
    <3> HIDE DEF pc
    <3> QED BY <1>4, <2>1, <2>3 DEF ListingRecord
  <2> QED BY <2>2, <2>4
<1>6. s \in [Files -> Said]
  BY DriveTypes DEF Said
<1> HIDE DEF l
<1>7. Ordered(l, head[d], token[d], mirror[d])
  BY <1>1, <1>4, <1>5 DEF DriveOK, Ordered
<1>8. ASSUME NEW f \in Files
      PROVE  FileOK(f, l, s[f], changed[d][f], f \in alive[d], token[d], f \in mirror[d])
  <2> DEFINE c == changed[d][f]
  <2>1. FileOK(f, listing[d], found[d][f], c, f \in alive[d], token[d], f \in mirror[d])
    BY <1>1 DEF DriveOK
  <2>2. c \in Nat
    BY DriveTypes
  <2>3. /\ 0 < c /\ c <= token[d] => (f \in mirror[d] <=> f \in alive[d])
        /\ c <= token[d] => found[d][f] = "none"
        /\ token[d] < c /\ c <= listing[d].pos
           => found[d][f] = IF f \in alive[d] THEN "file" ELSE "delete"
    BY <1>1, <2>1 DEF FileOK
  <2>4. s[f] = IF c \in (listing[d].pos + 1) .. to
               THEN IF f \in alive[d] THEN "file" ELSE "delete"
               ELSE found[d][f]
    OBVIOUS
  <2> HIDE DEF s, c
  <2>5. /\ c <= token[d] => s[f] = "none"
        /\ token[d] < c /\ c <= to => s[f] = IF f \in alive[d] THEN "file" ELSE "delete"
    <3>1. CASE c <= token[d]
      BY <1>4, <2>2, <2>3, <2>4, <3>1
    <3>2. CASE token[d] < c /\ c <= listing[d].pos
      BY <1>4, <2>2, <2>3, <2>4, <3>2
    <3>3. CASE listing[d].pos < c
      BY <1>4, <2>2, <2>4, <3>3
    <3> QED BY <1>4, <2>2, <3>1, <3>2, <3>3
  <2>6. CASE final
    <3>1. 0 < c /\ c <= to => ((f \in mirror[d] \/ s[f] = "file") /\ s[f] # "delete" <=> f \in alive[d])
      BY <1>4, <2>2, <2>3, <2>5
    <3> QED BY <1>5, <2>3, <2>6, <3>1 DEF FileOK, c
  <2>7. CASE ~final
    BY <1>5, <2>3, <2>5, <2>7 DEF FileOK, c
  <2> QED BY <2>6, <2>7
<1> HIDE DEF s
<1> QED BY <1>2, <1>3, <1>5, <1>6, <1>7, <1>8, DriveTypes, ClientStep

LEMMA RetryKeeps ==
  ASSUME PagesInv, NEW d \in Drives, RetryPage(d) \/ PageRaises(d)
  PROVE  PagesInv'
<1>1. DriveOK(d)
  BY DEF PagesInv
<1>2. UNCHANGED <<gdriveVars, found, token, mirror>>
  BY DEF RetryPage, PageRaises
<1>3. CASE RetryPage(d)
  <2> DEFINE l == [listing[d] EXCEPT !.attempt = @ + 1]
  <2>1. /\ l \in ListingRecord /\ l.pc = listing[d].pc /\ l.start = listing[d].start
        /\ l.pos = listing[d].pos /\ l.visited = listing[d].visited
    BY DriveTypes DEF ListingRecord
  <2>2. listing' = [listing EXCEPT ![d] = l]
    BY <1>3 DEF RetryPage
  <2> HIDE DEF l
  <2>3. Ordered(l, head[d], token[d], mirror[d])
    BY <1>1, <2>1 DEF DriveOK, Ordered
  <2>4. \A f \in Files :
          FileOK(f, l, found[d][f], changed[d][f], f \in alive[d], token[d], f \in mirror[d])
    BY <1>1, <2>1 DEF DriveOK, FileOK
  <2> QED BY <1>2, <2>1, <2>2, <2>3, <2>4, DriveTypes, ClientStep
<1>4. CASE PageRaises(d)
  <2>1. listing' = [listing EXCEPT ![d] = NoListing]
    BY <1>4 DEF PageRaises
  <2>2. Ordered(NoListing, head[d], token[d], mirror[d])
    BY <1>1, DriveTypes DEF DriveOK, Ordered
  <2>3. \A f \in Files : FileOK(f, NoListing, found[d][f], changed[d][f], f \in alive[d], token[d],
                                f \in mirror[d])
    BY <1>1, DriveTypes DEF DriveOK, FileOK
  <2> QED BY <1>2, <2>1, <2>2, <2>3, DriveTypes, ClientStep
<1> QED BY <1>3, <1>4

LEMMA CloseKeeps ==
  ASSUME PagesInv, NEW d \in Drives, CloseListing(d)
  PROVE  PagesInv'
<1> DEFINE m == (mirror[d] \cup {f \in Files : found[d][f] = "file"})
                   \ {f \in Files : found[d][f] = "delete"}
           t == listing[d].start
<1>1. DriveOK(d) /\ listing[d].pc = "done"
  BY DEF PagesInv, CloseListing, InQuery
<1>2. /\ UNCHANGED <<gdriveVars, found>> /\ listing' = [listing EXCEPT ![d] = NoListing]
      /\ token' = [token EXCEPT ![d] = t] /\ mirror' = [mirror EXCEPT ![d] = m]
  BY DEF CloseListing
<1>3. t \in Nat /\ m \in SUBSET Files /\ 1 <= t /\ t <= head[d]
  BY <1>1, DriveTypes DEF DriveOK, Ordered, ListingRecord
<1>4. Ordered(NoListing, head[d], t, m)
  BY <1>3, DriveTypes DEF Ordered
<1>5. ASSUME NEW f \in Files
      PROVE  FileOK(f, NoListing, found[d][f], changed[d][f], f \in alive[d], t, f \in m)
  <2>1. FileOK(f, listing[d], found[d][f], changed[d][f], f \in alive[d], token[d], f \in mirror[d])
    BY <1>1 DEF DriveOK
  <2>2. f \in m <=> (f \in mirror[d] \/ found[d][f] = "file") /\ found[d][f] # "delete"
    OBVIOUS
  <2> HIDE DEF m
  <2> QED BY <1>1, <2>1, <2>2, DriveTypes DEF FileOK
<1> HIDE DEF m, t
<1> QED BY <1>2, <1>3, <1>4, <1>5, DriveTypes, ClientStep

-----------------------------------------------------------------------------
(* However users edit between the pages and whichever pages fail, the      *)
(* files listed are those that exist, up to the token                      *)
(* (src/src/drive_client.py:239-261, src/src/drive_client.py:494-509).     *)
THEOREM ListingsMirror == PagesSpec => []Mirrored
<1>1. PagesInit => PagesInv
  <2> SUFFICES ASSUME PagesInit PROVE PagesInv
    OBVIOUS
  <2>1. PagesTypes
    BY DEF PagesInit, GDriveInit, PagesTypes, GDriveTypeOK, NoListing, ListingRecord, Nothing, Said
  <2>2. ASSUME NEW d \in Drives PROVE DriveOK(d)
    BY DEF PagesInit, GDriveInit, DriveOK, Ordered, FileOK, NoListing
  <2> QED BY <2>1, <2>2 DEF PagesInv
<1>2. PagesInv /\ [PagesNext]_pagesVars => PagesInv'
  <2> SUFFICES ASSUME PagesInv, [PagesNext]_pagesVars PROVE PagesInv'
    OBVIOUS
  <2>1. ASSUME NEW d \in Drives, Edit(d) PROVE PagesInv'
    BY <2>1, EditKeeps DEF Edit
  <2>2. CASE UNCHANGED pagesVars
    BY <2>2 DEF pagesVars, gdriveVars, PagesInv, PagesTypes, GDriveTypeOK, DriveOK
  <2> QED
    BY <2>1, <2>2, OpenKeeps, FilesPageKeeps, ChangesPageKeeps, RetryKeeps, CloseKeeps DEF PagesNext
<1>3. PagesInv => Mirrored
  BY DEF PagesInv, DriveOK, FileOK, Mirrored
<1> QED
  BY <1>1, <1>2, <1>3, PTL DEF PagesSpec

-----------------------------------------------------------------------------
(* ChunkStore *)

Rows == [by : Nat, born : Nat]
TxRecord == [pc : {"none", "delete", "insert", "commit"}, id : Nat, size : 0 .. MaxChunks,
             want : SUBSET Indexes, snap : [Indexes -> Rows], gone : SUBSET Indexes,
             own : [Indexes -> Rows], next : Nat]

StoreTypes ==
    /\ stored \in [Indexes -> Rows]
    /\ tx \in [Sessions -> TxRecord]
    /\ begun \in 0 .. MaxUpserts
    /\ last \in [id : 0 .. begun, size : 0 .. MaxChunks]
    /\ overlaps \in [Txs -> SUBSET Txs]

(* Transactions that are open at one time overlap. *)
OpenOverlap ==
    /\ \A s \in Sessions : InTx(s) => tx[s].id \in 1 .. begun
    /\ \A s, t \in Sessions : s # t /\ InTx(s) /\ InTx(t) => tx[s].id \in overlaps[tx[t].id]

(* A transaction has written the chunks before the next one, and no other. *)
OwnChunks(x) ==
    /\ \A i \in Indexes : x.own[i] # NoRow <=> i < x.next
    /\ \A i \in Indexes : i < x.next => x.own[i].by = x.id
    /\ x.pc = "delete" => x.next = 0
    /\ x.pc \in {"insert", "commit"} => x.want = {}
    /\ x.pc = "insert" => x.next < x.size
    /\ x.pc = "commit" => x.next = x.size

(* A row that is stored now but was not in the snapshot, or that the       *)
(* DELETE has passed by, belongs to a transaction that overlapped.         *)
Recent(x, row, over) == row # NoRow => row.by \in over[x.id]
Accounted(x, rows, over) ==
    \A i \in Indexes : /\ rows[i] = x.snap[i] \/ Recent(x, rows[i], over)
                       /\ i \in x.want \/ i \in x.gone \/ Recent(x, rows[i], over)

Unwritten == last.id = 0 => \A i \in Indexes : stored[i] = NoRow

StoreInv ==
    /\ StoreTypes /\ OpenOverlap /\ Unwritten /\ LastWhole
    /\ \A s \in Sessions : InTx(s) => OwnChunks(tx[s]) /\ Accounted(tx[s], stored, overlaps)

-----------------------------------------------------------------------------
(* A step of one open transaction that commits nothing. *)
LEMMA TxGoesOn ==
  ASSUME StoreInv, NEW s \in Sessions, InTx(s), NEW x \in TxRecord,
         tx' = [tx EXCEPT ![s] = x], UNCHANGED <<stored, begun, last, overlaps>>,
         x.pc # "none" => x.id = tx[s].id /\ OwnChunks(x) /\ Accounted(x, stored, overlaps)
  PROVE  StoreInv'
<1>1. StoreTypes'
  BY DEF StoreInv, StoreTypes, Indexes, Txs
<1>2. \A t \in Sessions : tx'[t] = IF t = s THEN x ELSE tx[t]
  BY DEF StoreInv, StoreTypes
<1>3. OpenOverlap'
  BY <1>2 DEF StoreInv, OpenOverlap, InTx
<1>4. LastWhole' /\ Unwritten'
  BY DEF StoreInv, LastWhole, Unwritten, Present, Indexes
<1>5. ASSUME NEW t \in Sessions, tx'[t].pc # "none" PROVE OwnChunks(tx'[t]) /\ Accounted(tx'[t], stored', overlaps')
  <2>1. OwnChunks(tx'[t]) /\ Accounted(tx'[t], stored, overlaps)
    BY <1>2, <1>5 DEF StoreInv, InTx
  <2> QED BY <2>1
<1> QED BY <1>1, <1>3, <1>4, <1>5 DEF StoreInv, InTx, OwnChunks, Accounted, Recent, Indexes

LEMMA TxStart == NoTx \in TxRecord /\ NoTx.pc = "none" /\ NoRow \in Rows
  BY ChunkStoreAssumption DEF NoTx, NoRow, TxRecord, Rows, Indexes

(* What the statements change in the record of a transaction. *)
LEMMA TxBegins ==
  ASSUME NEW p \in {"delete"}, NEW n \in Nat, NEW z \in 0 .. MaxChunks,
         NEW w \in SUBSET Indexes, NEW rows \in [Indexes -> Rows]
  PROVE  [NoTx EXCEPT !.pc = p, !.id = n, !.size = z, !.want = w, !.snap = rows] \in TxRecord
<1>1. NoTx \in TxRecord
  BY TxStart
<1> QED BY <1>1 DEF TxRecord

LEMMA TxAdvances ==
  ASSUME NEW r \in TxRecord, NEW p \in {"insert", "commit"},
         NEW o \in [Indexes -> Rows], NEW n \in Nat
  PROVE  [r EXCEPT !.own = o, !.next = n, !.pc = p] \in TxRecord
  BY DEF TxRecord

LEMMA StoreStep == StoreInv /\ [ChunkNext]_chunkVars => StoreInv'
<1> SUFFICES ASSUME StoreInv, [ChunkNext]_chunkVars PROVE StoreInv'
  OBVIOUS
<1>0. /\ stored \in [Indexes -> Rows] /\ tx \in [Sessions -> TxRecord]
      /\ begun \in 0 .. MaxUpserts /\ overlaps \in [Txs -> SUBSET Txs]
      /\ MaxUpserts \in Nat /\ MaxChunks \in Nat \ {0}
      /\ \A i \in Indexes : i \in Nat
  BY ChunkStoreAssumption DEF StoreInv, StoreTypes, Indexes
<1>1. ASSUME NEW s \in Sessions, NEW sent \in 0 .. MaxChunks, BeginUpsert(s, sent)
      PROVE  StoreInv'
  <2> DEFINE n == begun + 1
             open == {tx[t].id : t \in {t \in Sessions : InTx(t)}}
             x == [NoTx EXCEPT !.pc = "delete", !.id = n, !.size = sent,
                               !.want = {i \in Indexes : Present(i)}, !.snap = stored]
  <2>1. /\ n \in Txs /\ begun' = n /\ begun' \in 0 .. MaxUpserts
        /\ tx' = [tx EXCEPT ![s] = x] /\ UNCHANGED <<stored, last>>
        /\ overlaps' = [m \in Txs |-> IF m = n THEN open
                                      ELSE IF m \in open THEN overlaps[m] \cup {n}
                                      ELSE overlaps[m]]
    BY <1>0, <1>1 DEF BeginUpsert, Txs
  <2>2. /\ x \in TxRecord /\ x.pc = "delete" /\ x.id = n /\ x.next = 0 /\ x.snap = stored
        /\ x.want = {i \in Indexes : Present(i)} /\ x.own = [i \in Indexes |-> NoRow]
    <3>1. n \in Nat /\ {i \in Indexes : Present(i)} \in SUBSET Indexes
      BY <1>0
    <3>2. x \in TxRecord
      BY <1>0, <3>1, TxBegins
    <3> QED BY <3>2 DEF NoTx
  <2>3. \A t \in Sessions : tx'[t] = IF t = s THEN x ELSE tx[t]
    BY <1>0, <2>1
  <2>4. open \subseteq Txs /\ n \notin open
    BY <1>0 DEF StoreInv, OpenOverlap, Txs
  <2> HIDE DEF x, n, open
  <2>5. StoreTypes'
    <3>1. overlaps' \in [Txs -> SUBSET Txs]
      BY <1>0, <2>1, <2>4
    <3>2. last' \in [id : 0 .. begun', size : 0 .. MaxChunks]
      BY <1>0, <2>1 DEF StoreInv, StoreTypes, n
    <3>3. tx' \in [Sessions -> TxRecord]
      BY <1>0, <2>1, <2>2
    <3> QED BY <1>0, <2>1, <3>1, <3>2, <3>3 DEF StoreTypes, Indexes, Txs, Rows, TxRecord
  <2>6. \A t \in Sessions \ {s} : InTx(t) => tx[t].id \in open /\ tx[t].id \in Txs
    BY <2>4 DEF open
  <2>7. \A m \in Txs : m # n => overlaps[m] \subseteq overlaps'[m]
    BY <1>0, <2>1
  <2>8. OpenOverlap'
    <3>1. \A t \in Sessions : tx'[t].pc # "none" => tx'[t].id \in 1 .. begun'
      BY <1>0, <2>1, <2>2, <2>3 DEF StoreInv, OpenOverlap, InTx, n
    <3>2. ASSUME NEW t \in Sessions, NEW u \in Sessions, t # u,
                 tx'[t].pc # "none", tx'[u].pc # "none"
          PROVE  tx'[t].id \in overlaps'[tx'[u].id]
      <4>1. CASE u = s
        BY <2>1, <2>2, <2>3, <2>6, <3>2, <4>1 DEF InTx
      <4>2. CASE t = s
        BY <2>1, <2>2, <2>3, <2>4, <2>6, <3>2, <4>2 DEF InTx
      <4>3. CASE t # s /\ u # s
        <5>1. tx[t].id \in overlaps[tx[u].id]
          BY <2>3, <3>2, <4>3 DEF StoreInv, OpenOverlap, InTx
        <5> QED BY <2>3, <2>4, <2>6, <2>7, <3>2, <4>3, <5>1 DEF InTx
      <4> QED BY <4>1, <4>2, <4>3
    <3> QED BY <3>1, <3>2 DEF OpenOverlap, InTx
  <2>9. LastWhole' /\ Unwritten'
    <3>1. last.id # n
      BY <1>0 DEF StoreInv, StoreTypes, n
    <3>2. last.id \in Txs => overlaps[last.id] \subseteq overlaps'[last.id]
      BY <2>7, <3>1
    <3>3. last.id \notin Txs => last.id = 0
      BY <1>0 DEF StoreInv, StoreTypes, Txs
    <3>4. ASSUME NEW i \in Indexes, stored[i] # NoRow, stored[i].by # last.id
          PROVE  stored[i].by \in overlaps'[last.id]
      BY <3>2, <3>3, <3>4 DEF StoreInv, LastWhole, Unwritten, Present
    <3> QED BY <2>1, <3>4 DEF StoreInv, LastWhole, Unwritten, Present
  <2>10. ASSUME NEW t \in Sessions, tx'[t].pc # "none"
         PROVE  OwnChunks(tx'[t]) /\ Accounted(tx'[t], stored', overlaps')
    <3>1. CASE t = s
      <4>1. OwnChunks(x)
        BY <1>0, <2>2 DEF OwnChunks
      <4>2. Accounted(x, stored', overlaps')
        BY <2>1, <2>2 DEF Accounted, Recent, Present, x
      <4> QED BY <2>3, <3>1, <4>1, <4>2
    <3>2. CASE t # s
      <4>1. OwnChunks(tx[t]) /\ Accounted(tx[t], stored, overlaps) /\ tx[t].id \in Txs /\ tx[t].id # n
        BY <2>3, <2>4, <2>6, <2>10, <3>2 DEF StoreInv, InTx
      <4>2. overlaps[tx[t].id] \subseteq overlaps'[tx[t].id]
        BY <2>7, <4>1
      <4> QED BY <2>1, <2>3, <3>2, <4>1, <4>2 DEF Accounted, Recent, Present
    <3> QED BY <3>1, <3>2
  <2> QED BY <2>5, <2>8, <2>9, <2>10 DEF StoreInv, InTx, OwnChunks, Accounted, Recent
<1>2. ASSUME NEW s \in Sessions, NEW i \in Indexes, DeleteRow(s, i) PROVE StoreInv'
  <2> DEFINE g == IF stored[i].born = tx[s].snap[i].born THEN tx[s].gone \cup {i} ELSE tx[s].gone
             x == [tx[s] EXCEPT !.want = tx[s].want \ {i}, !.gone = g]
  <2>1. tx' = [tx EXCEPT ![s] = x] /\ tx[s].pc = "delete" /\ InTx(s)
    BY <1>0, <1>2 DEF DeleteRow, InTx
  <2>2. /\ x \in TxRecord /\ x.id = tx[s].id /\ x.own = tx[s].own /\ x.next = tx[s].next
        /\ x.pc = "delete" /\ x.snap = tx[s].snap /\ x.want = tx[s].want \ {i} /\ x.gone = g
    BY <1>0, <2>1 DEF TxRecord
  <2>3. OwnChunks(x)
    BY <2>1, <2>2 DEF OwnChunks, StoreInv
  <2>4. stored[i] = tx[s].snap[i] => i \in g
    OBVIOUS
  <2>5. tx[s].gone \subseteq g
    OBVIOUS
  <2> HIDE DEF g, x
  <2>6. Accounted(x, stored, overlaps)
    BY <2>1, <2>2, <2>4, <2>5 DEF Accounted, Recent, StoreInv
  <2> QED BY <1>2, <2>1, <2>2, <2>3, <2>6, TxGoesOn DEF DeleteRow
<1>3. ASSUME NEW s \in Sessions, DeleteEnd(s) PROVE StoreInv'
  <2> DEFINE p == IF tx[s].size = 0 THEN "commit" ELSE "insert"
             x == [tx[s] EXCEPT !.pc = p]
  <2>1. tx' = [tx EXCEPT ![s] = x] /\ tx[s].pc = "delete" /\ InTx(s) /\ tx[s].want = {}
    BY <1>0, <1>3 DEF DeleteEnd, InTx
  <2>p. p \in {"commit", "insert"} /\ (p = "commit" <=> tx[s].size = 0)
    OBVIOUS
  <2> HIDE DEF p
  <2>2. /\ x \in TxRecord /\ x.id = tx[s].id /\ x.own = tx[s].own /\ x.next = tx[s].next
        /\ x.pc = p /\ x.snap = tx[s].snap
        /\ x.want = tx[s].want /\ x.gone = tx[s].gone /\ x.size = tx[s].size
    <3> DEFINE r == tx[s]
    <3>1. r \in TxRecord
      BY <1>0
    <3> HIDE DEF r
    <3>2. [r EXCEPT !.pc = p] \in TxRecord
      BY <2>p, <3>1 DEF TxRecord
    <3> QED BY <3>2, <2>p, <3>1 DEF TxRecord, r
  <2>z. tx[s].size \in Nat
    BY <1>0 DEF TxRecord
  <2> HIDE DEF x
  <2>3. OwnChunks(x)
    BY <2>1, <2>2, <2>p, <2>z DEF OwnChunks, StoreInv
  <2>4. Accounted(x, stored, overlaps)
    BY <2>1, <2>2 DEF Accounted, Recent, StoreInv
  <2> QED BY <1>3, <2>1, <2>2, <2>3, <2>4, TxGoesOn DEF DeleteEnd
<1>4. ASSUME NEW s \in Sessions, InsertChunk(s) PROVE StoreInv'
  <2> DEFINE i == tx[s].next
             row == IF Present(i) /\ i \notin tx[s].gone THEN stored[i].born ELSE tx[s].id
             o == [tx[s].own EXCEPT ![i] = [by |-> tx[s].id, born |-> row]]
             p == IF i + 1 = tx[s].size THEN "commit" ELSE "insert"
             x == [tx[s] EXCEPT !.own = o, !.next = i + 1, !.pc = p]
  <2>1. tx' = [tx EXCEPT ![s] = x] /\ tx[s].pc = "insert" /\ InTx(s)
    BY <1>0, <1>4 DEF InsertChunk, InTx
  <2>p. p \in {"commit", "insert"} /\ (p = "commit" <=> i + 1 = tx[s].size)
    OBVIOUS
  <2> HIDE DEF p
  <2>2. /\ i \in Indexes /\ i < tx[s].size /\ tx[s].size \in 0 .. MaxChunks /\ i \in Nat
        /\ tx[s].id \in Nat /\ tx[s].id > 0
    BY <1>0, <2>1 DEF StoreInv, OwnChunks, OpenOverlap, TxRecord, Indexes
  <2>3. row \in Nat
    BY <1>0, <2>2 DEF Rows
  <2> HIDE DEF row
  <2>4. o \in [Indexes -> Rows]
    BY <1>0, <2>2, <2>3 DEF TxRecord, Rows
  <2>5. \A j \in Indexes : o[j] = IF j = i THEN [by |-> tx[s].id, born |-> row] ELSE tx[s].own[j]
    BY <1>0, <2>2 DEF TxRecord
  <2> HIDE DEF o
  <2>6. /\ x \in TxRecord /\ x.id = tx[s].id /\ x.own = o /\ x.next = i + 1
        /\ x.pc = p /\ x.snap = tx[s].snap
        /\ x.want = tx[s].want /\ x.gone = tx[s].gone /\ x.size = tx[s].size
    <3>1. tx[s] \in TxRecord /\ i + 1 \in Nat
      BY <1>0, <2>2
    <3> DEFINE r == tx[s]
               k == i + 1
    <3>2. r \in TxRecord /\ k \in Nat
      BY <3>1
    <3> HIDE DEF r, k
    <3>3. /\ [r EXCEPT !.own = o, !.next = k, !.pc = p] \in TxRecord
      BY <2>4, <2>p, <3>2, TxAdvances
    <3> QED BY <3>3, <2>4, <2>p, <3>2 DEF TxRecord, r, k
  <2> HIDE DEF x
  <2>7. OwnChunks(x)
    <3>0. OwnChunks(tx[s])
      BY <2>1 DEF StoreInv
    <3>1. \A j \in Indexes : (x.own[j] # NoRow <=> j < i + 1) /\ (j < i + 1 => x.own[j].by = tx[s].id)
      BY <1>0, <2>2, <2>5, <2>6, <3>0 DEF OwnChunks, NoRow
    <3>2. x.want = {} /\ x.pc # "delete"
      BY <2>1, <2>6, <2>p, <3>0 DEF OwnChunks
    <3> QED BY <2>2, <2>6, <2>p, <3>1, <3>2 DEF OwnChunks
  <2>8. Accounted(x, stored, overlaps)
    BY <2>1, <2>6 DEF Accounted, Recent, StoreInv
  <2> QED BY <1>4, <2>1, <2>6, <2>7, <2>8, TxGoesOn DEF InsertChunk
<1>5. ASSUME NEW s \in Sessions, CommitUpsert(s) PROVE StoreInv'
  <2> DEFINE x == tx[s]
  <2>1. /\ x.pc = "commit" /\ InTx(s) /\ x \in TxRecord /\ x.id \in 1 .. begun /\ x.id \in Txs
        /\ OwnChunks(x) /\ Accounted(x, stored, overlaps)
    BY <1>0, <1>5 DEF CommitUpsert, InTx, StoreInv, OpenOverlap, Txs
  <2>2. /\ tx' = [tx EXCEPT ![s] = NoTx] /\ UNCHANGED <<begun, overlaps>>
        /\ last' = [id |-> x.id, size |-> x.size]
        /\ \A i \in Indexes : stored'[i] = IF x.own[i] # NoRow THEN x.own[i]
                                           ELSE IF i \in x.gone THEN NoRow ELSE stored[i]
    BY <1>5 DEF CommitUpsert
  <2>3. StoreTypes'
    <3>1. stored' \in [Indexes -> Rows]
      <4>1. stored' = [i \in Indexes |-> IF x.own[i] # NoRow THEN x.own[i]
                                         ELSE IF i \in x.gone THEN NoRow ELSE stored[i]]
        BY <1>5 DEF CommitUpsert
      <4>2. \A i \in Indexes : x.own[i] \in Rows /\ NoRow \in Rows /\ stored[i] \in Rows
        BY <1>0, <2>1, TxStart DEF TxRecord
      <4> QED BY <4>1, <4>2
    <3>2. last' \in [id : 0 .. begun', size : 0 .. MaxChunks]
      BY <1>0, <2>1, <2>2 DEF TxRecord
    <3>3. tx' \in [Sessions -> TxRecord]
      BY <1>0, <2>2, TxStart
    <3> QED BY <1>0, <2>2, <3>1, <3>2, <3>3 DEF StoreTypes, Indexes, Txs, Rows, TxRecord
  <2>4. \A t \in Sessions : tx'[t] = IF t = s THEN NoTx ELSE tx[t]
    BY <1>0, <2>2
  <2>5. OpenOverlap'
    BY <2>2, <2>4, TxStart DEF StoreInv, OpenOverlap, InTx
  <2>6. LastWhole' /\ Unwritten'
    <3>1. \A i \in Indexes : i < x.size => stored'[i].by = x.id
      BY <2>1, <2>2 DEF OwnChunks
    <3>2. ASSUME NEW i \in Indexes, stored'[i] # NoRow, stored'[i].by # x.id
          PROVE  stored'[i].by \in overlaps[x.id]
      <4>1. x.own[i] = NoRow /\ i \notin x.gone /\ stored'[i] = stored[i]
        BY <2>1, <2>2, <3>2 DEF OwnChunks
      <4> QED BY <2>1, <3>2, <4>1 DEF OwnChunks, Accounted, Recent, Present
    <3> QED BY <2>1, <2>2, <3>1, <3>2 DEF LastWhole, Unwritten, Present
  <2>7. ASSUME NEW t \in Sessions, tx'[t].pc # "none"
        PROVE  OwnChunks(tx'[t]) /\ Accounted(tx'[t], stored', overlaps')
    <3>1. t # s /\ tx'[t] = tx[t] /\ InTx(t)
      BY <2>4, <2>7, TxStart DEF InTx
    <3>2. OwnChunks(tx[t]) /\ Accounted(tx[t], stored, overlaps) /\ x.id \in overlaps[tx[t].id]
      BY <2>1, <3>1 DEF StoreInv, OpenOverlap
    <3>3. \A i \in Indexes : \/ stored'[i] = stored[i]
                             \/ stored'[i] = NoRow
                             \/ stored'[i].by = x.id
      BY <2>1, <2>2 DEF OwnChunks
    <3>4. Accounted(tx[t], stored', overlaps')
      <4>1. ASSUME NEW i \in Indexes
            PROVE  /\ stored'[i] = tx[t].snap[i] \/ (stored'[i] # NoRow => stored'[i].by \in overlaps[tx[t].id])
                   /\ \/ i \in tx[t].want \/ i \in tx[t].gone
                      \/ (stored'[i] # NoRow => stored'[i].by \in overlaps[tx[t].id])
        BY <3>2, <3>3 DEF Accounted, Recent, Present
      <4> QED BY <2>2, <3>1, <4>1 DEF Accounted, Recent, Present
    <3> QED BY <3>1, <3>2, <3>4
  <2> QED BY <2>3, <2>5, <2>6, <2>7 DEF StoreInv, InTx, OwnChunks, Accounted, Recent
<1>6. ASSUME NEW s \in Sessions, RollbackUpsert(s) PROVE StoreInv'
  BY <1>6, TxStart, TxGoesOn DEF RollbackUpsert
<1>7. ASSUME UNCHANGED chunkVars PROVE StoreInv'
  BY <1>7 DEF chunkVars, StoreInv, StoreTypes, OpenOverlap, Unwritten, LastWhole, OwnChunks, Accounted,
              Recent, Present, InTx
<1> QED BY <1>1, <1>2, <1>3, <1>4, <1>5, <1>6, <1>7, Zenon DEF ChunkNext

(* The version of a file that was committed last is stored whole, and what *)
(* else is stored belongs to a transaction that overlapped with it         *)
(* (src/src/db.py:1105-1195).                                              *)
THEOREM LastCommitWhole == ChunkSpec => []LastWhole
<1>1. ChunkInit => StoreInv
  <2> SUFFICES ASSUME ChunkInit PROVE StoreInv
    OBVIOUS
  <2>1. \A s \in Sessions : tx[s] = NoTx /\ ~InTx(s)
    BY TxStart DEF ChunkInit, InTx
  <2>2. StoreTypes
    BY ChunkStoreAssumption, TxStart DEF ChunkInit, StoreTypes
  <2>3. LastWhole
    BY DEF ChunkInit, LastWhole, Present, Indexes
  <2> QED BY <2>1, <2>2, <2>3 DEF StoreInv, OpenOverlap, Unwritten, ChunkInit
<1>2. StoreInv => LastWhole
  BY DEF StoreInv
<1> QED BY <1>1, <1>2, StoreStep, PTL DEF ChunkSpec

-----------------------------------------------------------------------------
(* Chunking *)

Pieces == [para : Nat, first : Nat, last : Nat]

TextTypes ==
    /\ text \in Seq(Nat \ {0})
    /\ {size, overlap, offset} \subseteq Nat
    /\ para \in 1 .. Len(text) + 1
    /\ buf \in Seq(Pieces)
    /\ out \in Seq(Seq(Pieces))

(* Inside a paragraph only while its windows are cut, past the first one   *)
(* only under a limit.                                                     *)
Position ==
    /\ offset > 0 => para <= Len(text) /\ size > 0 /\ offset < text[para] /\ size < text[para] /\ buf = <<>>
    /\ size = 0 => buf = <<>> /\ (para <= Len(text) => out = <<>>)

Has(c, p, k)    == \E j \in DOMAIN c : c[j].para = p /\ c[j].first <= k /\ k <= c[j].last
Covers(o, p, k) == \E i \in DOMAIN o : Has(o[i], p, k)

(* What lies before the generator is yielded or buffered. *)
Covered ==
    /\ \A p \in 1 .. para - 1 : \A k \in 1 .. text[p] : Covers(out, p, k) \/ Has(buf, p, k)
    /\ \A k \in 1 .. offset : Covers(out, para, k)

Before(a, b) == a.para < b.para \/ (a.para = b.para /\ a.first < b.first)

(* Chunks begin in the order of the text, the buffer after all of them. *)
InOrder ==
    /\ \A i \in DOMAIN out :
        /\ out[i] # <<>>
        /\ \/ out[i][1].para < para
           \/ out[i][1].para = para /\ offset > 0 /\ out[i][1].first <= offset
        /\ buf # <<>> => out[i][1].para < buf[1].para
    /\ \A i, j \in DOMAIN out : i < j => Before(out[i][1], out[j][1])
    /\ buf # <<>> => buf[1].para < para

FitsIn(c) == IsFiniteSet(Chars(c)) /\ LenOf(c) <= size

WithinLimit == size > 0 => FitsIn(buf) /\ \A i \in DOMAIN out : FitsIn(out[i])

ChunkingInv == TextTypes /\ Position /\ Covered /\ InOrder /\ WithinLimit

(* A chunk is appended to those yielded. *)
LEMMA Yielded ==
    ASSUME NEW o \in Seq(Seq(Pieces)), NEW c \in Seq(Pieces)
    PROVE  /\ Append(o, c) \in Seq(Seq(Pieces))
           /\ \A i \in DOMAIN Append(o, c) : \/ i \in DOMAIN o /\ Append(o, c)[i] = o[i]
                                             \/ i = Len(o) + 1 /\ Append(o, c)[i] = c
           /\ DOMAIN o = 1 .. Len(o) /\ Len(o) \in Nat
           /\ DOMAIN Append(o, c) = 1 .. Len(o) + 1
           /\ \A p, k : Covers(o, p, k) \/ Has(c, p, k) => Covers(Append(o, c), p, k)
<1> DEFINE a == Append(o, c)
           n == Len(o)
<1>1. a \in Seq(Seq(Pieces)) /\ Len(a) = n + 1 /\ n \in Nat /\ (\A i \in 1 .. n : a[i] = o[i]) /\ a[n + 1] = c
  BY AppendProperties, LenProperties
<1>2. DOMAIN o = 1 .. n /\ DOMAIN a = 1 .. n + 1
  BY <1>1, LenProperties
<1> HIDE DEF a, n
<1>3. ASSUME NEW p, NEW k, Covers(o, p, k) \/ Has(c, p, k) PROVE Covers(a, p, k)
  <2>1. CASE Covers(o, p, k)
    <3>1. PICK i \in DOMAIN o : Has(o[i], p, k)
      BY <2>1 DEF Covers
    <3>2. i \in DOMAIN a /\ a[i] = o[i]
      BY <1>1, <1>2, <3>1
    <3> QED BY <3>1, <3>2 DEF Covers
  <2>2. CASE Has(c, p, k)
    <3>1. n + 1 \in DOMAIN a /\ a[n + 1] = c
      BY <1>1, <1>2
    <3> QED BY <2>2, <3>1 DEF Covers
  <2> QED BY <1>3, <2>1, <2>2
<1>4. \A i \in DOMAIN a : (i \in DOMAIN o /\ a[i] = o[i]) \/ (i = n + 1 /\ a[i] = c)
  BY <1>1, <1>2
<1> QED BY <1>1, <1>2, <1>3, <1>4 DEF a, n

(* A piece is appended to a chunk. *)
LEMMA Appended ==
    ASSUME NEW c \in Seq(Pieces), NEW x \in Pieces
    PROVE  /\ Append(c, x) \in Seq(Pieces)
           /\ Append(c, x) # <<>>
           /\ Append(c, x)[1] = IF c = <<>> THEN x ELSE c[1]
           /\ \A p, k : Has(c, p, k) => Has(Append(c, x), p, k)
           /\ \A k \in x.first .. x.last : Has(Append(c, x), x.para, k)
<1> DEFINE a == Append(c, x)
           n == Len(c)
<1>1. a \in Seq(Pieces) /\ a # <<>> /\ Len(a) = n + 1 /\ n \in Nat /\ (\A i \in 1 .. n : a[i] = c[i]) /\ a[n + 1] = x
  BY AppendProperties, LenProperties
<1>2. DOMAIN c = 1 .. n /\ DOMAIN a = 1 .. n + 1
  BY <1>1, LenProperties
<1>3. c = <<>> <=> n = 0
  BY EmptySeq, LenProperties
<1> HIDE DEF a, n
<1>4. a[1] = IF c = <<>> THEN x ELSE c[1]
  BY <1>1, <1>3
<1>5. ASSUME NEW p, NEW k, Has(c, p, k) PROVE Has(a, p, k)
  <2>1. PICK j \in DOMAIN c : c[j].para = p /\ c[j].first <= k /\ k <= c[j].last
    BY <1>5 DEF Has
  <2>2. j \in DOMAIN a /\ a[j] = c[j]
    BY <1>1, <1>2, <2>1
  <2> QED BY <2>1, <2>2 DEF Has
<1>6. ASSUME NEW k \in x.first .. x.last PROVE Has(a, x.para, k)
  <2>1. n + 1 \in DOMAIN a /\ a[n + 1] = x
    BY <1>1, <1>2
  <2>2. x.first <= k /\ k <= x.last
    BY DEF Pieces
  <2> QED BY <2>1, <2>2 DEF Has
<1> QED BY <1>1, <1>4, <1>5, <1>6 DEF a

LEMMA Leading ==
    ASSUME NEW c \in Seq(Pieces), c # <<>>
    PROVE  c[1] \in Pieces /\ c[1].para \in Nat /\ c[1].first \in Nat
<1>1. 1 \in 1 .. Len(c)
  BY EmptySeq
<1>2. c[1] \in Pieces
  BY <1>1, ElementOfSeq
<1> QED BY <1>2 DEF Pieces

LEMMA EmptyChunk == IsFiniteSet(Chars(<<>>)) /\ Cardinality(Chars(<<>>)) = 0 /\ LenOf(<<>>) = 0
<1>1. Chars(<<>>) = {}
  BY DEF Chars
<1>2. LenOf(<<>>) = 0
  BY <1>1, FS_EmptySet DEF LenOf, Separator
<1> QED BY <1>1, <1>2, FS_EmptySet

(* How a piece makes a chunk longer. *)
LEMMA LenOfAppend ==
    ASSUME NEW c \in Seq(Pieces), NEW x \in Pieces, x.first <= x.last + 1, IsFiniteSet(Chars(c))
    PROVE  /\ IsFiniteSet(Chars(Append(c, x)))
           /\ LenOf(c) \in Nat
           /\ LenOf(Append(c, x)) = IF c = <<>> THEN PieceLen(x) ELSE LenOf(c) + Separator + PieceLen(x)
<1> DEFINE a == Append(c, x)
           n == Len(c)
           m == PieceLen(x)
           T == {n + 1} \X (1 .. m)
<1>1. m \in Nat
  BY DEF Pieces, PieceLen
<1>2. a \in Seq(Pieces) /\ a # <<>> /\ Len(a) = n + 1 /\ n \in Nat /\ (\A i \in 1 .. n : a[i] = c[i]) /\ a[n + 1] = x
  BY AppendProperties, LenProperties
<1>3. DOMAIN c = 1 .. n /\ DOMAIN a = 1 .. n + 1
  BY <1>2, LenProperties
<1>4. c = <<>> <=> n = 0
  BY EmptySeq, LenProperties
<1> HIDE DEF a, n
<1>5. Chars(a) = Chars(c) \cup T
  <2>1. ASSUME NEW y \in Chars(a) PROVE y \in Chars(c) \cup T
    <3>1. PICK j \in DOMAIN a : y \in {j} \X (1 .. PieceLen(a[j]))
      BY DEF Chars
    <3>2. CASE j = n + 1
      BY <1>2, <3>1, <3>2
    <3>3. CASE j \in 1 .. n
      BY <1>2, <1>3, <3>1, <3>3 DEF Chars
    <3> QED BY <1>2, <1>3, <3>2, <3>3
  <2>2. Chars(c) \subseteq Chars(a)
    BY <1>2, <1>3 DEF Chars
  <2>3. T \subseteq Chars(a)
    BY <1>2, <1>3 DEF Chars
  <2> QED BY <2>1, <2>2, <2>3
<1>6. Chars(c) \cap T = {}
  <2> SUFFICES ASSUME NEW y \in Chars(c), y \in T PROVE FALSE
    OBVIOUS
  <2>1. PICK j \in DOMAIN c : y \in {j} \X (1 .. PieceLen(c[j]))
    BY DEF Chars
  <2>2. y[1] = j /\ y[1] = n + 1
    BY <2>1
  <2> QED BY <1>2, <1>3, <2>1, <2>2
<1>7. IsFiniteSet(T) /\ Cardinality(T) = m
  <2> HIDE DEF m
  <2>1. IsFiniteSet(1 .. m) /\ Cardinality(1 .. m) = m
    BY <1>1, FS_Interval
  <2>2. IsFiniteSet({n + 1}) /\ Cardinality({n + 1}) = 1
    BY FS_Singleton
  <2>3. IsFiniteSet(T) /\ Cardinality(T) = 1 * m
    BY <2>1, <2>2, FS_Product, ZenonT(60)
  <2>4. 1 * m = m
    BY <1>1
  <2> QED BY <2>3, <2>4
<1>8. IsFiniteSet(Chars(a)) /\ Cardinality(Chars(a)) = Cardinality(Chars(c)) + m /\ Cardinality(Chars(c)) \in Nat
  <2> HIDE DEF T, m
  <2> DEFINE k == Cardinality(Chars(c))
  <2>1. k \in Nat
    BY FS_CardinalityType
  <2>2. IsFiniteSet(Chars(a)) /\ Cardinality(Chars(a)) = k + m - 0
    <3>1. /\ IsFiniteSet(Chars(c) \cup T)
          /\ Cardinality(Chars(c) \cup T) = Cardinality(Chars(c)) + Cardinality(T) - Cardinality(Chars(c) \cap T)
      BY <1>7, FS_Union
    <3>2. Cardinality(Chars(c) \cap T) = 0
      BY <1>6, FS_EmptySet
    <3> QED BY <1>5, <1>7, <3>1, <3>2
  <2> HIDE DEF k
  <2>3. k + m - 0 = k + m
    BY <1>1, <2>1
  <2> QED BY <2>1, <2>2, <2>3 DEF k
<1> HIDE DEF m, T
<1> DEFINE k == Cardinality(Chars(c))
           l == Cardinality(Chars(a))
<1>9. LenOf(c) = k + 2 * (IF n = 0 THEN 0 ELSE n - 1)
  BY <1>4 DEF LenOf, Separator, n
<1>10. LenOf(a) = l + 2 * n
  <2>1. LenOf(a) = l + 2 * (n + 1 - 1)
    BY <1>2 DEF LenOf, Separator
  <2>2. n + 1 - 1 = n
    BY <1>2
  <2> QED BY <2>1, <2>2
<1>11. n = 0 => k = 0
  BY <1>4, EmptyChunk
<1>12. l = k + m /\ k \in Nat
  BY <1>8
<1> HIDE DEF k, l
<1>13. LenOf(c) \in Nat
  BY <1>2, <1>9, <1>12
<1>14. CASE n = 0
  BY <1>1, <1>4, <1>8, <1>10, <1>11, <1>12, <1>13, <1>14 DEF a, m
<1>15. CASE n # 0
  <2>1. LenOf(a) = LenOf(c) + 2 + m
    BY <1>1, <1>2, <1>9, <1>10, <1>12, <1>15
  <2> QED BY <1>4, <1>8, <1>13, <1>15, <2>1 DEF a, m, Separator
<1> QED BY <1>14, <1>15

(* The one piece of a chunk. *)
LEMMA OnePiece ==
    ASSUME NEW x \in Pieces, x.first <= x.last + 1
    PROVE  /\ <<x>> \in Seq(Pieces) /\ <<x>> # <<>>
           /\ IsFiniteSet(Chars(<<x>>)) /\ LenOf(<<x>>) = PieceLen(x)
           /\ \A k \in x.first .. x.last : Has(<<x>>, x.para, k)
<1>1. <<>> \in Seq(Pieces) /\ Append(<<>>, x) = <<x>>
  OBVIOUS
<1>2. IsFiniteSet(Chars(<<>>))
  BY EmptyChunk
<1> QED BY <1>1, <1>2, LenOfAppend, Appended

LEMMA WholeParagraph ==
    ASSUME TextTypes, NEW p \in DOMAIN text
    PROVE  /\ p \in Nat /\ text[p] \in Nat /\ text[p] > 0
           /\ Whole(p) \in Pieces /\ PieceLen(Whole(p)) = text[p]
           /\ Whole(p).para = p /\ Whole(p).first = 1 /\ Whole(p).last = text[p]
<1>1. p \in Nat /\ text[p] \in Nat \ {0}
  BY DEF TextTypes
<1> QED BY <1>1 DEF Whole, Piece, Pieces, PieceLen

-----------------------------------------------------------------------------
LEMMA ChunkingStart == ChunkingInit => ChunkingInv
<1> SUFFICES ASSUME ChunkingInit PROVE ChunkingInv
  OBVIOUS
<1>1. text \in Seq(Nat \ {0})
  <2>1. PICK n \in 0 .. MaxParas : text \in [1 .. n -> 1 .. MaxLen]
    BY DEF ChunkingInit, Texts
  <2>2. n \in Nat /\ text \in [1 .. n -> Nat \ {0}]
    BY <2>1, ChunkingAssumption
  <2> QED BY <2>2
<1>2. {size, overlap, offset} \subseteq Nat
  BY ChunkingAssumption DEF ChunkingInit
<1>3. TextTypes
  BY <1>1, <1>2 DEF ChunkingInit, TextTypes
<1>4. WithinLimit
  BY <1>2, EmptyChunk DEF ChunkingInit, WithinLimit, FitsIn
<1> QED BY <1>2, <1>3, <1>4 DEF ChunkingInit, ChunkingInv, Position, Covered, InOrder

LEMMA JoinStep == ASSUME ChunkingInv, Join PROVE ChunkingInv'
<1> DEFINE x == Whole(para)
<1>1. TextTypes /\ Position /\ Covered /\ InOrder /\ WithinLimit
  BY DEF ChunkingInv
<1>2. /\ para \in DOMAIN text /\ size > 0 /\ text[para] <= size /\ LenOf(buf) + 2 + text[para] <= size
      /\ buf' = Append(buf, x) /\ para' = para + 1
      /\ UNCHANGED <<text, size, overlap, offset, out>>
  BY <1>1 DEF Join, Reading, Oversize, Fits, Separator, TextTypes
<1>3. /\ para \in Nat /\ text[para] \in Nat /\ text[para] > 0 /\ x \in Pieces /\ PieceLen(x) = text[para]
      /\ x.para = para /\ x.first = 1 /\ x.last = text[para]
  BY <1>1, <1>2, WholeParagraph
<1> HIDE DEF x
<1>4. offset = 0
  <2>1. offset \in Nat /\ size \in Nat
    BY <1>1 DEF TextTypes
  <2> QED BY <1>1, <1>2, <1>3, <2>1 DEF Position
<1>5. /\ buf' \in Seq(Pieces) /\ buf' # <<>>
      /\ buf'[1] = IF buf = <<>> THEN x ELSE buf[1]
      /\ \A p, k : Has(buf, p, k) => Has(buf', p, k)
      /\ \A k \in 1 .. text[para] : Has(buf', para, k)
  BY <1>1, <1>2, <1>3, Appended DEF TextTypes
<1>6. TextTypes'
  <2>1. {size, overlap, offset}' \subseteq Nat /\ text' \in Seq(Nat \ {0}) /\ out' \in Seq(Seq(Pieces))
    BY <1>1, <1>2 DEF TextTypes
  <2>2. para' \in 1 .. Len(text') + 1
    <3>1. text \in Seq(Nat \ {0}) /\ DOMAIN text = 1 .. Len(text) /\ Len(text) \in Nat
      BY <1>1 DEF TextTypes
    <3> QED BY <1>2, <3>1
  <2> QED BY <1>5, <2>1, <2>2 DEF TextTypes
<1>7. Position'
  BY <1>1, <1>2, <1>4 DEF Position, TextTypes
<1>8. Covered'
  <2>1. ASSUME NEW p \in 1 .. para' - 1, NEW k \in 1 .. text[p] PROVE Covers(out, p, k) \/ Has(buf', p, k)
    <3>1. CASE p = para
      BY <1>5, <2>1, <3>1
    <3>2. CASE p \in 1 .. para - 1
      BY <1>1, <1>5, <2>1, <3>2 DEF Covered
    <3> QED BY <1>2, <1>3, <2>1, <3>1, <3>2
  <2> QED BY <1>2, <1>4, <2>1 DEF Covered
<1>9. InOrder'
  <2>1. \A i \in DOMAIN out : out[i] # <<>> /\ out[i][1].para < para /\ (buf # <<>> => out[i][1].para < buf[1].para)
    BY <1>1, <1>4 DEF InOrder
  <2>2. \A i \in DOMAIN out : out[i][1].para \in Nat
    BY <1>1, <2>1, Leading DEF TextTypes
  <2>3. buf'[1].para < para' /\ (\A i \in DOMAIN out : out[i][1].para < buf'[1].para)
    <3>1. CASE buf = <<>>
      BY <1>2, <1>3, <1>5, <2>1, <3>1
    <3>2. CASE buf # <<>>
      <4>1. buf[1].para < para /\ buf[1].para \in Nat
        BY <1>1, <3>2, Leading DEF InOrder, TextTypes
      <4> QED BY <1>2, <1>3, <1>5, <2>1, <3>2, <4>1
    <3> QED BY <3>1, <3>2
  <2>4. \A i \in DOMAIN out : out[i][1].para < para'
    BY <1>2, <1>3, <2>1, <2>2
  <2>5. \A i, j \in DOMAIN out : i < j => Before(out[i][1], out[j][1])
    BY <1>1 DEF InOrder
  <2> QED BY <1>2, <2>1, <2>3, <2>4, <2>5 DEF InOrder
<1>10. WithinLimit'
  <2>1. FitsIn(buf)
    BY <1>1, <1>2 DEF WithinLimit
  <2>2. /\ IsFiniteSet(Chars(buf')) /\ LenOf(buf) \in Nat
        /\ LenOf(buf') = IF buf = <<>> THEN text[para] ELSE LenOf(buf) + 2 + text[para]
    <3>1. buf \in Seq(Pieces) /\ x.first <= x.last + 1 /\ IsFiniteSet(Chars(buf))
      BY <1>1, <1>3, <2>1 DEF FitsIn, TextTypes
    <3>2. /\ IsFiniteSet(Chars(Append(buf, x))) /\ LenOf(buf) \in Nat
          /\ LenOf(Append(buf, x)) = IF buf = <<>> THEN PieceLen(x) ELSE LenOf(buf) + Separator + PieceLen(x)
      BY <1>3, <3>1, LenOfAppend
    <3> QED BY <1>2, <1>3, <3>2 DEF Separator
  <2>3. LenOf(buf') <= size
    <3> DEFINE l == LenOf(buf)
               m == LenOf(buf')
    <3>1. l \in Nat /\ l + 2 + text[para] <= size /\ m = (IF buf = <<>> THEN text[para] ELSE l + 2 + text[para])
      BY <1>2, <2>2
    <3> HIDE DEF l, m
    <3>2. m <= size
      BY <1>2, <1>3, <3>1
    <3> QED BY <3>2 DEF m
  <2> QED BY <1>1, <1>2, <2>2, <2>3 DEF WithinLimit, FitsIn
<1> QED BY <1>6, <1>7, <1>8, <1>9, <1>10 DEF ChunkingInv

(* The chunks after the buffer is yielded. *)
LEMMA Flushed ==
    ASSUME ChunkingInv, buf # <<>>, NEW o, o = Append(out, buf)
    PROVE  /\ o \in Seq(Seq(Pieces)) /\ offset = 0
           /\ \A p \in 1 .. para - 1 : \A k \in 1 .. text[p] : Covers(o, p, k)
           /\ \A i \in DOMAIN o : o[i] # <<>> /\ o[i][1].para < para
           /\ \A i, j \in DOMAIN o : i < j => Before(o[i][1], o[j][1])
           /\ size > 0 => \A i \in DOMAIN o : FitsIn(o[i])
<1>1. TextTypes /\ Covered /\ InOrder /\ WithinLimit /\ offset = 0
  BY DEF ChunkingInv, Position, TextTypes
<1>2. /\ o \in Seq(Seq(Pieces))
      /\ \A i \in DOMAIN o : (i \in DOMAIN out /\ o[i] = out[i]) \/ (i = Len(out) + 1 /\ o[i] = buf)
      /\ DOMAIN out = 1 .. Len(out) /\ Len(out) \in Nat
      /\ \A p, k : Covers(out, p, k) \/ Has(buf, p, k) => Covers(o, p, k)
  BY <1>1, Yielded DEF TextTypes
<1>3. \A p \in 1 .. para - 1 : \A k \in 1 .. text[p] : Covers(o, p, k)
  BY <1>1, <1>2 DEF Covered
<1>4. \A i \in DOMAIN out : out[i] # <<>> /\ out[i][1].para < para /\ out[i][1].para < buf[1].para
  BY <1>1 DEF InOrder
<1>5. \A i \in DOMAIN o : o[i] # <<>> /\ o[i][1].para < para
  BY <1>1, <1>2, <1>4 DEF InOrder
<1>6. ASSUME NEW i \in DOMAIN o, NEW j \in DOMAIN o, i < j PROVE Before(o[i][1], o[j][1])
  <2>1. i \in DOMAIN out /\ o[i] = out[i]
    BY <1>2, <1>6
  <2>2. CASE j \in DOMAIN out /\ o[j] = out[j]
    BY <1>1, <1>6, <2>1, <2>2 DEF InOrder
  <2>3. CASE o[j] = buf
    BY <1>4, <2>1, <2>3 DEF Before
  <2> QED BY <1>2, <2>2, <2>3
<1>7. size > 0 => \A i \in DOMAIN o : FitsIn(o[i])
  BY <1>1, <1>2 DEF WithinLimit
<1> QED BY <1>1, <1>2, <1>3, <1>5, <1>6, <1>7

LEMMA FlushStep == ASSUME ChunkingInv, FlushBuf \/ LastBuf PROVE ChunkingInv'
<1>1. TextTypes /\ Position /\ WithinLimit
  BY DEF ChunkingInv
<1>2. /\ buf # <<>> /\ out' = Append(out, buf) /\ buf' = <<>>
      /\ UNCHANGED <<text, size, overlap, para, offset>>
  BY DEF FlushBuf, LastBuf, Yield
<1>3. /\ out' \in Seq(Seq(Pieces)) /\ offset = 0
      /\ \A p \in 1 .. para - 1 : \A k \in 1 .. text[p] : Covers(out', p, k)
      /\ \A i \in DOMAIN out' : out'[i] # <<>> /\ out'[i][1].para < para
      /\ \A i, j \in DOMAIN out' : i < j => Before(out'[i][1], out'[j][1])
      /\ size > 0 => \A i \in DOMAIN out' : FitsIn(out'[i])
  BY <1>2, Flushed
<1>4. TextTypes'
  BY <1>1, <1>2, <1>3 DEF TextTypes
<1>5. Position'
  BY <1>1, <1>2, <1>3 DEF Position
<1>6. Covered' /\ InOrder'
  BY <1>2, <1>3 DEF Covered, InOrder
<1>7. WithinLimit'
  <2>1. size > 0 => FitsIn(<<>>) /\ \A i \in DOMAIN out' : FitsIn(out'[i])
    BY <1>1, <1>3, EmptyChunk DEF FitsIn, TextTypes
  <2> QED BY <1>2, <2>1 DEF WithinLimit, FitsIn
<1> QED BY <1>4, <1>5, <1>6, <1>7 DEF ChunkingInv

LEMMA StartOverStep == ASSUME ChunkingInv, StartOver PROVE ChunkingInv'
<1> DEFINE x == Whole(para)
<1>1. TextTypes /\ Position /\ Covered /\ InOrder /\ WithinLimit
  BY DEF ChunkingInv
<1>2. /\ para \in DOMAIN text /\ size > 0 /\ text[para] <= size
      /\ buf' = <<x>> /\ para' = para + 1
      /\ UNCHANGED <<text, size, overlap, offset>>
      /\ buf # <<>> => out' = Append(out, buf)
      /\ buf = <<>> => out' = out
  <2>1. size \in Nat /\ para \in 1 .. Len(text) + 1 /\ text \in Seq(Nat \ {0})
    BY <1>1 DEF TextTypes
  <2>2. para \in DOMAIN text /\ text[para] \in Nat
    BY <2>1 DEF StartOver, Reading
  <2> QED BY <2>1, <2>2 DEF StartOver, Yield, Reading, Oversize
<1>3. /\ para \in Nat /\ text[para] \in Nat /\ text[para] > 0 /\ x \in Pieces /\ PieceLen(x) = text[para]
      /\ x.para = para /\ x.first = 1 /\ x.last = text[para]
  BY <1>1, <1>2, WholeParagraph
<1> HIDE DEF x
<1>4. offset = 0
  <2>1. offset \in Nat /\ size \in Nat
    BY <1>1 DEF TextTypes
  <2> QED BY <1>1, <1>2, <1>3, <2>1 DEF Position
<1>5. /\ buf' \in Seq(Pieces) /\ buf' # <<>> /\ buf'[1] = x
      /\ FitsIn(buf')
      /\ \A k \in 1 .. text[para] : Has(buf', para, k)
  <2>1. x.first <= x.last + 1
    BY <1>3
  <2> QED BY <1>2, <1>3, <2>1, OnePiece DEF FitsIn
<1>6. /\ out' \in Seq(Seq(Pieces))
      /\ \A p \in 1 .. para - 1 : \A k \in 1 .. text[p] : Covers(out', p, k)
      /\ \A i \in DOMAIN out' : out'[i] # <<>> /\ out'[i][1].para < para
      /\ \A i, j \in DOMAIN out' : i < j => Before(out'[i][1], out'[j][1])
      /\ \A i \in DOMAIN out' : FitsIn(out'[i])
  <2>1. CASE buf = <<>>
    <3>1. \A p, k : ~Has(buf, p, k)
      BY <2>1 DEF Has
    <3>2. out' \in Seq(Seq(Pieces)) /\ (\A i \in DOMAIN out' : FitsIn(out'[i]))
      BY <1>1, <1>2, <2>1 DEF TextTypes, WithinLimit
    <3>3. \A p \in 1 .. para - 1 : \A k \in 1 .. text[p] : Covers(out', p, k)
      BY <1>1, <1>2, <2>1, <3>1 DEF Covered
    <3>4. /\ \A i \in DOMAIN out' : out'[i] # <<>> /\ out'[i][1].para < para
          /\ \A i, j \in DOMAIN out' : i < j => Before(out'[i][1], out'[j][1])
      BY <1>1, <1>2, <1>4, <2>1 DEF InOrder
    <3> QED BY <3>2, <3>3, <3>4
  <2>2. CASE buf # <<>>
    BY <1>2, <2>2, Flushed
  <2> QED BY <2>1, <2>2
<1>7. TextTypes'
  <2>1. {size, overlap, offset}' \subseteq Nat /\ text' \in Seq(Nat \ {0})
    BY <1>1, <1>2 DEF TextTypes
  <2>2. para' \in 1 .. Len(text') + 1
    <3>1. text \in Seq(Nat \ {0}) /\ DOMAIN text = 1 .. Len(text) /\ Len(text) \in Nat
      BY <1>1 DEF TextTypes
    <3> QED BY <1>2, <3>1
  <2> QED BY <1>5, <1>6, <2>1, <2>2 DEF TextTypes
<1>8. Position'
  BY <1>1, <1>2, <1>4 DEF Position, TextTypes
<1>9. Covered'
  <2>1. ASSUME NEW p \in 1 .. para' - 1, NEW k \in 1 .. text[p] PROVE Covers(out', p, k) \/ Has(buf', p, k)
    <3>1. CASE p = para
      BY <1>5, <2>1, <3>1
    <3>2. CASE p \in 1 .. para - 1
      BY <1>6, <2>1, <3>2
    <3> QED BY <1>2, <1>3, <2>1, <3>1, <3>2
  <2> QED BY <1>2, <1>4, <2>1 DEF Covered
<1>10. InOrder'
  <2>1. \A i \in DOMAIN out' : out'[i][1].para \in Nat
    BY <1>6, Leading
  <2>2. \A i \in DOMAIN out' : out'[i][1].para < para'
    BY <1>2, <1>3, <1>6, <2>1
  <2> QED BY <1>2, <1>3, <1>5, <1>6, <2>2 DEF InOrder
<1>11. WithinLimit'
  BY <1>2, <1>5, <1>6 DEF WithinLimit, FitsIn
<1> QED BY <1>7, <1>8, <1>9, <1>10, <1>11 DEF ChunkingInv

LEMMA UnlimitedStep == ASSUME ChunkingInv, Unlimited PROVE ChunkingInv'
<1> DEFINE c == [p \in DOMAIN text |-> Whole(p)]
           n == Len(text)
<1>1. TextTypes /\ Position
  BY DEF ChunkingInv
<1>2. /\ size = 0 /\ buf = <<>> /\ out = <<>> /\ out' = Append(out, c) /\ para' = n + 1
      /\ UNCHANGED <<text, size, overlap, offset, buf>>
      /\ n \in Nat /\ n > 0 /\ DOMAIN text = 1 .. n /\ offset = 0
  BY <1>1 DEF Unlimited, Yield, Position, TextTypes
<1>3. /\ DOMAIN c = 1 .. n
      /\ \A p \in 1 .. n : /\ c[p] \in Pieces /\ c[p].para = p /\ c[p].first = 1 /\ c[p].last = text[p]
                           /\ text[p] \in Nat
  BY <1>1, <1>2, WholeParagraph
<1>4. c \in Seq(Pieces)
  <2>1. c \in [1 .. n -> Pieces]
    BY <1>2, <1>3
  <2> QED BY <1>2, <2>1
<1>5. out' = <<c>> /\ out' \in Seq(Seq(Pieces)) /\ DOMAIN out' = {1} /\ out'[1] = c /\ c # <<>> /\ c[1].para = 1
  <2>1. c # <<>>
    BY <1>2, <1>3
  <2>2. c[1].para = 1
    BY <1>2, <1>3
  <2> HIDE DEF c
  <2> QED BY <1>2, <1>4, <2>1, <2>2
<1> HIDE DEF c, n
<1>6. TextTypes'
  <2>1. {size, overlap, offset}' \subseteq Nat /\ text' \in Seq(Nat \ {0}) /\ buf' \in Seq(Pieces)
    BY <1>1, <1>2 DEF TextTypes
  <2>2. para' \in 1 .. Len(text') + 1
    BY <1>2 DEF n
  <2> QED BY <1>5, <2>1, <2>2 DEF TextTypes
<1>7. Position'
  BY <1>2 DEF Position, n
<1>8. Covered'
  <2>1. ASSUME NEW p \in 1 .. n, NEW k \in 1 .. text[p] PROVE Covers(out', p, k)
    <3>1. Has(c, p, k)
      BY <1>3, <2>1 DEF Has
    <3> QED BY <1>5, <3>1 DEF Covers
  <2>2. para' - 1 = n
    BY <1>2
  <2> QED BY <1>2, <2>1, <2>2 DEF Covered
<1>9. InOrder'
  BY <1>2, <1>5 DEF InOrder
<1>10. WithinLimit'
  BY <1>2 DEF WithinLimit
<1> QED BY <1>6, <1>7, <1>8, <1>9, <1>10 DEF ChunkingInv

LEMMA WindowStep == ASSUME ChunkingInv, Window PROVE ChunkingInv'
<1> DEFINE end == Smaller(offset + size, text[para])
           x    == Piece(para, offset + 1, end)
<1>1. TextTypes /\ Position /\ Covered /\ InOrder /\ WithinLimit
  BY DEF ChunkingInv
<1>2. /\ para \in DOMAIN text /\ size > 0 /\ text[para] > size /\ buf = <<>>
      /\ out' = Append(out, <<x>>)
      /\ UNCHANGED <<text, size, overlap, buf>>
      /\ \/ offset + Stride < text[para] /\ offset' = offset + Stride /\ para' = para
         \/ ~(offset + Stride < text[para]) /\ offset' = 0 /\ para' = para + 1
  <2>1. size \in Nat /\ para \in 1 .. Len(text) + 1 /\ text \in Seq(Nat \ {0})
    BY <1>1 DEF TextTypes
  <2>2. para \in DOMAIN text
    BY <2>1 DEF Window, Reading
  <2> QED BY <2>2 DEF Window, Yield, Reading, Oversize
<1>3. /\ para \in Nat /\ text[para] \in Nat /\ size \in Nat /\ offset \in Nat /\ offset < text[para]
      /\ Stride \in Nat /\ 1 <= Stride /\ Stride <= size
  <2>1. para \in Nat /\ text[para] \in Nat /\ text[para] > 0
    BY <1>1, <1>2, WholeParagraph
  <2>2. size \in Nat /\ overlap \in Nat /\ offset \in Nat
    BY <1>1 DEF TextTypes
  <2>3. offset < text[para]
    BY <1>1, <2>1, <2>2 DEF Position
  <2> QED BY <1>2, <2>1, <2>2, <2>3 DEF Stride
<1>4. /\ end \in Nat /\ offset + 1 <= end /\ end <= offset + size
      /\ end <= text[para]
      /\ offset + Stride <= end \/ end = text[para]
  BY <1>2, <1>3 DEF Smaller
<1> HIDE DEF end
<1>5. /\ x \in Pieces /\ x.para = para /\ x.first = offset + 1 /\ x.last = end
      /\ PieceLen(x) <= size
  BY <1>3, <1>4 DEF Piece, Pieces, PieceLen
<1> HIDE DEF x
<1>6. /\ <<x>> \in Seq(Pieces) /\ <<x>> # <<>> /\ <<x>>[1] = x /\ FitsIn(<<x>>)
      /\ \A k \in offset + 1 .. end : Has(<<x>>, para, k)
  <2>1. x.first <= x.last + 1
    BY <1>3, <1>4, <1>5
  <2> QED BY <1>5, <2>1, OnePiece DEF FitsIn
<1> DEFINE c == <<x>>
<1>7. c \in Seq(Pieces) /\ c # <<>> /\ c[1] = x /\ FitsIn(c) /\ (\A k \in offset + 1 .. end : Has(c, para, k))
  BY <1>6
<1>8. out' = Append(out, c)
  BY <1>2
<1> HIDE DEF c
<1>9. /\ out' \in Seq(Seq(Pieces))
      /\ \A i \in DOMAIN out' : (i \in DOMAIN out /\ out'[i] = out[i]) \/ (i = Len(out) + 1 /\ out'[i] = c)
      /\ DOMAIN out = 1 .. Len(out) /\ Len(out) \in Nat
      /\ \A p, k : Covers(out, p, k) \/ Has(c, p, k) => Covers(out', p, k)
  BY <1>1, <1>7, <1>8, Yielded DEF TextTypes
<1>10. TextTypes'
  <2>1. {size, overlap, offset}' \subseteq Nat /\ text' \in Seq(Nat \ {0}) /\ buf' \in Seq(Pieces)
    BY <1>1, <1>2, <1>3 DEF TextTypes
  <2>2. para' \in 1 .. Len(text') + 1
    <3>1. text \in Seq(Nat \ {0}) /\ DOMAIN text = 1 .. Len(text) /\ Len(text) \in Nat
      BY <1>1 DEF TextTypes
    <3> QED BY <1>2, <1>3, <3>1
  <2> QED BY <1>9, <2>1, <2>2 DEF TextTypes
<1>11. Position'
  BY <1>1, <1>2, <1>3 DEF Position, TextTypes
<1>12. Covered'
  <2>1. \A p, k : ~Has(buf, p, k)
    BY <1>2 DEF Has
  <2>2. \A p \in 1 .. para - 1 : \A k \in 1 .. text[p] : Covers(out', p, k)
    BY <1>1, <1>9, <2>1 DEF Covered
  <2>3. \A k \in 1 .. end : Covers(out', para, k)
    <3> SUFFICES ASSUME NEW k \in 1 .. end PROVE Covers(out', para, k)
      OBVIOUS
    <3>1. CASE k \in 1 .. offset
      BY <1>1, <1>9, <3>1 DEF Covered
    <3>2. CASE k \in offset + 1 .. end
      BY <1>7, <1>9, <3>2
    <3> QED BY <1>3, <1>4, <3>1, <3>2
  <2>4. CASE offset' = offset + Stride /\ para' = para /\ offset + Stride < text[para]
    <3>1. offset' <= end
      BY <1>3, <1>4, <2>4
    <3>2. \A k \in 1 .. offset' : Covers(out', para, k)
      BY <1>3, <1>4, <2>3, <2>4, <3>1
    <3> QED BY <1>2, <2>2, <2>4, <3>2 DEF Covered
  <2>5. CASE offset' = 0 /\ para' = para + 1 /\ ~(offset + Stride < text[para])
    <3>1. end = text[para]
      BY <1>3, <1>4, <2>5
    <3>2. \A p \in 1 .. para' - 1 : \A k \in 1 .. text[p] : Covers(out', p, k)
      <4>1. \A p \in 1 .. para' - 1 : p \in 1 .. para - 1 \/ p = para
        BY <1>3, <2>5
      <4> QED BY <2>2, <2>3, <3>1, <4>1
    <3> QED BY <1>2, <2>5, <3>2 DEF Covered
  <2> QED BY <1>2, <2>4, <2>5
<1>13. InOrder'
  <2>1. ASSUME NEW i \in DOMAIN out
        PROVE  out[i] # <<>> /\ out[i][1].para \in Nat /\ out[i][1].first \in Nat
    <3>1. out[i] # <<>> /\ out[i] \in Seq(Pieces)
      BY <1>1 DEF InOrder, TextTypes
    <3> QED BY <3>1, Leading
  <2>2. ASSUME NEW i \in DOMAIN out PROVE Before(out[i][1], x)
    BY <1>1, <1>3, <1>5, <2>1 DEF InOrder, Before
  <2>3. ASSUME NEW i \in DOMAIN out', NEW j \in DOMAIN out', i < j PROVE Before(out'[i][1], out'[j][1])
    <3>1. i \in DOMAIN out /\ out'[i] = out[i]
      BY <1>9, <2>3
    <3>2. CASE j \in DOMAIN out /\ out'[j] = out[j]
      BY <1>1, <2>3, <3>1, <3>2 DEF InOrder
    <3>3. CASE out'[j] = c
      BY <1>7, <2>2, <3>1, <3>3
    <3> QED BY <1>9, <3>2, <3>3
  <2>4. ASSUME NEW i \in DOMAIN out'
        PROVE  /\ out'[i] # <<>>
               /\ \/ out'[i][1].para < para'
                  \/ out'[i][1].para = para' /\ offset' > 0 /\ out'[i][1].first <= offset'
    <3>1. CASE i \in DOMAIN out /\ out'[i] = out[i]
      <4> DEFINE q == out[i][1].para
                 f == out[i][1].first
      <4>1. q \in Nat /\ f \in Nat /\ (q < para \/ (q = para /\ offset > 0 /\ f <= offset))
        BY <1>1, <2>1, <3>1 DEF InOrder
      <4> HIDE DEF q, f
      <4>2. q < para' \/ (q = para' /\ offset' > 0 /\ f <= offset')
        BY <1>2, <1>3, <4>1
      <4> QED BY <2>1, <3>1, <4>2 DEF q, f
    <3>2. CASE out'[i] = c
      <4>1. c[1].para = para /\ c[1].first = offset + 1
        BY <1>5, <1>7
      <4>2. para < para' \/ (para = para' /\ offset' > 0 /\ offset + 1 <= offset')
        BY <1>2, <1>3
      <4> QED BY <1>7, <3>2, <4>1, <4>2
    <3> QED BY <1>9, <3>1, <3>2
  <2> QED BY <1>2, <2>3, <2>4 DEF InOrder
<1>14. WithinLimit'
  BY <1>1, <1>2, <1>7, <1>9 DEF WithinLimit, FitsIn
<1> QED BY <1>10, <1>11, <1>12, <1>13, <1>14 DEF ChunkingInv

LEMMA ChunkingStep == ChunkingInv /\ [ChunkingNext]_textVars => ChunkingInv'
<1>1. ASSUME ChunkingInv, UNCHANGED textVars PROVE ChunkingInv'
  BY <1>1 DEF textVars, ChunkingInv, TextTypes, Position, Covered, InOrder, WithinLimit, FitsIn
<1> QED BY <1>1, JoinStep, FlushStep, StartOverStep, UnlimitedStep, WindowStep DEF ChunkingNext

LEMMA Chunked == ChunkingSpec => []ChunkingInv
  BY ChunkingStart, ChunkingStep, PTL DEF ChunkingSpec

(* No chunk is longer than the limit, for any text and any overlap         *)
(* (src/src/indexer.py:90-93).                                             *)
THEOREM ChunksBounded == ChunkingSpec => []ChunksFit
<1>1. ChunkingInv => ChunksFit
  BY DEF ChunkingInv, WithinLimit, FitsIn, ChunksFit
<1> QED BY <1>1, Chunked, PTL

(* A text that was read to the end is wholly in its chunks, and they are   *)
(* in its order (src/src/indexer.py:84-133).                               *)
THEOREM TextCovered == ChunkingSpec => []NothingSkipped
<1>1. ASSUME ChunkingInv, Exhausted PROVE NothingSkipped
  <2>1. para - 1 = Len(text) /\ DOMAIN text = 1 .. Len(text) /\ (\A p, k : ~Has(buf, p, k))
    BY <1>1 DEF ChunkingInv, TextTypes, Exhausted, Has
  <2>2. \A p \in DOMAIN text : \A k \in 1 .. text[p] : Covers(out, p, k)
    BY <1>1, <2>1 DEF ChunkingInv, Covered
  <2> QED BY <1>1, <2>2 DEF ChunkingInv, InOrder, Before, Covers, Has, NothingSkipped
<1>2. ChunkingInv => NothingSkipped
  BY <1>1 DEF NothingSkipped
<1> QED BY <1>2, Chunked, PTL

=============================================================================
