------------------------- MODULE Thumbnails_proofs -------------------------
(***************************************************************************)
(* For any media, pictures and requests: the rows of the thumbnails count  *)
(* the entities that show them, what is shown has its file, and no request *)
(* to remove a file is forgotten.                                          *)
(***************************************************************************)
EXTENDS Thumbnails, FiniteSetTheorems, WellFoundedInduction, TLAPS

Status == {"Missing", "Available", "Failure", "Crash"}
Origin == {"Media", "UserProvided", "CoverFile"}
File == {Blank, UserFile, CoverFile} \cup Ids
Hash == Artworks \cup {NoArtwork}

RowT == [status : Status, file : File, shared : Int, hash : Hash]
LinkT == [id : 0 .. MaxRows, origin : Origin]
DbT == [row : [Ids -> RowT], link : [Entities -> LinkT], last : 0 .. MaxRows,
        disk : SUBSET Ids, cleanups : SUBSET Ids]
ObjectT == [id : 0 .. MaxRows, status : Status, file : File \cup {Embedded}, origin : Origin,
            hash : Hash, shared : Int]

Showing(d, id) == {e \in Entities : d.link[e].id = id}
IsShown(d, id) == Showing(d, id) # {}
IsThere(d, id) == d.row[id].status # "Missing"
IsAvailable(d, id) == d.row[id].status = "Available"

\* A row counts the entities that show it, and is there if one does.
Fits(d, id) ==
    /\ d.row[id].shared = Cardinality(Showing(d, id))
    /\ IsShown(d, id) => IsThere(d, id)

\* The ids to come are those of no row.
Unused(d) == \A id \in Ids : id > d.last => ~IsThere(d, id)

\* The files are those of rows that were inserted.
Known(d) ==
    /\ \A id \in Ids : d.row[id].file <= d.last
    /\ \A f \in d.disk \cup d.cleanups : f <= d.last

\* Nobody else shows the thumbnail of a video, and what others show is available.
Apart(d) ==
    /\ \A v \in Videos, e \in Entities :
          d.link[v].id # 0 /\ d.link[e].id = d.link[v].id => e = v
    /\ \A e \in Entities \ Videos : d.link[e].id # 0 => IsAvailable(d, d.link[e].id)

Good(d) == d \in DbT /\ Unused(d) /\ Known(d) /\ \A id \in Ids : Fits(d, id)

-----------------------------------------------------------------------------
(* Links and counters.                                                     *)

LEMMA Constants ==
    /\ MaxRows \in Nat /\ IsFiniteSet(Entities)
    /\ Album \in Entities /\ Artist \in Entities /\ Media \subseteq Entities
    /\ Embedded \notin File
    /\ Videos \cup Tracks = Media /\ Videos \cap Tracks = {}
    /\ Album \notin Media /\ Artist \notin Media
<1>1. IsFiniteSet(Media)
  BY ThumbnailsAssumption, FS_Union DEF Media
<1>2. IsFiniteSet({Album, Artist})
  <2>1. IsFiniteSet({Album}) /\ IsFiniteSet({Artist})
    BY FS_Singleton
  <2>2. IsFiniteSet({Album} \cup {Artist})
    BY <2>1, FS_Union
  <2>3. {Album, Artist} = {Album} \cup {Artist}
    OBVIOUS
  <2>. QED  BY <2>2, <2>3
<1>3. IsFiniteSet(Entities)
  BY <1>1, <1>2, FS_Union DEF Entities
<1>. QED
  BY <1>3, ThumbnailsAssumption DEF Entities, Media, File, Embedded, Blank, UserFile, CoverFile, Ids

LEMMA ShowingSize ==
    \A d, id : IsFiniteSet(Showing(d, id)) /\ Cardinality(Showing(d, id)) \in Nat
BY Constants, FS_Subset, FS_CardinalityType DEF Showing

\* Linking e with another row.
LinkTo(d, e, id, origin) == [d EXCEPT !.link[e] = [id |-> id, origin |-> origin]]

LEMMA LinkToIs ==
    ASSUME NEW d \in DbT, NEW e \in Entities, NEW id \in 0 .. MaxRows, NEW origin \in Origin,
           NEW r, r = LinkTo(d, e, id, origin)
    PROVE  /\ r \in DbT /\ r.row = d.row /\ r.last = d.last /\ r.disk = d.disk
           /\ r.cleanups = d.cleanups
           /\ r.link[e] = [id |-> id, origin |-> origin]
           /\ \A y \in Entities \ {e} : r.link[y] = d.link[y]
           /\ \A x \in Ids : Showing(r, x) = (Showing(d, x) \ {e}) \cup (IF x = id THEN {e} ELSE {})
<1>1. /\ d.link \in [Entities -> LinkT] /\ [id |-> id, origin |-> origin] \in LinkT
      /\ r = [d EXCEPT !.link = [d.link EXCEPT ![e] = [id |-> id, origin |-> origin]]]
  BY DEF DbT, LinkTo, LinkT
<1>2. /\ r.link = [d.link EXCEPT ![e] = [id |-> id, origin |-> origin]]
      /\ r.row = d.row /\ r.last = d.last /\ r.disk = d.disk /\ r.cleanups = d.cleanups
  BY <1>1 DEF DbT
<1>3. r \in DbT
  BY <1>1 DEF DbT
<1>. QED  BY <1>1, <1>2, <1>3 DEF Showing

\* Adding n to the counter of a row: when it comes to nothing the row goes, and the removal
\* of its file is asked for.
LEMMA CountIs ==
    ASSUME NEW d \in DbT, NEW id \in Ids, NEW n \in Int, IsThere(d, id),
           NEW r, r = Count(d, id, n)
    PROVE  /\ r \in DbT /\ r.link = d.link /\ r.last = d.last /\ r.disk = d.disk
           /\ \A x \in Ids \ {id} : r.row[x] = d.row[x]
           /\ r.row[id].shared = d.row[id].shared + n
           /\ d.row[id].shared + n = 0 => r.row[id] = NoRow
           /\ d.row[id].shared + n # 0 =>
                 /\ r.row[id].status = d.row[id].status /\ r.row[id].file = d.row[id].file
                 /\ r.cleanups = d.cleanups
           /\ d.cleanups \subseteq r.cleanups
           /\ \A f \in r.cleanups \ d.cleanups :
                 d.row[id].status = "Available" /\ d.row[id].file = f
<1>1. d.row \in [Ids -> RowT] /\ d.row[id] \in RowT
  BY DEF DbT
<1>2. CASE d.row[id].shared + n = 0
  <2>. DEFINE new == IF IsOwned(d.row[id].file) /\ d.row[id].status = "Available"
                     THEN d.cleanups \cup {d.row[id].file} ELSE d.cleanups
  <2>1. r = [d EXCEPT !.row = [d.row EXCEPT ![id] = NoRow], !.cleanups = new]
    BY <1>2 DEF Count, DeleteRow, DbT, IsThere
  <2>2. NoRow \in RowT /\ NoRow.shared = 0
    BY DEF NoRow, RowT, Status, File, Hash
  <2>3. new \in SUBSET Ids
    BY DEF DbT, IsOwned
  <2>. HIDE DEF new
  <2>4. /\ r.row = [d.row EXCEPT ![id] = NoRow] /\ r.cleanups = new
        /\ r.link = d.link /\ r.last = d.last /\ r.disk = d.disk
    BY <2>1 DEF DbT
  <2>5. r \in DbT
    BY <1>1, <2>1, <2>2, <2>3 DEF DbT
  <2>. QED  BY <1>1, <1>2, <2>2, <2>4, <2>5 DEF new
<1>3. CASE d.row[id].shared + n # 0
  <2>. DEFINE row == [d.row[id] EXCEPT !.shared = @ + n]
  <2>1. r = [d EXCEPT !.row = [d.row EXCEPT ![id] = row]]
    BY <1>1, <1>3 DEF Count, DbT, RowT, IsThere
  <2>2. /\ row \in RowT /\ row.shared = d.row[id].shared + n
        /\ row.status = d.row[id].status /\ row.file = d.row[id].file
    BY <1>1 DEF RowT
  <2>. HIDE DEF row
  <2>3. /\ r.row = [d.row EXCEPT ![id] = row] /\ r.cleanups = d.cleanups
        /\ r.link = d.link /\ r.last = d.last /\ r.disk = d.disk
    BY <2>1 DEF DbT
  <2>4. r \in DbT
    BY <1>1, <2>1, <2>2 DEF DbT
  <2>. QED  BY <1>1, <1>3, <2>2, <2>3, <2>4
<1>. QED  BY <1>2, <1>3

LEMMA CountMissing == \A d, id, n : ~IsThere(d, id) => Count(d, id, n) = d
BY DEF Count, IsThere

\* The relations between a database and the next below say all of the rows but their counters.
SameRow(d, r, x) == r.row[x].status = d.row[x].status /\ r.row[x].file = d.row[x].file
SameTables(d, r) == r.last = d.last /\ r.disk = d.disk

\* The entities es, which show nothing, are linked with row y.
LinkAll(d, es, y, origin) ==
    [d EXCEPT !.link = [e \in Entities |->
        IF e \in es THEN [id |-> y, origin |-> origin] ELSE @[e]]]

GainsLinks(d, r, es, y) ==
    /\ SameTables(d, r) /\ r.cleanups = d.cleanups
    /\ \A e \in Entities : IF e \in es THEN r.link[e].id = y ELSE r.link[e] = d.link[e]
    /\ \A x \in Ids : SameRow(d, r, x)
    /\ \A x \in Ids : Showing(r, x) = Showing(d, x) \cup (IF x = y THEN es ELSE {})

LEMMA LinkingAll ==
    ASSUME NEW d, Good(d), NEW es \in SUBSET Entities, NEW y \in Ids, IsThere(d, y),
           NEW origin \in Origin,
           \A e \in es : d.link[e].id = 0,
           es # {} \/ IsShown(d, y),
           NEW r, r = Count(LinkAll(d, es, y, origin), y, Cardinality(es))
    PROVE  Good(r) /\ GainsLinks(d, r, es, y)
<1>. DEFINE m == LinkAll(d, es, y, origin)
            link == [e \in Entities |-> IF e \in es THEN [id |-> y, origin |-> origin]
                                        ELSE d.link[e]]
<1>1. d \in DbT /\ [id |-> y, origin |-> origin] \in LinkT
  BY DEF Good, LinkT, Ids
<1>2. link \in [Entities -> LinkT] /\ m = [d EXCEPT !.link = link]
  BY <1>1 DEF DbT, LinkAll
<1>3. /\ m \in DbT /\ m.link = link /\ m.row = d.row /\ m.last = d.last /\ m.disk = d.disk
      /\ m.cleanups = d.cleanups
  <2>. HIDE DEF m, link
  <2>. QED  BY <1>1, <1>2 DEF DbT
<1>4. \A x \in Ids : Showing(m, x) = Showing(d, x) \cup (IF x = y THEN es ELSE {})
  <2>. HIDE DEF m
  <2>. QED  BY <1>3 DEF Showing, Ids
<1>5. IsFiniteSet(es) /\ Cardinality(es) \in Nat /\ (Cardinality(es) = 0 => es = {})
  BY Constants, FS_Subset, FS_CardinalityType, FS_EmptySet
<1>6. Showing(d, y) \cap es = {}
  BY DEF Showing, Ids
<1>7. Cardinality(Showing(m, y)) = Cardinality(Showing(d, y)) + Cardinality(es)
  <2>1. Cardinality(Showing(d, y) \cap es) = 0
    BY <1>6, FS_EmptySet
  <2>2. Cardinality(Showing(d, y) \cup es)
          = Cardinality(Showing(d, y)) + Cardinality(es) - Cardinality(Showing(d, y) \cap es)
    BY <1>5, ShowingSize, FS_Union
  <2>3. Showing(m, y) = Showing(d, y) \cup es
    BY <1>4
  <2>4. Cardinality(Showing(d, y)) \in Nat
    BY ShowingSize
  <2>. HIDE DEF m
  <2>. QED  BY <1>5, <2>1, <2>2, <2>3, <2>4
<1>8. /\ d.row[y].shared = Cardinality(Showing(d, y)) /\ Cardinality(Showing(d, y)) \in Nat
      /\ d.row[y].shared + Cardinality(es) # 0
  <2>1. d.row[y].shared = Cardinality(Showing(d, y)) /\ Cardinality(Showing(d, y)) \in Nat
    BY ShowingSize DEF Good, Fits
  <2>2. Cardinality(Showing(d, y)) = 0 => ~IsShown(d, y)
    BY ShowingSize, FS_EmptySet DEF IsShown
  <2>. QED  BY <1>5, <2>1, <2>2
<1>9. /\ r \in DbT /\ r.link = m.link /\ r.last = m.last /\ r.disk = m.disk
      /\ r.cleanups = m.cleanups
      /\ \A x \in Ids \ {y} : r.row[x] = m.row[x]
      /\ r.row[y].shared = d.row[y].shared + Cardinality(es)
      /\ r.row[y].status = d.row[y].status /\ r.row[y].file = d.row[y].file
  <2>1. IsThere(m, y) /\ Cardinality(es) \in Int /\ m.row[y].shared + Cardinality(es) # 0
    BY <1>3, <1>5, <1>8 DEF IsThere
  <2>. HIDE DEF m, link
  <2>. QED  BY <1>3, <2>1, CountIs DEF m
<1>10. \A x \in Ids : Showing(r, x) = Showing(m, x) /\ SameRow(d, r, x)
  <2>. HIDE DEF m
  <2>. QED  BY <1>3, <1>9 DEF Showing, SameRow
<1>11. GainsLinks(d, r, es, y)
  <2>. HIDE DEF m
  <2>. QED  BY <1>3, <1>4, <1>9, <1>10 DEF GainsLinks, SameTables, link
<1>12. Good(r)
  <2>1. Unused(r) /\ Known(r)
    <3>. HIDE DEF m
    <3>. QED  BY <1>3, <1>9, <1>10 DEF Good, Unused, Known, IsThere, SameRow
  <2>2. ASSUME NEW x \in Ids PROVE Fits(r, x)
    <3>. HIDE DEF m
    <3>1. CASE x = y
      BY <3>1, <1>7, <1>8, <1>9, <1>10 DEF Fits, IsThere
    <3>2. CASE x # y
      <4>1. Showing(r, x) = Showing(d, x) /\ r.row[x] = d.row[x] /\ Fits(d, x)
        BY <3>2, <1>3, <1>4, <1>9, <1>10 DEF Good
      <4>. QED  BY <4>1 DEF Fits, IsThere, IsShown
    <3>. QED  BY <3>1, <3>2
  <2>. QED  BY <1>9, <2>1, <2>2 DEF Good
<1>. QED  BY <1>11, <1>12
\* Entity e, which shows row x, no longer does.
LosesLink(d, r, e, x) ==
    /\ SameTables(d, r)
    /\ r.link[e] = NoLink /\ \A y \in Entities \ {e} : r.link[y] = d.link[y]
    /\ \A y \in Ids : SameRow(d, r, y) \/ (y = x /\ ~IsThere(r, x))
    /\ \A y \in Ids : Showing(r, y) = Showing(d, y) \ {e}
    /\ d.cleanups \subseteq r.cleanups
    /\ \A f \in r.cleanups \ d.cleanups :
          IsAvailable(d, x) /\ d.row[x].file = f /\ ~IsThere(r, x)
    /\ IsShown(r, x) <=> IsThere(r, x)

LEMMA Unlinking ==
    ASSUME NEW d, Good(d), NEW e \in Entities, d.link[e].id # 0,
           NEW r, r = unlinkThumbnail(d, e)
    PROVE  Good(r) /\ LosesLink(d, r, e, d.link[e].id)
<1>. DEFINE x == d.link[e].id
            m == LinkTo(d, e, 0, "Media")
<1>1. d \in DbT /\ x \in Ids /\ e \in Showing(d, x)
  BY DEF Good, DbT, LinkT, Showing, Ids
<1>2. r = Count(m, x, -1)
  BY DEF unlinkThumbnail, LinkTo, NoLink
<1>3. /\ m \in DbT /\ m.row = d.row /\ m.last = d.last /\ m.disk = d.disk
      /\ m.cleanups = d.cleanups /\ m.link[e] = NoLink
      /\ \A y \in Entities \ {e} : m.link[y] = d.link[y]
      /\ \A y \in Ids : Showing(m, y) = Showing(d, y) \ {e}
  <2>1. 0 \in 0 .. MaxRows /\ "Media" \in Origin
    BY Constants DEF Origin
  <2>2. \A y \in Ids : y # 0
    BY DEF Ids
  <2>. HIDE DEF m
  <2>. QED  BY <1>1, <2>1, <2>2, LinkToIs DEF m, NoLink
<1>4. /\ d.row[x].shared = Cardinality(Showing(d, x)) /\ IsThere(d, x)
      /\ Cardinality(Showing(d, x)) \in Nat
      /\ Cardinality(Showing(m, x)) = Cardinality(Showing(d, x)) - 1
  <2>1. d.row[x].shared = Cardinality(Showing(d, x)) /\ IsThere(d, x)
    BY <1>1 DEF Good, Fits, IsShown
  <2>2. IsFiniteSet(Showing(d, x)) /\ Cardinality(Showing(d, x)) \in Nat
    BY ShowingSize
  <2>3. Cardinality(Showing(d, x) \ {e}) = Cardinality(Showing(d, x)) - 1
    BY <1>1, <2>2, FS_RemoveElement
  <2>4. Showing(m, x) = Showing(d, x) \ {e}
    BY <1>1, <1>3
  <2>. QED  BY <2>1, <2>2, <2>3, <2>4
<1>5. /\ r \in DbT /\ r.link = m.link /\ r.last = m.last /\ r.disk = m.disk
      /\ \A y \in Ids \ {x} : r.row[y] = m.row[y]
      /\ r.row[x].shared = d.row[x].shared - 1
      /\ d.row[x].shared - 1 = 0 => r.row[x] = NoRow
      /\ d.row[x].shared - 1 # 0 =>
            /\ r.row[x].status = d.row[x].status /\ r.row[x].file = d.row[x].file
            /\ r.cleanups = m.cleanups
      /\ m.cleanups \subseteq r.cleanups
      /\ \A f \in r.cleanups \ m.cleanups :
            d.row[x].status = "Available" /\ d.row[x].file = f
  <2>1. IsThere(m, x) /\ -1 \in Int /\ m.row[x].shared + (-1) = d.row[x].shared - 1
    BY <1>3, <1>4 DEF IsThere
  <2>. HIDE DEF m, x
  <2>2. /\ r \in DbT /\ r.link = m.link /\ r.last = m.last /\ r.disk = m.disk
        /\ \A y \in Ids \ {x} : r.row[y] = m.row[y]
        /\ r.row[x].shared = m.row[x].shared + (-1)
        /\ m.row[x].shared + (-1) = 0 => r.row[x] = NoRow
        /\ m.row[x].shared + (-1) # 0 =>
              /\ r.row[x].status = m.row[x].status /\ r.row[x].file = m.row[x].file
              /\ r.cleanups = m.cleanups
        /\ m.cleanups \subseteq r.cleanups
        /\ \A f \in r.cleanups \ m.cleanups :
              m.row[x].status = "Available" /\ m.row[x].file = f
    BY <1>1, <1>2, <1>3, <2>1, CountIs
  <2>. QED  BY <1>3, <2>1, <2>2
<1>6. \A y \in Ids : Showing(r, y) = Showing(d, y) \ {e}
  <2>. HIDE DEF m, x
  <2>. QED  BY <1>3, <1>5 DEF Showing
<1>7. r.row[x].shared = Cardinality(Showing(r, x))
  <2>. HIDE DEF m, x
  <2>. QED  BY <1>1, <1>3, <1>4, <1>5, <1>6
<1>8. IsShown(r, x) <=> d.row[x].shared - 1 # 0
  <2>1. Cardinality(Showing(r, x)) = 0 <=> ~IsShown(r, x)
    BY ShowingSize, FS_EmptySet DEF IsShown
  <2>. HIDE DEF m, x
  <2>. QED  BY <1>5, <1>7, <2>1
<1>9. /\ IsShown(r, x) <=> IsThere(r, x)
      /\ IsShown(r, x) => SameRow(d, r, x)
  <2>. HIDE DEF m, x
  <2>. QED  BY <1>4, <1>5, <1>8 DEF IsThere, NoRow, SameRow
<1>10. LosesLink(d, r, e, x)
  <2>1. \A y \in Ids \ {x} : SameRow(d, r, y)
    <3>. HIDE DEF m, x
    <3>. QED  BY <1>3, <1>5 DEF SameRow
  <2>2. \A f \in r.cleanups \ d.cleanups :
            IsAvailable(d, x) /\ d.row[x].file = f /\ ~IsThere(r, x)
    <3>. HIDE DEF m, x
    <3>. QED  BY <1>3, <1>5, <1>8, <1>9 DEF IsAvailable
  <2>. HIDE DEF m, x
  <2>. QED  BY <1>1, <1>3, <1>5, <1>6, <1>9, <2>1, <2>2 DEF LosesLink, SameTables
<1>11. Unused(r) /\ Known(r)
  <2>1. \A y \in Ids : r.row[y].file = d.row[y].file \/ r.row[y] = NoRow
    <3>. HIDE DEF m, x
    <3>. QED  BY <1>3, <1>5
  <2>2. \A f \in r.cleanups \ d.cleanups : f <= d.last
    <3>. HIDE DEF m, x
    <3>. QED  BY <1>1, <1>3, <1>5 DEF Good, Known
  <2>3. NoRow.file <= d.last
    BY <1>1 DEF NoRow, Blank, DbT
  <2>. HIDE DEF m, x
  <2>. QED  BY <1>3, <1>5, <1>10, <2>1, <2>2, <2>3
       DEF Good, Unused, Known, LosesLink, SameRow, SameTables, IsThere
<1>12. ASSUME NEW y \in Ids PROVE Fits(r, y)
  <2>1. CASE y = x
    BY <2>1, <1>7, <1>9 DEF Fits
  <2>2. CASE y # x
    <3>1. Showing(r, y) = Showing(d, y) /\ r.row[y] = d.row[y] /\ Fits(d, y)
      <4>1. d.link[e].id # y
        BY <2>2
      <4>. HIDE DEF m, x
      <4>. QED  BY <2>2, <4>1, <1>3, <1>5, <1>6 DEF Good, Showing
    <3>. QED  BY <3>1 DEF Fits, IsThere, IsShown
  <2>. QED  BY <2>1, <2>2
<1>. QED  BY <1>5, <1>10, <1>11, <1>12 DEF Good

\* A row is inserted, with the picture held in memory in a file of its own.
Inserts(d, r, t, new) ==
    /\ r.last = d.last + 1 /\ r.link = d.link /\ r.cleanups = d.cleanups
    /\ r.disk = d.disk \cup (IF t.file = Embedded THEN {r.last} ELSE {})
    /\ \A x \in Ids \ {r.last} : SameRow(d, r, x)
    /\ new = [t EXCEPT !.id = r.last, !.file = r.row[r.last].file]
    /\ r.row[r.last].status = t.status
    /\ r.row[r.last].file = IF t.file = Embedded THEN r.last ELSE t.file

LEMMA Inserting ==
    ASSUME NEW d, Good(d), NEW t \in ObjectT, d.last < MaxRows, t.status # "Missing",
           t.file \notin Ids
    PROVE  /\ Good(insert(d, t).db) /\ Inserts(d, insert(d, t).db, t, insert(d, t).new)
           /\ insert(d, t).new \in ObjectT
<1>. DEFINE id == d.last + 1
            file == IF t.file = Embedded THEN id ELSE t.file
            new == [status |-> t.status, file |-> file, shared |-> 0, hash |-> t.hash]
            disk == IF t.file = Embedded THEN d.disk \cup {id} ELSE d.disk
            r == insert(d, t).db
<1>1. d \in DbT /\ id \in Ids /\ file \in File /\ new \in RowT /\ disk \in SUBSET Ids
  <2>1. d \in DbT /\ id \in Ids
    BY Constants DEF Good, DbT, Ids
  <2>2. file \in File /\ t.status \in Status /\ t.hash \in Hash
    BY <2>1 DEF File, ObjectT
  <2>3. new \in RowT
    <3>. HIDE DEF file
    <3>. QED  BY <2>2 DEF RowT
  <2>4. disk \in SUBSET Ids
    <3>. HIDE DEF id
    <3>. QED  BY <2>1 DEF DbT
  <2>. QED  BY <2>1, <2>2, <2>3, <2>4
<1>2. /\ r = [d EXCEPT !.last = id, !.row = [d.row EXCEPT ![id] = new], !.disk = disk]
      /\ insert(d, t).new = [t EXCEPT !.id = id, !.file = file]
  BY <1>1 DEF insert, DbT
<1>3. /\ r \in DbT /\ r.last = id /\ r.link = d.link /\ r.cleanups = d.cleanups
      /\ r.disk = disk /\ r.row = [d.row EXCEPT ![id] = new]
  <2>. HIDE DEF new, file, disk, r
  <2>1. id \in 0 .. MaxRows /\ [d.row EXCEPT ![id] = new] \in [Ids -> RowT]
    BY <1>1 DEF Ids, DbT
  <2>. HIDE DEF id
  <2>2. r \in DbT
    BY <1>1, <1>2, <2>1 DEF DbT
  <2>. QED  BY <1>1, <1>2, <2>2 DEF DbT
<1>4. \A x \in Ids \ {id} : r.row[x] = d.row[x]
  <2>. HIDE DEF new, r
  <2>. QED  BY <1>1, <1>3 DEF DbT
<1>5. r.row[id] = new
  <2>. HIDE DEF new, r
  <2>. QED  BY <1>1, <1>3 DEF DbT
<1>6. Inserts(d, r, t, insert(d, t).new)
  <2>1. \A x \in Ids \ {id} : SameRow(d, r, x)
    BY <1>4 DEF SameRow
  <2>2. r.row[id].status = t.status /\ r.row[id].file = file
    <3>. HIDE DEF r, file
    <3>. QED  BY <1>5
  <2>3. r.disk = d.disk \cup (IF t.file = Embedded THEN {id} ELSE {})
    <3>. HIDE DEF r, id
    <3>. QED  BY <1>3
  <2>4. insert(d, t).new = [t EXCEPT !.id = id, !.file = r.row[id].file]
    <3>. HIDE DEF r, file, id
    <3>. QED  BY <1>2, <2>2
  <2>. HIDE DEF r, new
  <2>. QED  BY <1>3, <2>1, <2>2, <2>3, <2>4 DEF Inserts
<1>7. insert(d, t).new \in ObjectT
  <2>1. id \in 0 .. MaxRows /\ file \in File \cup {Embedded}
    BY <1>1 DEF Ids
  <2>. HIDE DEF r, id, file
  <2>. QED  BY <1>2, <2>1 DEF ObjectT
<1>8. Unused(r)
  <2>. HIDE DEF r, new
  <2>. QED  BY <1>1, <1>3, <1>4 DEF Good, Unused, IsThere, DbT, Ids
<1>9. Known(r)
  <2>1. file <= id
    BY <1>1 DEF File, Ids, Blank, UserFile, CoverFile
  <2>2. \A x \in Ids : r.row[x].file <= id
    <3>. HIDE DEF r
    <3>1. \A x \in Ids \ {id} : d.row[x].file <= d.last /\ d.row[x].file \in Int
      <4>1. \A x \in Ids : d.row[x].file \in File
        BY <1>1 DEF DbT, RowT
      <4>2. File \subseteq Int
        BY DEF File, Ids, Blank, UserFile, CoverFile
      <4>. QED  BY <4>1, <4>2 DEF Good, Known
    <3>. QED  BY <1>1, <1>4, <1>5, <2>1, <3>1 DEF DbT
  <2>3. \A f \in disk \cup d.cleanups : f <= id
    BY <1>1 DEF Good, Known, DbT, Ids
  <2>. HIDE DEF r
  <2>. QED  BY <1>3, <2>2, <2>3 DEF Known
<1>10. ASSUME NEW x \in Ids PROVE Fits(r, x)
  <2>1. Showing(r, x) = Showing(d, x) /\ Fits(d, x)
    <3>. HIDE DEF r
    <3>. QED  BY <1>3 DEF Showing, Good
  <2>2. CASE x = id
    <3>1. ~IsThere(d, x) /\ ~IsShown(d, x)
      BY <2>1, <2>2, <1>1 DEF Good, Unused, Fits, DbT, Ids
    <3>2. Cardinality(Showing(d, x)) = 0
      BY <3>1, FS_EmptySet DEF IsShown
    <3>. HIDE DEF r
    <3>. QED  BY <2>1, <2>2, <3>1, <3>2, <1>5 DEF Fits, IsShown
  <2>3. CASE x # id
    <3>. HIDE DEF r
    <3>. QED  BY <2>1, <2>3, <1>4 DEF Fits, IsShown, IsThere
  <2>. QED  BY <2>2, <2>3
<1>. QED  BY <1>3, <1>6, <1>7, <1>8, <1>9, <1>10 DEF Good

\* Row x is given a file and a status.
SetsRow(d, r, x, file, status) ==
    /\ SameTables(d, r) /\ r.link = d.link /\ r.cleanups = d.cleanups
    /\ \A y \in Ids \ {x} : SameRow(d, r, y)
    /\ r.row[x].file = file /\ r.row[x].status = status

LEMMA SettingRow ==
    ASSUME NEW d, Good(d), NEW x \in Ids, IsThere(d, x),
           NEW status \in Status \ {"Missing"}, NEW file \in File, file <= d.last,
           NEW r, r = [d EXCEPT !.row[x].file = file, !.row[x].status = status]
    PROVE  Good(r) /\ SetsRow(d, r, x, file, status)
<1>. DEFINE new == [d.row[x] EXCEPT !.file = file, !.status = status]
<1>1. d \in DbT /\ d.row \in [Ids -> RowT] /\ d.row[x] \in RowT
  BY DEF Good, DbT
<1>2. /\ new \in RowT /\ new.file = file /\ new.status = status
      /\ new.shared = d.row[x].shared
  BY <1>1 DEF RowT
<1>3. r = [d EXCEPT !.row = [d.row EXCEPT ![x] = new]]
  BY <1>1 DEF DbT, RowT
<1>4. /\ r \in DbT /\ r.link = d.link /\ r.last = d.last /\ r.disk = d.disk
      /\ r.cleanups = d.cleanups /\ r.row = [d.row EXCEPT ![x] = new]
  <2>1. [d.row EXCEPT ![x] = new] \in [Ids -> RowT]
    BY <1>1, <1>2
  <2>. DEFINE row == [d.row EXCEPT ![x] = new]
  <2>. HIDE DEF new, row
  <2>2. row \in [Ids -> RowT] /\ r = [d EXCEPT !.row = row]
    BY <1>3, <2>1 DEF row
  <2>3. /\ r \in DbT /\ r.link = d.link /\ r.last = d.last /\ r.disk = d.disk
        /\ r.cleanups = d.cleanups /\ r.row = row
    BY <1>1, <2>2 DEF DbT
  <2>. QED  BY <2>3 DEF row
<1>5. r.row[x] = new /\ \A y \in Ids \ {x} : r.row[y] = d.row[y]
  <2>. HIDE DEF new
  <2>. QED  BY <1>1, <1>4
<1>6. SetsRow(d, r, x, file, status)
  <2>. HIDE DEF new
  <2>. QED  BY <1>2, <1>4, <1>5 DEF SetsRow, SameTables, SameRow
<1>7. Unused(r) /\ Known(r)
  <2>. HIDE DEF new
  <2>. QED  BY <1>2, <1>4, <1>5 DEF Good, Unused, Known, IsThere
<1>8. ASSUME NEW y \in Ids PROVE Fits(r, y)
  <2>1. Showing(r, y) = Showing(d, y) /\ Fits(d, y)
    BY <1>4 DEF Showing, Good
  <2>2. r.row[y].shared = d.row[y].shared /\ (IsThere(d, y) => IsThere(r, y))
    <3>. HIDE DEF new
    <3>. QED  BY <1>2, <1>5 DEF IsThere
  <2>. QED  BY <2>1, <2>2 DEF Fits, IsShown
<1>. QED  BY <1>4, <1>6, <1>7, <1>8 DEF Good

LEMMA UpdatingMrl ==
    ASSUME NEW d, Good(d), NEW old, old.id \in Ids, NEW file \in File, file <= d.last,
           NEW r, r = updateMrl(d, old, file)
    PROVE  r = d \/ (Good(r) /\ IsThere(d, old.id) /\ SetsRow(d, r, old.id, file, "Available"))
<1>1. PICK x \in Ids : x = old.id
  OBVIOUS
<1>2. CASE r # d
  <2>1. IsThere(d, x) /\ r = [d EXCEPT !.row[x].file = file, !.row[x].status = "Available"]
    BY <1>1, <1>2 DEF updateMrl, IsThere
  <2>2. "Available" \in Status \ {"Missing"}
    BY DEF Status
  <2>3. Good(r) /\ SetsRow(d, r, x, file, "Available")
    BY <2>1, <2>2, SettingRow
  <2>. QED  BY <1>1, <2>1, <2>3
<1>. QED  BY <1>2

-----------------------------------------------------------------------------
(* Transactions.                                                           *)

Names(d, x, f) == IsShown(d, x) /\ IsAvailable(d, x) /\ d.row[x].file = f

\* Entity e, that is no video, shows row x.
Offered(d, x) == \E e \in Entities \ Videos : d.link[e].id = x

\* Row x was inserted by the transaction that started from d0, with a file of its own.
Wrote(d0, d, x) == x > d0.last /\ x \in d.disk /\ IsAvailable(d, x) /\ d.row[x].file = x

\* What a transaction has made of d0 so far: it adds rows and files; a row that was there is
\* shown by more entities only if it is not that of a video, and is given no other row's file
\* but one it has inserted; it asks for the removal of the files of rows it has deleted; and a
\* row nobody shows any more is deleted.
Keeps(d0, d) ==
    /\ d0.last <= d.last /\ d0.disk \subseteq d.disk /\ d0.cleanups \subseteq d.cleanups
    /\ \A x \in Ids : x <= d0.last =>
          Showing(d, x) \subseteq Showing(d0, x) \/ Offered(d0, x)
    /\ \A x, f \in Ids : IsAvailable(d, x) /\ d.row[x].file = f =>
          \/ IsAvailable(d0, x) /\ d0.row[x].file = f
          \/ f = x /\ f \in d.disk
          \/ Wrote(d0, d, f)
    /\ \A f \in d.cleanups \ d0.cleanups : \E x \in Ids : Names(d0, x, f) /\ ~IsThere(d, x)
    /\ \A x \in Ids : x <= d0.last /\ IsThere(d, x) => IsThere(d0, x)
    /\ \A x \in Ids : IsShown(d0, x) /\ ~IsShown(d, x) => ~IsThere(d, x)

LEMMA KeepsItself == \A d : Good(d) => Keeps(d, d)
<1>. SUFFICES ASSUME NEW d, Good(d) PROVE Keeps(d, d)
  OBVIOUS
<1>1. d.last <= d.last
  BY DEF Good, DbT
<1>. QED  BY <1>1 DEF Keeps

LEMMA GainKeeps ==
    ASSUME NEW d0, NEW d, Keeps(d0, d), NEW r, NEW es, NEW y \in Ids,
           GainsLinks(d, r, es, y), y <= d0.last => Offered(d0, y)
    PROVE  Keeps(d0, r)
BY DEF Keeps, GainsLinks, SameTables, SameRow, IsAvailable, IsThere, Wrote, IsShown

LEMMA LossKeeps ==
    ASSUME NEW d0, NEW d, Keeps(d0, d), NEW r, NEW e \in Entities, NEW x \in Ids,
           LosesLink(d, r, e, x), d.link[e].id = x, IsShown(d0, x), x <= d0.last,
           d0.last \in Int, SameRow(d0, d, x)
    PROVE  Keeps(d0, r)
<1>1. \A y \in Ids : IsAvailable(r, y) => IsAvailable(d, y) /\ r.row[y].file = d.row[y].file
  BY DEF LosesLink, SameRow, IsAvailable, IsThere
<1>2. \A y \in Ids : Wrote(d0, d, y) => Wrote(d0, r, y)
  <2>1. \A y \in Ids : y > d0.last => y # x
    BY DEF Ids
  <2>. QED  BY <2>1 DEF Wrote, LosesLink, SameRow, IsAvailable, SameTables
<1>3. \A y \in Ids : IsThere(r, y) => IsThere(d, y)
  BY DEF LosesLink, SameRow, IsThere
<1>4. \A f \in r.cleanups \ d.cleanups : Names(d0, x, f) /\ ~IsThere(r, x)
  BY DEF LosesLink, SameRow, IsAvailable, Names
<1>5. \A y \in Ids : IsShown(d, y) /\ ~IsShown(r, y) => ~IsThere(r, y)
  BY DEF LosesLink, Showing, IsShown
<1>6. \A y \in Ids : Showing(r, y) \subseteq Showing(d, y)
  BY DEF LosesLink
<1>7. r.last = d.last /\ r.disk = d.disk /\ d.cleanups \subseteq r.cleanups
  BY DEF LosesLink, SameTables
<1>. QED  BY <1>1, <1>2, <1>3, <1>4, <1>5, <1>6, <1>7 DEF Keeps

LEMMA InsertKeeps ==
    ASSUME NEW d0, Good(d0), NEW d, Good(d), Keeps(d0, d), NEW r, NEW t, NEW new,
           Inserts(d, r, t, new), t.file \notin Ids
    PROVE  Keeps(d0, r)
<1>1. /\ d.last \in Int /\ d0.last \in Int /\ d0.last < r.last /\ r.last = d.last + 1
      /\ d.last <= r.last
  BY DEF Good, DbT, Inserts, Keeps
<1>2. \A y \in Ids : IsThere(d, y) => y # r.last
  BY <1>1 DEF Good, Unused, Ids
<1>3. \A y \in Ids : IsShown(d0, y) => y # r.last
  BY <1>1 DEF Good, Unused, Fits, Ids
<1>4. \A y \in Ids : IsAvailable(d, y) => IsThere(d, y)
  BY DEF IsAvailable, IsThere
<1>5. \A y \in Ids \ {r.last} : SameRow(d, r, y)
  BY DEF Inserts
<1>6. d.disk \subseteq r.disk /\ r.link = d.link /\ r.cleanups = d.cleanups
  BY DEF Inserts
<1>7. \A f \in Ids : r.row[r.last].file = f => f = r.last /\ f \in r.disk
  BY DEF Inserts
<1>8. \A y \in Ids : Wrote(d0, d, y) => Wrote(d0, r, y)
  BY <1>2, <1>4, <1>5, <1>6 DEF Wrote, SameRow, IsAvailable
<1>9. \A x : Showing(r, x) = Showing(d, x)
  BY <1>6 DEF Showing
<1>10. \A x, f \in Ids : IsAvailable(r, x) /\ r.row[x].file = f =>
          \/ IsAvailable(d0, x) /\ d0.row[x].file = f
          \/ f = x /\ f \in r.disk
          \/ Wrote(d0, r, f)
  <2>. SUFFICES ASSUME NEW x \in Ids, NEW f \in Ids, IsAvailable(r, x), r.row[x].file = f
                PROVE  \/ IsAvailable(d0, x) /\ d0.row[x].file = f
                       \/ f = x /\ f \in r.disk
                       \/ Wrote(d0, r, f)
    OBVIOUS
  <2>1. CASE x = r.last
    BY <2>1, <1>7
  <2>2. CASE x # r.last
    <3>1. IsAvailable(d, x) /\ d.row[x].file = f
      BY <2>2, <1>5 DEF SameRow, IsAvailable
    <3>. QED  BY <3>1, <1>6, <1>8 DEF Keeps
  <2>. QED  BY <2>1, <2>2
<1>11. \A x \in Ids \ {r.last} : IsThere(r, x) <=> IsThere(d, x)
  BY <1>5 DEF SameRow, IsThere
<1>12. \A f \in r.cleanups \ d0.cleanups : \E x \in Ids : Names(d0, x, f) /\ ~IsThere(r, x)
  <2>. SUFFICES ASSUME NEW f \in r.cleanups \ d0.cleanups
                PROVE  \E x \in Ids : Names(d0, x, f) /\ ~IsThere(r, x)
    OBVIOUS
  <2>1. PICK x \in Ids : Names(d0, x, f) /\ ~IsThere(d, x)
    BY <1>6 DEF Keeps
  <2>. QED  BY <2>1, <1>3, <1>11 DEF Names
<1>13. \A x \in Ids : x <= d0.last => x # r.last
  BY <1>1 DEF Ids
<1>14. d0.last <= r.last
  BY <1>1
<1>15. \A x \in Ids : IsShown(r, x) <=> IsShown(d, x)
  BY <1>9 DEF IsShown
<1>. QED  BY <1>3, <1>6, <1>9, <1>10, <1>11, <1>12, <1>13, <1>14, <1>15 DEF Keeps

LEMMA SettingKeeps ==
    ASSUME NEW d0, NEW d, Keeps(d0, d), NEW r, NEW x \in Ids, NEW file, NEW status,
           IsThere(d, x), SetsRow(d, r, x, file, status),
           status # "Missing",
           status = "Available" =>
              file \notin Ids \/ (file = x /\ file \in d.disk) \/ Wrote(d0, d, file),
           x <= d0.last \/ (file = x /\ status = "Available"),
           d0.last \in Int
    PROVE  Keeps(d0, r)
<1>1. /\ r.last = d.last /\ r.disk = d.disk /\ r.link = d.link /\ r.cleanups = d.cleanups
      /\ \A y \in Ids \ {x} : SameRow(d, r, y)
      /\ r.row[x].file = file /\ r.row[x].status = status
  BY DEF SetsRow, SameTables
<1>2. \A y \in Ids : Wrote(d0, d, y) => Wrote(d0, r, y)
  BY <1>1 DEF Wrote, SameRow, IsAvailable, Ids
<1>3. \A y \in Ids : IsThere(r, y) <=> IsThere(d, y)
  BY <1>1 DEF SameRow, IsThere
<1>4. \A y, f \in Ids : IsAvailable(r, y) /\ r.row[y].file = f =>
          \/ IsAvailable(d0, y) /\ d0.row[y].file = f
          \/ f = y /\ f \in r.disk
          \/ Wrote(d0, r, f)
  <2>. SUFFICES ASSUME NEW y \in Ids, NEW f \in Ids, IsAvailable(r, y), r.row[y].file = f
                PROVE  \/ IsAvailable(d0, y) /\ d0.row[y].file = f
                       \/ f = y /\ f \in r.disk
                       \/ Wrote(d0, r, f)
    OBVIOUS
  <2>1. CASE y = x
    BY <2>1, <1>1, <1>2 DEF IsAvailable
  <2>2. CASE y # x
    <3>1. IsAvailable(d, y) /\ d.row[y].file = f
      BY <2>2, <1>1 DEF SameRow, IsAvailable
    <3>. QED  BY <3>1, <1>1, <1>2 DEF Keeps
  <2>. QED  BY <2>1, <2>2
<1>5. \A y \in Ids : Showing(r, y) = Showing(d, y) /\ (IsShown(r, y) <=> IsShown(d, y))
  BY <1>1 DEF Showing, IsShown
<1>. QED  BY <1>1, <1>3, <1>4, <1>5 DEF Keeps

LEMMA Linked ==
    ASSUME NEW d, Good(d), NEW e \in Entities, d.link[e].id # 0
    PROVE  /\ d.link[e].id \in Ids /\ e \in Showing(d, d.link[e].id)
           /\ IsShown(d, d.link[e].id) /\ IsThere(d, d.link[e].id)
           /\ d.link[e].id <= d.last
<1>1. d.link[e].id \in Ids /\ d.last \in Int
  BY DEF Good, DbT, LinkT, Ids
<1>2. e \in Showing(d, d.link[e].id)
  BY DEF Showing
<1>3. IsShown(d, d.link[e].id) /\ IsThere(d, d.link[e].id)
  BY <1>1, <1>2 DEF IsShown, Good, Fits
<1>. QED  BY <1>1, <1>2, <1>3 DEF Good, Unused, Ids

LEMMA GainApart ==
    ASSUME NEW d, Good(d), Apart(d), NEW r, NEW es \in SUBSET Entities, NEW y \in Ids,
           GainsLinks(d, r, es, y),
           \/ es \cap Videos = {} /\ IsAvailable(d, y) /\ \A v \in Videos : d.link[v].id # y
           \/ \E v \in Videos : es = {v} /\ ~IsShown(d, y)
    PROVE  Apart(r)
<1>1. \A e \in Entities : IF e \in es THEN r.link[e].id = y ELSE r.link[e] = d.link[e]
  BY DEF GainsLinks
<1>2. \A x \in Ids : IsAvailable(r, x) <=> IsAvailable(d, x)
  BY DEF GainsLinks, SameRow, IsAvailable
<1>3. \A e \in Entities : d.link[e].id # 0 /\ IsAvailable(d, d.link[e].id)
                            /\ r.link[e] = d.link[e] => IsAvailable(r, r.link[e].id)
  BY <1>2, Linked
<1>4. Videos \subseteq Entities
  BY Constants
<1>5. CASE es \cap Videos = {} /\ IsAvailable(d, y) /\ \A v \in Videos : d.link[v].id # y
  BY <1>1, <1>2, <1>3, <1>4, <1>5 DEF Apart
<1>6. CASE \E v \in Videos : es = {v} /\ ~IsShown(d, y)
  <2>1. \A e \in Entities : d.link[e].id # y
    BY <1>6 DEF IsShown, Showing
  <2>. QED  BY <1>1, <1>3, <1>4, <1>6, <2>1 DEF Apart
<1>. QED  BY <1>5, <1>6

LEMMA LossApart ==
    ASSUME NEW d, Good(d), Apart(d), NEW r, Good(r), NEW e \in Entities, NEW x \in Ids,
           LosesLink(d, r, e, x)
    PROVE  Apart(r)
<1>1. \A y \in Entities : r.link[y].id # 0 => y # e /\ r.link[y] = d.link[y]
  BY DEF LosesLink, NoLink
<1>2. \A y \in Ids : IsAvailable(d, y) /\ IsThere(r, y) => IsAvailable(r, y)
  BY DEF LosesLink, SameRow, IsAvailable
<1>3. \A y \in Entities : r.link[y].id # 0 => r.link[y].id \in Ids /\ IsThere(r, r.link[y].id)
  BY Linked
<1>. QED  BY <1>1, <1>2, <1>3, Constants DEF Apart

LEMMA InsertApart ==
    ASSUME NEW d, Good(d), Apart(d), NEW r, NEW t, NEW new, Inserts(d, r, t, new)
    PROVE  Apart(r)
<1>1. d.last \in Int /\ r.last = d.last + 1 /\ r.link = d.link
  BY DEF Inserts, Good, DbT
<1>2. \A y \in Entities : d.link[y].id # 0 => d.link[y].id \in Ids \ {r.last}
  BY <1>1, Linked DEF Ids
<1>3. \A y \in Ids \ {r.last} : IsAvailable(r, y) <=> IsAvailable(d, y)
  BY DEF Inserts, SameRow, IsAvailable
<1>. QED  BY <1>1, <1>2, <1>3 DEF Apart

LEMMA SettingApart ==
    ASSUME NEW d, Good(d), Apart(d), NEW r, NEW x \in Ids, NEW file, NEW status,
           SetsRow(d, r, x, file, status),
           status = "Available" \/ \A e \in Entities \ Videos : d.link[e].id # x
    PROVE  Apart(r)
<1>1. r.link = d.link
  BY DEF SetsRow
<1>2. \A y \in Entities : d.link[y].id # 0 => d.link[y].id \in Ids
  BY Linked
<1>3. \A y \in Ids : IsAvailable(d, y) => IsAvailable(r, y) \/ y = x
  BY DEF SetsRow, SameRow, IsAvailable
<1>4. status = "Available" => IsAvailable(r, x)
  BY DEF SetsRow, IsAvailable
<1>. QED  BY <1>1, <1>2, <1>3, <1>4 DEF Apart

\* What a transaction that starts from d0 has made of it.
Transacts(d0, d) == Good(d) /\ Apart(d) /\ Keeps(d0, d)

\* The entities other than e show what they showed.
LinksOnly(d, r, e) == \A y \in Entities \ {e} : r.link[y] = d.link[y]

LEMMA Gaining ==
    ASSUME NEW d0, NEW d, Transacts(d0, d), NEW es \in SUBSET Entities, NEW y \in Ids,
           NEW origin \in Origin, \A e \in es : d.link[e].id = 0,
           es # {} \/ IsShown(d, y), IsThere(d, y), y <= d0.last => Offered(d0, y),
           \/ es \cap Videos = {} /\ IsAvailable(d, y) /\ \A v \in Videos : d.link[v].id # y
           \/ \E v \in Videos : es = {v} /\ ~IsShown(d, y),
           NEW r, r = Count(LinkAll(d, es, y, origin), y, Cardinality(es))
    PROVE  Transacts(d0, r) /\ GainsLinks(d, r, es, y)
<1>1. Good(r) /\ GainsLinks(d, r, es, y)
  BY LinkingAll DEF Transacts
<1>2. Apart(r)
  BY <1>1, GainApart DEF Transacts
<1>3. Keeps(d0, r)
  BY <1>1, GainKeeps DEF Transacts
<1>. QED  BY <1>1, <1>2, <1>3 DEF Transacts

\* Entity e, that shows nothing, is linked with row y.
LEMMA Linking ==
    ASSUME NEW d0, NEW d, Transacts(d0, d), NEW e \in Entities, NEW y \in Ids,
           NEW origin \in Origin, d.link[e].id = 0,
           IsThere(d, y), y <= d0.last => Offered(d0, y),
           IF e \in Videos THEN ~IsShown(d, y)
           ELSE IsAvailable(d, y) /\ \A v \in Videos : d.link[v].id # y,
           NEW r, r = insertLinkRecord(d, e, y, origin)
    PROVE  Transacts(d0, r) /\ GainsLinks(d, r, {e}, y)
<1>1. d.link \in [Entities -> LinkT]
  BY DEF Transacts, Good, DbT
<1>2. r = Count(LinkAll(d, {e}, y, origin), y, Cardinality({e}))
  <2>1. Cardinality({e}) = 1
    BY FS_Singleton
  <2>2. [d.link EXCEPT ![e] = [id |-> y, origin |-> origin]]
          = [x \in Entities |-> IF x \in {e} THEN [id |-> y, origin |-> origin] ELSE d.link[x]]
    BY <1>1
  <2>. QED  BY <2>1, <2>2 DEF insertLinkRecord, LinkAll
<1>3. /\ {e} \in SUBSET Entities /\ {e} # {} /\ \A x \in {e} : d.link[x].id = 0
      /\ \/ {e} \cap Videos = {} /\ IsAvailable(d, y) /\ \A v \in Videos : d.link[v].id # y
         \/ \E v \in Videos : {e} = {v} /\ ~IsShown(d, y)
  OBVIOUS
<1>. QED  BY <1>2, <1>3, Gaining

LEMMA Losing ==
    ASSUME NEW d0, Good(d0), NEW d, Transacts(d0, d), NEW e \in Entities, d.link[e].id # 0,
           d0.link[e] = d.link[e], SameRow(d0, d, d.link[e].id),
           NEW r, r = unlinkThumbnail(d, e)
    PROVE  Transacts(d0, r) /\ LosesLink(d, r, e, d.link[e].id)
<1>1. PICK x \in Ids : x = d.link[e].id
  BY Linked DEF Transacts
<1>2. Good(r) /\ LosesLink(d, r, e, x)
  BY <1>1, Unlinking DEF Transacts
<1>3. Apart(r)
  BY <1>2, LossApart DEF Transacts
<1>4. IsShown(d0, x) /\ x <= d0.last /\ d0.last \in Int
  BY <1>1, Linked DEF Good, DbT
<1>5. Keeps(d0, r)
  BY <1>1, <1>2, <1>4, LossKeeps DEF Transacts
<1>. QED  BY <1>1, <1>2, <1>3, <1>5 DEF Transacts

WithLink(d, e, l) == [d EXCEPT !.link[e] = l]

\* Counting a row does not look at the links.
LEMMA LinkCounted ==
    ASSUME NEW d \in DbT, NEW e \in Entities, NEW l1, NEW l2, NEW x \in Ids
    PROVE  Count(WithLink(d, e, l1), x, -1)
               = WithLink(Count(WithLink(d, e, l2), x, -1), e, l1)
<1>. DEFINE Tables(link, row, cleanups) ==
                [row |-> row, link |-> link, last |-> d.last, disk |-> d.disk,
                 cleanups |-> cleanups]
            L1 == [d.link EXCEPT ![e] = l1]
            L2 == [d.link EXCEPT ![e] = l2]
            gone == d.row[x].shared + (-1) = 0
            file == d.row[x].file
            row == IF d.row[x].status = "Missing" THEN d.row
                   ELSE IF gone THEN [d.row EXCEPT ![x] = NoRow]
                   ELSE [d.row EXCEPT ![x].shared = @ + (-1)]
            cleanups == IF gone /\ IsOwned(file) /\ d.row[x].status = "Available"
                        THEN d.cleanups \cup {file} ELSE d.cleanups
<1>1. d = Tables(d.link, d.row, d.cleanups) /\ [L2 EXCEPT ![e] = l1] = L1
  BY DEF DbT
<1>2. \A link, rows, files :
         WithLink(Tables(link, rows, files), e, l1)
             = Tables([link EXCEPT ![e] = l1], rows, files)
  BY DEF WithLink
<1>3. /\ WithLink(d, e, l1) = Tables(L1, d.row, d.cleanups)
      /\ WithLink(d, e, l2) = Tables(L2, d.row, d.cleanups)
  <2>. HIDE DEF Tables
  <2>1. d = Tables(d.link, d.row, d.cleanups)
    BY <1>1
  <2>. QED  BY <2>1 DEF Tables, WithLink
<1>4. \A link : Count(Tables(link, d.row, d.cleanups), x, -1) = Tables(link, row, cleanups)
  <2>. TAKE link
  <2>. DEFINE m == Tables(link, d.row, d.cleanups)
  <2>1. DeleteRow(m, x) = Tables(link, [d.row EXCEPT ![x] = NoRow],
                                 IF IsOwned(file) /\ d.row[x].status = "Available"
                                 THEN d.cleanups \cup {file} ELSE d.cleanups)
    <3>1. m.row = d.row /\ m.cleanups = d.cleanups
      OBVIOUS
    <3>2. ASSUME NEW r, NEW f
          PROVE  [m EXCEPT !.row = r, !.cleanups = f] = Tables(link, r, f)
      <4>. DEFINE n == [m EXCEPT !.row = r]
      <4>. HIDE DEF row, cleanups, L1, L2, gone, file
      <4>1. n = Tables(link, r, d.cleanups)
        OBVIOUS
      <4>2. [m EXCEPT !.row = r, !.cleanups = f] = [n EXCEPT !.cleanups = f]
        OBVIOUS
      <4>. HIDE DEF m, n
      <4>3. [n EXCEPT !.cleanups = f] = Tables(link, r, f)
        BY <4>1
      <4>. QED  BY <4>2, <4>3
    <3>. HIDE DEF m, Tables
    <3>3. DeleteRow(m, x) = [m EXCEPT !.row = [d.row EXCEPT ![x] = NoRow],
                                      !.cleanups =
                                IF IsOwned(file) /\ d.row[x].status = "Available"
                                THEN d.cleanups \cup {file} ELSE d.cleanups]
      BY <3>1 DEF DeleteRow
    <3>. QED  BY <3>2, <3>3
  <2>2. [m EXCEPT !.row[x].shared = @ + (-1)]
            = Tables(link, [d.row EXCEPT ![x].shared = @ + (-1)], d.cleanups)
    OBVIOUS
  <2>3. m.row = d.row
    OBVIOUS
  <2>. HIDE DEF Tables, m
  <2>4. CASE d.row[x].status = "Missing"
    BY <2>3, <2>4 DEF Count, m
  <2>5. CASE d.row[x].status # "Missing" /\ gone
    BY <2>1, <2>3, <2>5 DEF Count, m
  <2>6. CASE d.row[x].status # "Missing" /\ ~gone
    BY <2>2, <2>3, <2>6 DEF Count, m
  <2>. QED  BY <2>4, <2>5, <2>6 DEF m
<1>. HIDE DEF Tables, L1, L2, row, cleanups
<1>. QED  BY <1>1, <1>2, <1>3, <1>4

\* Entity e no longer shows what it showed, and shows row y.
LEMMA Relinking ==
    ASSUME NEW d0, Good(d0), NEW d, Transacts(d0, d), NEW e \in Entities, d.link[e].id # 0,
           d0.link[e] = d.link[e], SameRow(d0, d, d.link[e].id),
           NEW y \in Ids, y # d.link[e].id,
           NEW origin \in Origin,
           IsThere(d, y), y <= d0.last => Offered(d0, y),
           IF e \in Videos THEN ~IsShown(d, y)
           ELSE IsAvailable(d, y) /\ \A v \in Videos : d.link[v].id # y,
           NEW r, r = updateLinkRecord(d, e, y, origin)
    PROVE  /\ Transacts(d0, r) /\ LinksOnly(d, r, e) /\ r.link[e].id = y
           /\ SameTables(d, r) /\ SameRow(d, r, y)
<1>. DEFINE x == d.link[e].id
            u == unlinkThumbnail(d, e)
<1>1. d \in DbT /\ x \in Ids
  BY Linked DEF Transacts, Good
<1>2. Transacts(d0, u) /\ LosesLink(d, u, e, x)
  <2>. HIDE DEF u
  <2>. QED  BY Losing DEF u
<1>3. u = Count(WithLink(d, e, NoLink), x, -1)
  BY DEF unlinkThumbnail, WithLink
<1>4. r = insertLinkRecord(u, e, y, origin)
  <2>. DEFINE l == [id |-> y, origin |-> origin]
  <2>1. r = Count(Count(WithLink(d, e, l), x, -1), y, 1)
    BY DEF updateLinkRecord, Relinked, WithLink
  <2>2. Count(WithLink(d, e, l), x, -1) = WithLink(u, e, l)
    <3>. HIDE DEF l, x, u
    <3>. QED  BY <1>1, <1>3, LinkCounted
  <2>. QED  BY <2>1, <2>2 DEF insertLinkRecord, WithLink
<1>5. /\ u.link[e].id = 0 /\ SameRow(d, u, y) /\ SameTables(d, u) /\ LinksOnly(d, u, e)
      /\ \A v \in Entities : u.link[v].id = y => d.link[v].id = y
      /\ IsShown(u, y) => IsShown(d, y)
  <2>. HIDE DEF u
  <2>. QED  BY <1>1, <1>2 DEF LosesLink, NoLink, LinksOnly, IsShown, Ids
<1>6. Transacts(d0, r) /\ GainsLinks(u, r, {e}, y)
  <2>1. /\ IsThere(u, y)
        /\ IF e \in Videos THEN ~IsShown(u, y)
           ELSE IsAvailable(u, y) /\ \A v \in Videos : u.link[v].id # y
    BY <1>5, Constants DEF SameRow, IsThere, IsAvailable
  <2>. HIDE DEF u
  <2>. QED  BY <1>2, <1>4, <1>5, <2>1, Linking
<1>. HIDE DEF u
<1>. QED  BY <1>5, <1>6 DEF LinksOnly, GainsLinks, SameTables, SameRow

LEMMA ChangingOrigin ==
    ASSUME NEW d0, NEW d, Transacts(d0, d), NEW e \in Entities, d.link[e].id # 0,
           NEW origin \in Origin, NEW r, r = LinkTo(d, e, d.link[e].id, origin)
    PROVE  Transacts(d0, r) /\ LinksOnly(d, r, e) /\ r.link[e].id = d.link[e].id
           /\ r.row = d.row /\ r.last = d.last
<1>1. PICK x \in 0 .. MaxRows : x = d.link[e].id
  BY DEF Transacts, Good, DbT, LinkT
<1>2. /\ r \in DbT /\ r.row = d.row /\ r.last = d.last /\ r.disk = d.disk
      /\ r.cleanups = d.cleanups /\ r.link[e].id = x
      /\ \A y \in Entities \ {e} : r.link[y] = d.link[y]
  <2>1. d \in DbT /\ r = LinkTo(d, e, x, origin)
    BY <1>1 DEF Transacts, Good
  <2>2. /\ r \in DbT /\ r.row = d.row /\ r.last = d.last /\ r.disk = d.disk
        /\ r.cleanups = d.cleanups
        /\ r.link[e] = [id |-> x, origin |-> origin]
        /\ \A y \in Entities \ {e} : r.link[y] = d.link[y]
    BY <2>1, LinkToIs
  <2>. QED  BY <2>2
<1>3. \A y \in Entities : r.link[y].id = d.link[y].id
  BY <1>1, <1>2
<1>4. \A y : /\ Showing(r, y) = Showing(d, y) /\ (IsShown(r, y) <=> IsShown(d, y))
             /\ (IsThere(r, y) <=> IsThere(d, y)) /\ (IsAvailable(r, y) <=> IsAvailable(d, y))
  BY <1>2, <1>3 DEF Showing, IsShown, IsThere, IsAvailable
<1>5. Good(r)
  <2>1. \A y \in Ids : Fits(r, y)
    BY <1>2, <1>4 DEF Transacts, Good, Fits
  <2>. QED  BY <1>2, <1>4, <2>1 DEF Transacts, Good, Unused, Known
<1>6. Apart(r)
  BY <1>3, <1>4, Constants DEF Transacts, Apart
<1>7. \A y : Wrote(d0, r, y) <=> Wrote(d0, d, y)
  BY <1>2, <1>4 DEF Wrote
<1>8. Keeps(d0, r)
  BY <1>2, <1>4, <1>7 DEF Transacts, Keeps
<1>. QED  BY <1>1, <1>2, <1>5, <1>6, <1>8 DEF Transacts, LinksOnly

\* The thumbnail t can be shown: there is room for it, or its row is no video's.
Fit(d0, d, t) ==
    /\ t \in ObjectT
    /\ t.id = 0 => d.last < MaxRows /\ t.file \notin Ids /\ t.status # "Missing"
    /\ t.id # 0 =>
          /\ t.id <= d.last /\ t.file # Embedded /\ IsAvailable(d, t.id)
          /\ t.id <= d0.last => Offered(d0, t.id)
          /\ \A v \in Videos : d.link[v].id # t.id

LEMMA InsertingOnce ==
    ASSUME NEW d0, Good(d0), NEW d, Transacts(d0, d), NEW t, Fit(d0, d, t),
           NEW i, i = InsertedOnce(d, t)
    PROVE  /\ Transacts(d0, i.db) /\ i.db.link = d.link
           /\ \A x \in Ids : IsThere(d, x) => SameRow(d, i.db, x)
           /\ i.new \in ObjectT /\ i.new.id \in Ids /\ i.new.id <= i.db.last
           /\ i.new.file # Embedded /\ i.new.origin = t.origin /\ i.new.status = t.status
           /\ IsThere(i.db, i.new.id) /\ (t.status = "Available" => IsAvailable(i.db, i.new.id))
           /\ i.new.id <= d0.last => Offered(d0, i.new.id)
           /\ \A v \in Videos : d.link[v].id # i.new.id
           /\ t.id = 0 => ~IsShown(d, i.new.id)
           /\ t.id # 0 => i.new = t /\ i.db = d
<1>1. CASE t.id # 0
  <2>1. i.db = d /\ i.new = t
    BY <1>1 DEF InsertedOnce
  <2>2. t.id \in Ids
    BY <1>1 DEF Fit, ObjectT, Ids
  <2>. QED  BY <1>1, <2>1, <2>2 DEF Fit, SameRow, IsAvailable, IsThere
<1>2. CASE t.id = 0
  <2>1. i = insert(d, t)
    BY <1>2 DEF InsertedOnce
  <2>2. /\ t \in ObjectT /\ d.last < MaxRows /\ t.file \notin Ids /\ t.status # "Missing"
        /\ Good(d) /\ Apart(d) /\ Keeps(d0, d)
    BY <1>2 DEF Fit, Transacts
  <2>3. Good(i.db) /\ Inserts(d, i.db, t, i.new) /\ i.new \in ObjectT
    BY <2>1, <2>2, Inserting
  <2>4. Transacts(d0, i.db)
    BY <2>2, <2>3, InsertKeeps, InsertApart DEF Transacts
  <2>5. /\ d.last \in Int /\ d0.last \in Int /\ d0.last <= d.last
        /\ i.db.last = d.last + 1 /\ i.db.last \in Ids
    BY <2>2, <2>3, Constants DEF Good, DbT, Ids, Inserts, Keeps
  <2>6. \A x \in Ids : IsThere(d, x) => x # i.db.last
    BY <2>2, <2>5 DEF Good, Unused
  <2>7. ~IsShown(d, i.db.last) /\ \A v \in Videos : d.link[v].id # i.db.last
    <3>1. ~IsShown(d, i.db.last)
      BY <2>2, <2>5, <2>6 DEF Good, Fits
    <3>. QED  BY <3>1, Constants DEF IsShown, Showing
  <2>8. /\ i.new.id = i.db.last /\ i.new.file = i.db.row[i.db.last].file
        /\ i.new.origin = t.origin /\ i.new.status = t.status
    BY <2>2, <2>3 DEF Inserts, ObjectT
  <2>9. i.new.file # Embedded
    <3>1. Embedded \notin Ids
      BY DEF Embedded, Ids
    <3>. QED  BY <2>3, <2>5, <2>8, <3>1 DEF Inserts
  <2>10. /\ IsThere(i.db, i.new.id)
         /\ t.status = "Available" => IsAvailable(i.db, i.new.id)
    BY <2>2, <2>3, <2>8 DEF Inserts, IsThere, IsAvailable
  <2>11. /\ i.db.link = d.link
         /\ \A x \in Ids : IsThere(d, x) => SameRow(d, i.db, x)
    BY <2>3, <2>6 DEF Inserts
  <2>. QED  BY <1>2, <2>3, <2>4, <2>5, <2>7, <2>8, <2>9, <2>10, <2>11
<1>. QED  BY <1>1, <1>2

\* setThumbnail() for an entity that shows nothing.
LEMMA Attaching ==
    ASSUME NEW d0, Good(d0), NEW d, Transacts(d0, d), NEW e \in Entities, d.link[e].id = 0,
           NEW t, Fit(d0, d, t), IF e \in Videos THEN t.id = 0 ELSE t.status = "Available",
           NEW r, r = setThumbnail(d, e, t)
    PROVE  /\ Transacts(d0, r.db) /\ LinksOnly(d, r.db, e) /\ r.db.link[e].id = r.new.id
           /\ r.new.id # 0 /\ r.new.status = t.status /\ r.new.file # Embedded
           /\ r.new.origin = t.origin
           /\ e \notin Videos => Fit(d0, r.db, r.new)
           /\ t.id # 0 => r.new = t /\ r.db.last = d.last
<1>. DEFINE i == InsertedOnce(d, t)
<1>1. /\ Transacts(d0, i.db) /\ i.db.link = d.link
      /\ i.new \in ObjectT /\ i.new.id \in Ids /\ i.new.id <= i.db.last
      /\ i.new.file # Embedded /\ i.new.origin = t.origin /\ i.new.status = t.status
      /\ IsThere(i.db, i.new.id) /\ (t.status = "Available" => IsAvailable(i.db, i.new.id))
      /\ i.new.id <= d0.last => Offered(d0, i.new.id)
      /\ \A v \in Videos : d.link[v].id # i.new.id
      /\ t.id = 0 => ~IsShown(d, i.new.id)
      /\ t.id # 0 => i.new = t /\ i.db = d
  <2>. HIDE DEF i
  <2>. QED  BY InsertingOnce DEF i
<1>2. r = [i EXCEPT !.db = insertLinkRecord(i.db, e, i.new.id, i.new.origin)]
  BY DEF setThumbnail, Replace, updateOrReplace, Fetch, Null, Object
<1>3. r.db = insertLinkRecord(i.db, e, i.new.id, i.new.origin) /\ r.new = i.new
  <2>1. i = [db |-> i.db, new |-> i.new]
    BY DEF InsertedOnce, insert
  <2>. HIDE DEF i
  <2>. QED  BY <1>2, <2>1
<1>. HIDE DEF i
<1>4. PICK y \in Ids, origin \in Origin : y = i.new.id /\ origin = i.new.origin
  BY <1>1 DEF ObjectT
<1>5. Transacts(d0, r.db) /\ GainsLinks(i.db, r.db, {e}, y)
  <2>1. i.db.link[e].id = 0 /\ (t.id = 0 => ~IsShown(i.db, y))
    BY <1>1, <1>4 DEF IsShown, Showing
  <2>2. IF e \in Videos THEN ~IsShown(i.db, y)
        ELSE IsAvailable(i.db, y) /\ \A v \in Videos : i.db.link[v].id # y
    BY <1>1, <1>4, <2>1
  <2>. QED  BY <1>1, <1>3, <1>4, <2>1, <2>2, Linking
<1>6. /\ LinksOnly(d, r.db, e) /\ r.db.link[e].id = y /\ r.db.last = i.db.last
      /\ SameRow(i.db, r.db, y)
  BY <1>1, <1>5 DEF GainsLinks, LinksOnly, SameTables
<1>7. ASSUME e \notin Videos PROVE Fit(d0, r.db, r.new)
  <2>1. \A v \in Videos : r.db.link[v].id # y
    BY <1>1, <1>4, <1>6, <1>7, Constants DEF LinksOnly
  <2>2. IsAvailable(r.db, y)
    BY <1>1, <1>4, <1>6, <1>7 DEF SameRow, IsAvailable
  <2>. QED  BY <1>1, <1>3, <1>4, <1>6, <2>1, <2>2 DEF Fit, Ids
<1>. QED  BY <1>1, <1>3, <1>4, <1>5, <1>6, <1>7 DEF Ids

LEMMA FetchIs ==
    ASSUME NEW d, Good(d), NEW e \in Entities, d.link[e].id # 0
    PROVE  /\ Fetch(d, e) \in ObjectT /\ Fetch(d, e).id = d.link[e].id
           /\ Fetch(d, e).status = d.row[d.link[e].id].status
           /\ Fetch(d, e).file = d.row[d.link[e].id].file
           /\ Fetch(d, e).shared = d.row[d.link[e].id].shared
           /\ Fetch(d, e).origin = d.link[e].origin
           /\ Fetch(d, e).status # "Missing" /\ Fetch(d, e).file # Embedded
<1>1. d.link[e] \in LinkT /\ d.link[e].id \in Ids /\ d.row[d.link[e].id] \in RowT
  BY Linked DEF Good, DbT
<1>2. Fetch(d, e) = Object(d.link[e].id, d.row[d.link[e].id].status, d.row[d.link[e].id].file,
                           d.link[e].origin, d.row[d.link[e].id].hash,
                           d.row[d.link[e].id].shared)
  BY DEF Fetch
<1>3. d.row[d.link[e].id].status # "Missing"
  BY Linked DEF IsThere
<1>. QED  BY <1>1, <1>2, <1>3, Constants DEF Object, ObjectT, RowT, LinkT

LEMMA FetchNull == \A d, e : d.link[e].id = 0 => Fetch(d, e) = Null
BY DEF Fetch

\* The row entity e shows takes the file of t, which was given no row.
LEMMA Updating ==
    ASSUME NEW d0, Good(d0), Apart(d0), NEW e \in Entities, d0.link[e].id # 0,
           NEW t, Fit(d0, d0, t), t.id = 0, t.status = "Available",
           NEW r, r = update(d0, Fetch(d0, e), t)
    PROVE  /\ Transacts(d0, r.db) /\ r.db.link = d0.link
           /\ Fit(d0, r.db, r.new) /\ r.new.status = t.status /\ r.new.origin = t.origin
<1>. DEFINE old == Fetch(d0, e)
            i == IF t.file = Embedded THEN insert(d0, t) ELSE [db |-> d0, new |-> t]
<1>1. /\ old.id \in Ids /\ old.id = d0.link[e].id /\ IsThere(d0, old.id)
      /\ old.id <= d0.last /\ d0.last \in Int /\ d0.last < MaxRows
  BY FetchIs, Linked DEF Fit, Good, DbT
<1>2. Transacts(d0, d0)
  BY KeepsItself DEF Transacts
<1>. HIDE DEF old
<1>3. /\ Transacts(d0, i.db) /\ i.db.link = d0.link /\ SameRow(d0, i.db, old.id)
      /\ i.new.status = t.status /\ i.new.origin = t.origin /\ d0.last <= i.db.last
      /\ i.new.file \in File /\ i.new.file <= i.db.last
      /\ i.new.file \notin Ids \/ Wrote(d0, i.db, i.new.file)
      /\ Fit(d0, i.db, i.new)
  <2>1. CASE t.file = Embedded
    <3>1. i = InsertedOnce(d0, t)
      BY <2>1 DEF InsertedOnce
    <3>2. /\ Transacts(d0, i.db) /\ i.db.link = d0.link
          /\ \A x \in Ids : IsThere(d0, x) => SameRow(d0, i.db, x)
          /\ i.new \in ObjectT /\ i.new.id \in Ids /\ i.new.id <= i.db.last
          /\ i.new.file # Embedded /\ i.new.origin = t.origin /\ i.new.status = t.status
          /\ IsAvailable(i.db, i.new.id)
          /\ i.new.id <= d0.last => Offered(d0, i.new.id)
          /\ \A v \in Videos : d0.link[v].id # i.new.id
      <4>. HIDE DEF i
      <4>. QED  BY <3>1, <1>2, InsertingOnce
    <3>3. Inserts(d0, i.db, t, i.new)
      <4>1. t \in ObjectT /\ t.file \notin Ids /\ t.status # "Missing" /\ i = insert(d0, t)
        BY <2>1 DEF Fit
      <4>. HIDE DEF i
      <4>. QED  BY <1>1, <4>1, Inserting
    <3>4. Wrote(d0, i.db, i.new.file) /\ i.new.file = i.new.id
      <4>1. t \in ObjectT /\ i.db.last = d0.last + 1 /\ i.db.last \in Ids
        <5>1. d0.last \in 0 .. MaxRows /\ d0.last + 1 \in Ids
          BY <1>1, Constants DEF Good, DbT, Ids
        <5>. HIDE DEF i
        <5>. QED  BY <3>3, <5>1 DEF Fit, Inserts
      <4>2. /\ i.new.file = i.db.last /\ i.new.id = i.db.last /\ i.db.last \in i.db.disk
            /\ i.db.row[i.db.last].file = i.db.last
        <5>. HIDE DEF i
        <5>. QED  BY <2>1, <3>3, <4>1 DEF Inserts, ObjectT
      <4>3. i.db.last > d0.last
        BY <4>1, <1>1
      <4>. HIDE DEF i
      <4>. QED  BY <3>2, <4>2, <4>3 DEF Wrote
    <3>. HIDE DEF i
    <3>5. Fit(d0, i.db, i.new)
      BY <3>2 DEF Fit, Ids
    <3>6. i.new.file \in File /\ i.new.file <= i.db.last
      BY <3>2, <3>4 DEF File
    <3>7. d0.last <= i.db.last
      BY <3>2 DEF Transacts, Keeps
    <3>. QED  BY <1>1, <3>2, <3>4, <3>5, <3>6, <3>7
  <2>2. CASE t.file # Embedded
    <3>1. i.db = d0 /\ i.new = t
      BY <2>2
    <3>2. t.file \in File /\ t.file \notin Ids /\ t.file <= d0.last
      <4>1. t.file \in File /\ t.file \notin Ids
        BY <2>2 DEF Fit, ObjectT
      <4>2. t.file <= 0 /\ t.file \in Int /\ 0 <= d0.last
        BY <4>1 DEF File, Blank, UserFile, CoverFile, Good, DbT
      <4>. QED  BY <1>1, <4>1, <4>2
    <3>. QED  BY <1>1, <1>2, <3>1, <3>2 DEF SameRow
  <2>. QED  BY <2>1, <2>2
<1>4. r.db = updateMrl(i.db, old, i.new.file) /\ r.new = i.new
  <2>1. i = [db |-> i.db, new |-> i.new]
    BY DEF insert
  <2>2. r = [i EXCEPT !.db = updateMrl(i.db, old, i.new.file)]
    BY DEF update, old
  <2>. HIDE DEF i
  <2>. QED  BY <2>1, <2>2
<1>. HIDE DEF i
<1>5. \/ r.db = i.db
      \/ Good(r.db) /\ IsThere(i.db, old.id)
         /\ SetsRow(i.db, r.db, old.id, i.new.file, "Available")
  BY <1>1, <1>3, <1>4, UpdatingMrl DEF Transacts
<1>6. CASE r.db = i.db
  BY <1>3, <1>4, <1>6
<1>7. CASE Good(r.db) /\ IsThere(i.db, old.id)
           /\ SetsRow(i.db, r.db, old.id, i.new.file, "Available")
  <2>1. Keeps(d0, r.db)
    BY <1>1, <1>3, <1>7, SettingKeeps DEF Transacts
  <2>2. Apart(r.db)
    BY <1>1, <1>3, <1>7, SettingApart DEF Transacts
  <2>3. Fit(d0, r.db, r.new)
    <3>1. /\ r.db.last = i.db.last /\ r.db.link = i.db.link
          /\ \A x \in Ids : IsAvailable(i.db, x) => IsAvailable(r.db, x)
      BY <1>7 DEF SetsRow, SameTables, SameRow, IsAvailable
    <3>2. i.new.id # 0 => i.new.id \in Ids
      BY <1>3 DEF Fit, ObjectT, Ids
    <3>. QED  BY <1>3, <1>4, <3>1, <3>2 DEF Fit
  <2>. QED  BY <1>3, <1>4, <1>7, <2>1, <2>2, <2>3 DEF Transacts, SetsRow
<1>. QED  BY <1>5, <1>6, <1>7

\* setThumbnail(), first thing in a transaction.
LEMMA SettingThumbnail ==
    ASSUME NEW d0, Good(d0), Apart(d0), NEW e \in Entities,
           NEW t, Fit(d0, d0, t), t.status = "Available", e \in Videos => t.id = 0,
           NEW r, r = setThumbnail(d0, e, t)
    PROVE  /\ Transacts(d0, r.db) /\ LinksOnly(d0, r.db, e)
           /\ r.new.status = "Available"
           /\ e \notin Videos => Fit(d0, r.db, r.new)
           /\ t.id # 0 => r.new = t /\ r.db.last = d0.last
<1>. DEFINE old == Fetch(d0, e)
            x == d0.link[e].id
            should == shouldUpdateThumbnail(e, old)
<1>1. Transacts(d0, d0)
  BY KeepsItself DEF Transacts
<1>2. CASE x = 0
  BY <1>1, <1>2, Attaching
<1>3. CASE x # 0
  <2>1. /\ old.id = x /\ x \in Ids /\ x # 0 /\ IsThere(d0, x) /\ x <= d0.last
        /\ old.status = d0.row[x].status /\ old.origin = d0.link[e].origin
        /\ old.status # "Missing"
    BY <1>3, FetchIs, Linked
  <2>. HIDE DEF old, x
  <2>2. r = updateOrReplace(d0, e, old, t, should)
    BY DEF setThumbnail, Replace, old
  <2>. HIDE DEF should
  <2>3. CASE t.id = x
    <3>1. r.db = d0 /\ r.new = t
      BY <2>1, <2>2, <2>3 DEF updateOrReplace
    <3>. QED  BY <3>1, <1>1 DEF LinksOnly
  <2>. DEFINE u == update(d0, old, t)
  <2>4. ASSUME t.id = 0
        PROVE  /\ Transacts(d0, u.db) /\ u.db.link = d0.link /\ Fit(d0, u.db, u.new)
               /\ u.new.status = "Available" /\ u.new.origin = t.origin
               /\ u = [db |-> u.db, new |-> u.new]
    <3>1. u = [db |-> u.db, new |-> u.new]
      BY DEF update, insert
    <3>. HIDE DEF u
    <3>. QED  BY <1>3, <2>1, <2>4, <3>1, Updating DEF u, old, x
  <2>5. CASE t.id # x /\ old.status # "Available"
    <3>1. e \in Videos /\ t.id = 0
      BY <1>3, <2>1, <2>5 DEF Apart, IsAvailable, x
    <3>2. r = u
      BY <2>1, <2>2, <2>5, <3>1 DEF updateOrReplace
    <3>. HIDE DEF u
    <3>. QED  BY <2>4, <3>1, <3>2 DEF LinksOnly
  <2>6. CASE t.id # x /\ old.status = "Available" /\ should /\ t.id = 0
    <3>1. r = [u EXCEPT !.db = IF old.origin = t.origin THEN u.db
                               ELSE updateLinkRecord(u.db, e, old.id, t.origin)]
      BY <2>1, <2>2, <2>6 DEF updateOrReplace
    <3>. HIDE DEF u
    <3>2. /\ r.new = u.new
          /\ r.db = IF old.origin = t.origin THEN u.db
                    ELSE updateLinkRecord(u.db, e, x, t.origin)
      BY <2>1, <2>4, <2>6, <3>1
    <3>3. u.db.link[e].id = x /\ t.origin \in Origin
      BY <2>4, <2>6 DEF x, Fit, ObjectT
    <3>4. updateLinkRecord(u.db, e, x, t.origin) = LinkTo(u.db, e, u.db.link[e].id, t.origin)
      BY <2>1, <3>3 DEF updateLinkRecord, LinkTo
    <3>5. CASE old.origin = t.origin
      BY <2>4, <2>6, <3>2, <3>5 DEF LinksOnly
    <3>6. CASE old.origin # t.origin
      <4>1. r.db = LinkTo(u.db, e, u.db.link[e].id, t.origin)
        BY <3>2, <3>4, <3>6
      <4>2. /\ Transacts(d0, r.db) /\ LinksOnly(u.db, r.db, e)
            /\ r.db.link[e].id = x
            /\ r.db.row = u.db.row /\ r.db.last = u.db.last
        BY <2>1, <2>4, <2>6, <3>3, <4>1, ChangingOrigin
      <4>3. Fit(d0, r.db, r.new)
        <5>1. \A v \in Videos : r.db.link[v].id = u.db.link[v].id
          BY <3>3, <4>2, Constants DEF LinksOnly
        <5>. QED  BY <2>4, <2>6, <3>2, <4>2, <5>1 DEF Fit, IsAvailable
      <4>. QED  BY <2>4, <2>6, <3>2, <4>2, <4>3 DEF LinksOnly
    <3>. QED  BY <3>5, <3>6
  <2>7. CASE t.id # x /\ old.status = "Available" /\ ~(should /\ t.id = 0)
    <3>. DEFINE i == InsertedOnce(d0, t)
    <3>1. r = [i EXCEPT !.db = updateLinkRecord(i.db, e, i.new.id, i.new.origin)]
      BY <2>1, <2>2, <2>7 DEF updateOrReplace
    <3>2. i = [db |-> i.db, new |-> i.new]
      BY DEF InsertedOnce, insert
    <3>3. /\ Transacts(d0, i.db) /\ i.db.link = d0.link
          /\ \A z \in Ids : IsThere(d0, z) => SameRow(d0, i.db, z)
          /\ i.new \in ObjectT /\ i.new.id \in Ids /\ i.new.id <= i.db.last
          /\ i.new.file # Embedded /\ i.new.origin = t.origin /\ i.new.status = "Available"
          /\ IsThere(i.db, i.new.id) /\ IsAvailable(i.db, i.new.id)
          /\ i.new.id <= d0.last => Offered(d0, i.new.id)
          /\ \A v \in Videos : d0.link[v].id # i.new.id
          /\ t.id = 0 => ~IsShown(d0, i.new.id)
          /\ t.id # 0 => i.new = t /\ i.db = d0
      <4>. HIDE DEF i
      <4>. QED  BY <1>1, InsertingOnce DEF i
    <3>. HIDE DEF i
    <3>4. PICK y \in Ids, origin \in Origin : y = i.new.id /\ origin = i.new.origin
      BY <3>3 DEF ObjectT
    <3>5. y # x
      <4>1. CASE t.id = 0
        BY <4>1, <3>3, <3>4, <1>3, Linked DEF x
      <4>2. CASE t.id # 0
        BY <4>2, <2>7, <3>3, <3>4
      <4>. QED  BY <4>1, <4>2
    <3>6. r.db = updateLinkRecord(i.db, e, y, origin) /\ r.new = i.new
      BY <3>1, <3>2, <3>4
    <3>7. /\ Transacts(d0, r.db) /\ LinksOnly(i.db, r.db, e) /\ r.db.link[e].id = y
          /\ SameTables(i.db, r.db) /\ SameRow(i.db, r.db, y)
      <4>1. i.db.link[e].id # 0 /\ d0.link[e] = i.db.link[e]
            /\ SameRow(d0, i.db, i.db.link[e].id) /\ y # i.db.link[e].id
        BY <1>3, <2>1, <3>3, <3>5 DEF x
      <4>2. IF e \in Videos THEN ~IsShown(i.db, y)
            ELSE IsAvailable(i.db, y) /\ \A v \in Videos : i.db.link[v].id # y
        BY <3>3, <3>4 DEF IsShown, Showing
      <4>. QED  BY <3>3, <3>4, <3>6, <4>1, <4>2, Relinking
    <3>8. ASSUME e \notin Videos PROVE Fit(d0, r.db, r.new)
      <4>1. \A v \in Videos : r.db.link[v].id # y
        BY <3>3, <3>4, <3>7, <3>8, Constants DEF LinksOnly
      <4>2. IsAvailable(r.db, y)
        BY <3>3, <3>4, <3>7 DEF SameRow, IsAvailable
      <4>. QED  BY <3>3, <3>4, <3>6, <3>7, <4>1, <4>2 DEF Fit, Ids, SameTables
    <3>. QED  BY <3>3, <3>6, <3>7, <3>8 DEF LinksOnly, SameTables
  <2>. QED  BY <2>3, <2>5, <2>6, <2>7
<1>. QED  BY <1>2, <1>3

\* A file is written in the directory.
LEMMA WritingFile ==
    ASSUME NEW d0, NEW d, Transacts(d0, d), NEW f \in Ids, f <= d.last,
           NEW r, r = [d EXCEPT !.disk = @ \cup {f}]
    PROVE  /\ Transacts(d0, r) /\ r.row = d.row /\ r.link = d.link /\ r.last = d.last
           /\ r.cleanups = d.cleanups /\ r.disk = d.disk \cup {f}
<1>1. /\ r \in DbT /\ r.row = d.row /\ r.link = d.link /\ r.last = d.last
      /\ r.cleanups = d.cleanups /\ r.disk = d.disk \cup {f}
  BY DEF Transacts, Good, DbT
<1>2. \A y : /\ Showing(r, y) = Showing(d, y) /\ (IsShown(r, y) <=> IsShown(d, y))
             /\ (IsThere(r, y) <=> IsThere(d, y)) /\ (IsAvailable(r, y) <=> IsAvailable(d, y))
  BY <1>1 DEF Showing, IsShown, IsThere, IsAvailable
<1>3. Good(r)
  <2>1. \A y \in Ids : Fits(r, y)
    BY <1>1, <1>2 DEF Transacts, Good, Fits
  <2>. QED  BY <1>1, <1>2, <2>1 DEF Transacts, Good, Unused, Known
<1>4. Apart(r)
  BY <1>1, <1>2 DEF Transacts, Apart
<1>5. \A y : Wrote(d0, d, y) => Wrote(d0, r, y)
  BY <1>1, <1>2 DEF Wrote
<1>6. Keeps(d0, r)
  BY <1>1, <1>2, <1>5 DEF Transacts, Keeps
<1>. QED  BY <1>1, <1>3, <1>4, <1>6 DEF Transacts

LEMMA Relocating ==
    ASSUME NEW d0, Good(d0), NEW d, Transacts(d0, d), NEW t, t.id \in 0 .. d.last,
           NEW copied, NEW r, r = relocate(d, t, copied)
    PROVE  Transacts(d0, r)
<1>1. CASE t.id = 0 \/ IsOwned(t.file) \/ ~copied
  BY <1>1 DEF relocate
<1>2. CASE ~(t.id = 0 \/ IsOwned(t.file) \/ ~copied)
  <2>. DEFINE w == [d EXCEPT !.disk = @ \cup {t.id}]
  <2>1. d.last \in 0 .. MaxRows /\ d0.last \in Int
    BY DEF Transacts, Good, DbT
  <2>2. PICK x \in Ids : x = t.id /\ x <= d.last
    BY <1>2, <2>1, Constants DEF Ids
  <2>3. r = updateMrl(w, t, x)
    BY <1>2, <2>2 DEF relocate
  <2>4. Transacts(d0, w) /\ w.last = d.last /\ x \in w.disk
    <3>. HIDE DEF w
    <3>. QED  BY <2>2, WritingFile DEF w
  <2>. HIDE DEF w
  <2>5. r = w \/ (Good(r) /\ IsThere(w, x) /\ SetsRow(w, r, x, x, "Available"))
    BY <2>2, <2>3, <2>4, UpdatingMrl DEF Transacts, File
  <2>6. CASE Good(r) /\ IsThere(w, x) /\ SetsRow(w, r, x, x, "Available")
    <3>1. Keeps(d0, r)
      BY <2>1, <2>4, <2>6, SettingKeeps DEF Transacts
    <3>2. Apart(r)
      BY <2>4, <2>6, SettingApart DEF Transacts
    <3>. QED  BY <2>6, <3>1, <3>2 DEF Transacts
  <2>. QED  BY <2>4, <2>5, <2>6
<1>. QED  BY <1>1, <1>2

\* The thumbnail of an entity that is no video can be another's.
LEMMA FitShown ==
    ASSUME NEW d, Good(d), Apart(d), NEW e \in Entities \ Videos, d.link[e].id # 0
    PROVE  /\ Fit(d, d, Fetch(d, e)) /\ Fetch(d, e).status = "Available"
           /\ Fetch(d, e).id = d.link[e].id
<1>1. /\ Fetch(d, e) \in ObjectT /\ Fetch(d, e).id = d.link[e].id
      /\ Fetch(d, e).status = d.row[d.link[e].id].status
      /\ Fetch(d, e).file # Embedded /\ d.link[e].id <= d.last
  BY FetchIs, Linked
<1>2. IsAvailable(d, d.link[e].id)
  BY DEF Apart
<1>3. \A v \in Videos : d.link[v].id # d.link[e].id
  BY DEF Apart
<1>. QED  BY <1>1, <1>2, <1>3 DEF Fit, IsAvailable, Offered

\* Row x, shown at first by an entity that is no video, is deleted or can still be shown.
LEMMA StillFit ==
    ASSUME NEW d0, Good(d0), Apart(d0), NEW e \in Entities \ Videos, NEW d, Transacts(d0, d),
           LinksOnly(d0, d, e), NEW t, Fit(d0, d0, t), t.id # 0
    PROVE  ~IsThere(d, t.id) \/ Fit(d0, d, t)
<1>1. PICK x \in Ids : x = t.id
  BY DEF Fit, ObjectT, Ids
<1>2. PICK n \in Entities \ Videos : d0.link[n].id = x
  <2>1. t.id <= d0.last /\ (t.id <= d0.last => Offered(d0, t.id))
    BY DEF Fit
  <2>. QED  BY <1>1, <2>1 DEF Offered
<1>3. \A v \in Videos : d.link[v].id # x
  BY <1>1, Constants DEF Fit, LinksOnly
<1>4. CASE IsShown(d, x)
  <2>1. PICK z \in Entities : d.link[z].id = x
    BY <1>4 DEF IsShown, Showing
  <2>2. IsAvailable(d, x)
    BY <1>1, <1>3, <2>1 DEF Transacts, Apart, Ids
  <2>3. t.id <= d.last
    BY <1>1, <2>1, Linked DEF Transacts, Ids
  <2>. QED  BY <1>1, <1>2, <1>3, <2>2, <2>3 DEF Fit, Offered
<1>5. CASE ~IsShown(d, x)
  <2>1. IsShown(d0, x)
    BY <1>2 DEF IsShown, Showing
  <2>. QED  BY <1>1, <1>5, <2>1 DEF Transacts, Keeps
<1>. QED  BY <1>4, <1>5

-----------------------------------------------------------------------------
(* The metadata analyzer.                                                  *)

\* What assigning t, which m may show already, has made of the database so far, with what t
\* has become: it can be shown, or it was what m showed and its row is deleted.
Assigned(d0, t, a) ==
    /\ Transacts(d0, a.db) /\ a.new.status = "Available"
    /\ \/ Fit(d0, a.db, a.new)
       \/ a.new = t /\ t.id # 0 /\ ~IsThere(a.db, t.id)

LEMMA FetchedFit ==
    ASSUME NEW d, Good(d), Apart(d), d.last < MaxRows, NEW m \in Tracks,
           NEW art \in Artworks \cup {NoArtwork}, NEW cover,
           NEW t, t = fetchThumbnail(d, m, art, cover), t.status # "Missing"
    PROVE  /\ Fit(d, d, t) /\ t.status = "Available"
           /\ d.link[m].id = 0 \/ d.link[m].id = t.id
<1>1. m \in Entities \ Videos /\ Album \in Entities \ Videos
  BY Constants
<1>2. Null.status = "Missing"
  BY DEF Null, Object
<1>3. \A e \in Entities \ Videos : Fetch(d, e).status # "Missing" =>
         /\ Fit(d, d, Fetch(d, e)) /\ Fetch(d, e).status = "Available"
         /\ Fetch(d, e).id = d.link[e].id
  BY <1>2, FetchNull, FitShown
<1>4. Fetch(d, m).status # "Available" => d.link[m].id = 0
  BY <1>1, FitShown
<1>5. /\ Fit(d, d, EmbeddedIn(art)) /\ EmbeddedIn(art).status = "Available"
      /\ Fit(d, d, AlbumArtwork) /\ AlbumArtwork.status = "Available"
  BY Constants
     DEF Fit, EmbeddedIn, AlbumArtwork, Object, ObjectT, Status, File, Origin, Hash, CoverFile,
         Embedded, Ids
<1>6. CASE Fetch(d, m).status = "Available"
  BY <1>1, <1>3, <1>6 DEF fetchThumbnail
<1>7. CASE Fetch(d, m).status # "Available"
  <2>1. t = EmbeddedIn(art) \/ t = Fetch(d, Album) \/ t = AlbumArtwork \/ t = Null
    BY <1>7 DEF fetchThumbnail
  <2>. QED  BY <1>1, <1>2, <1>3, <1>4, <1>5, <1>7, <2>1
<1>. QED  BY <1>6, <1>7

LEMMA BothAssigned ==
    ASSUME NEW d, Good(d), Apart(d), NEW m \in Tracks, NEW t, Fit(d, d, t),
           t.status = "Available", d.link[m].id = 0 \/ d.link[m].id = t.id
    PROVE  Assigned(d, t, SetBoth(d, m, t))
<1>. DEFINE a == setThumbnail(d, Album, t)
            b == setThumbnail(a.db, m, a.new)
<1>0. Album \in Entities \ Videos /\ m \in Entities \ Videos /\ m # Album
  BY Constants
<1>1. /\ Transacts(d, a.db) /\ LinksOnly(d, a.db, Album) /\ a.new.status = "Available"
      /\ Fit(d, a.db, a.new) /\ (t.id # 0 => a.new = t)
  <2>. HIDE DEF a
  <2>. QED  BY <1>0, SettingThumbnail DEF a
<1>2. SetBoth(d, m, t) = b
  BY DEF SetBoth
<1>3. a.db.link[m] = d.link[m]
  BY <1>0, <1>1 DEF LinksOnly
<1>. HIDE DEF a, b
<1>4. CASE d.link[m].id = 0
  BY <1>0, <1>1, <1>2, <1>3, <1>4, Attaching DEF Assigned, b
<1>5. CASE d.link[m].id # 0
  <2>1. a.new = t /\ Fetch(a.db, m).id = t.id /\ t.id # 0
    BY <1>0, <1>1, <1>3, <1>5, FetchIs DEF Transacts
  <2>2. b.db = a.db /\ b.new = a.new
    BY <2>1 DEF b, setThumbnail, Replace, updateOrReplace
  <2>. QED  BY <1>1, <1>2, <2>2 DEF Assigned
<1>. QED  BY <1>4, <1>5

LEMMA TracksAssigned ==
    ASSUME NEW d, Good(d), Apart(d), d.link[Album].id = 0, parsed \subseteq Tracks,
           NEW m \in Tracks, NEW t, Fit(d, d, t), t.status = "Available"
    PROVE  Assigned(d, t, SetTracks(d, m, t))
<1>. DEFINE a == setThumbnail(d, Album, t)
            bare == {x \in parsed \cup {m} : a.db.link[x].id = 0}
            r == Count(LinkAll(a.db, bare, a.new.id, a.new.origin), a.new.id, Cardinality(bare))
<1>0. Album \in Entities \ Videos /\ bare \in SUBSET Entities /\ bare \cap Videos = {}
  BY Constants
<1>1. /\ Transacts(d, a.db) /\ a.db.link[Album].id = a.new.id /\ a.new.id # 0
      /\ a.new.status = "Available" /\ Fit(d, a.db, a.new)
  <2>1. Transacts(d, d)
    BY KeepsItself DEF Transacts
  <2>. HIDE DEF a, bare
  <2>. QED  BY <1>0, <2>1, Attaching DEF a
<1>2. SetTracks(d, m, t) = [a EXCEPT !.db = r]
  BY DEF SetTracks, LinkAll
<1>3. a = [db |-> a.db, new |-> a.new]
  <2>1. Fetch(d, Album).id = 0
    BY FetchNull DEF Null, Object
  <2>. QED  BY <2>1 DEF setThumbnail, Replace, updateOrReplace, InsertedOnce, insert
<1>4. SetTracks(d, m, t).db = r /\ SetTracks(d, m, t).new = a.new
  <2>. HIDE DEF a, r
  <2>. QED  BY <1>2, <1>3
<1>5. \A x \in bare : a.db.link[x].id = 0
  OBVIOUS
<1>. HIDE DEF a, bare
<1>6. PICK y \in Ids, origin \in Origin : y = a.new.id /\ origin = a.new.origin
  BY <1>1 DEF Fit, ObjectT, Ids
<1>7. /\ IsShown(a.db, y) /\ IsThere(a.db, y) /\ IsAvailable(a.db, y)
      /\ \A v \in Videos : a.db.link[v].id # y
      /\ y <= d.last => Offered(d, y)
  BY <1>0, <1>1, <1>6 DEF Fit, IsShown, Showing, IsAvailable, IsThere
<1>8. Transacts(d, r) /\ GainsLinks(a.db, r, bare, y)
  <2>1. r = Count(LinkAll(a.db, bare, y, origin), y, Cardinality(bare))
    BY <1>6
  <2>. HIDE DEF r
  <2>. QED  BY <1>0, <1>1, <1>5, <1>6, <1>7, <2>1, Gaining
<1>9. Fit(d, r, a.new)
  <2>1. \A v \in Videos : r.link[v] = a.db.link[v]
    <3>1. \A v \in Videos : v \in Entities /\ v \notin bare
      BY <1>0, Constants
    <3>. HIDE DEF r
    <3>. QED  BY <1>8, <3>1 DEF GainsLinks
  <2>2. IsAvailable(r, y) /\ r.last = a.db.last
    <3>. HIDE DEF r
    <3>. QED  BY <1>7, <1>8 DEF GainsLinks, SameRow, IsAvailable, SameTables
  <2>. HIDE DEF r
  <2>. QED  BY <1>1, <1>6, <2>1, <2>2 DEF Fit
<1>. HIDE DEF r
<1>. QED  BY <1>1, <1>4, <1>8, <1>9 DEF Assigned

LEMMA MovedAssigned ==
    ASSUME NEW d, Good(d), Apart(d), d.link[Album].id # 0, NEW m \in Tracks,
           NEW t, Fit(d, d, t), t.status = "Available"
    PROVE  Assigned(d, t, [setThumbnail(d, m, Fetch(d, Album)) EXCEPT !.new = t])
<1>. DEFINE a == setThumbnail(d, m, Fetch(d, Album))
            b == [a EXCEPT !.new = t]
<1>0. Album \in Entities \ Videos /\ m \in Entities \ Videos
  BY Constants
<1>1. Fit(d, d, Fetch(d, Album)) /\ Fetch(d, Album).status = "Available" /\ Fetch(d, Album).id # 0
  BY <1>0, FitShown
<1>2. /\ Transacts(d, a.db) /\ LinksOnly(d, a.db, m) /\ a.db.last = d.last
  <2>. HIDE DEF a
  <2>. QED  BY <1>0, <1>1, SettingThumbnail DEF a
<1>3. b.db = a.db /\ b.new = t
  <2>1. a = [db |-> a.db, new |-> a.new]
    <3>. DEFINE shape(r) == r = [db |-> r.db, new |-> r.new]
    <3>1. \A c, o, n : shape(update(c, o, n))
      BY DEF update, insert
    <3>2. \A c, n : shape(InsertedOnce(c, n))
      BY DEF InsertedOnce, insert
    <3>3. \A r, v : shape(r) => shape([r EXCEPT !.db = v])
      OBVIOUS
    <3>4. \A c : shape([db |-> c, new |-> Fetch(d, Album)])
      OBVIOUS
    <3>. HIDE DEF shape
    <3>5. shape(a)
      BY <3>1, <3>2, <3>3, <3>4 DEF setThumbnail, Replace, updateOrReplace
    <3>. QED  BY <3>5 DEF shape
  <2>. HIDE DEF a
  <2>. QED  BY <2>1
<1>. SUFFICES Assigned(d, t, b)
  OBVIOUS
<1>. HIDE DEF a, b
<1>4. CASE t.id = 0
  BY <1>2, <1>3, <1>4 DEF Assigned, Fit
<1>5. CASE t.id # 0
  <2>1. ~IsThere(a.db, t.id) \/ Fit(d, a.db, t)
    BY <1>0, <1>2, <1>5, StillFit
  <2>. QED  BY <1>2, <1>3, <1>5, <2>1 DEF Assigned
<1>. QED  BY <1>4, <1>5

\* A track is analyzed; were the artist to be given a row that is deleted, its foreign key
\* would roll everything back.
LEMMA Analyzing ==
    ASSUME NEW d, Good(d), Apart(d), parsed \subseteq Tracks, NEW m \in Tracks,
           NEW t, Fit(d, d, t), t.status = "Available",
           d.link[m].id = 0 \/ d.link[m].id = t.id,
           NEW copied, NEW a, a = assignThumbnails(d, m, t),
           NEW r, r = relocate(a.db, a.new, copied), Valid(r)
    PROVE  Transacts(d, r)
<1>. DEFINE b == AssignToMedia(d, m, t)
<1>0. Artist \in Entities \ Videos /\ Album \in Entities \ Videos /\ m \in Entities \ Videos
  BY Constants
<1>1. Assigned(d, t, b)
  <2>. DEFINE current == Fetch(d, Album)
              moved == [setThumbnail(d, m, current) EXCEPT !.new = t]
  <2>1. current.id = d.link[Album].id
    BY <1>0, FetchIs, FetchNull DEF Null, Object
  <2>. HIDE DEF current
  <2>2. \/ b = SetBoth(d, m, t)
        \/ b = SetTracks(d, m, t) /\ current.id = 0
        \/ b = moved /\ current.id # 0
        \/ b = setThumbnail(d, m, t)
    <3>. HIDE DEF moved
    <3>. QED  BY DEF AssignToMedia, current, moved
  <2>. HIDE DEF b
  <2>3. CASE b = SetBoth(d, m, t)
    BY <2>3, BothAssigned
  <2>4. CASE b = SetTracks(d, m, t) /\ current.id = 0
    BY <2>1, <2>4, TracksAssigned
  <2>5. CASE b = moved /\ current.id # 0
    BY <2>1, <2>5, MovedAssigned DEF current
  <2>6. CASE b = setThumbnail(d, m, t)
    BY <1>0, <2>6, SettingThumbnail DEF Assigned
  <2>. QED  BY <2>2, <2>3, <2>4, <2>5, <2>6
<1>2. Transacts(d, b.db)
  BY <1>1 DEF Assigned
<1>3. a = IF b.db.link[Artist].id = 0 THEN setThumbnail(b.db, Artist, b.new) ELSE b
  <2>1. Fetch(b.db, Artist).id = 0 <=> b.db.link[Artist].id = 0
    BY <1>0, <1>2, FetchIs, FetchNull DEF Null, Object, Transacts
  <2>. HIDE DEF b
  <2>. QED  BY <2>1 DEF assignThumbnails, b
<1>. HIDE DEF b
<1>4. CASE b.db.link[Artist].id # 0
  <2>1. a = b
    BY <1>3, <1>4
  <2>2. b.new.id \in 0 .. b.db.last
    <3>1. b.new.id \in Nat /\ b.db.last \in Nat /\ d.last \in Nat /\ d.last <= b.db.last
      BY <1>1 DEF Assigned, Fit, ObjectT, Transacts, Good, DbT, Keeps
    <3>. QED  BY <1>1, <3>1 DEF Assigned, Fit
  <2>. QED  BY <1>2, <2>1, <2>2, Relocating
<1>5. CASE b.db.link[Artist].id = 0 /\ Fit(d, b.db, b.new)
  <2>1. a = setThumbnail(b.db, Artist, b.new)
    BY <1>3, <1>5
  <2>2. Transacts(d, a.db) /\ Fit(d, a.db, a.new) /\ a.new.id # 0
    BY <1>0, <1>1, <1>2, <1>5, <2>1, Attaching DEF Assigned
  <2>3. a.new.id \in 0 .. a.db.last
    BY <2>2 DEF Fit, ObjectT, Transacts, Good, DbT
  <2>. QED  BY <2>2, <2>3, Relocating
<1>6. CASE b.db.link[Artist].id = 0 /\ b.new = t /\ t.id # 0 /\ ~IsThere(b.db, t.id)
  <2>1. b.db \in DbT /\ t.id \in Ids /\ t.origin \in Origin
    BY <1>2, <1>6 DEF Transacts, Good, Fit, ObjectT, Ids
  <2>2. a = setThumbnail(b.db, Artist, t)
    BY <1>3, <1>6
  <2>3. /\ a.new = t
        /\ a.db = Count(LinkTo(b.db, Artist, t.id, t.origin), t.id, 1)
    <3>1. Fetch(b.db, Artist).id = 0
      BY <1>6, FetchNull DEF Null, Object
    <3>. QED  BY <1>6, <2>2, <3>1
         DEF setThumbnail, Replace, updateOrReplace, InsertedOnce, insertLinkRecord, LinkTo
  <2>4. a.db.link[Artist].id = t.id /\ ~IsThere(a.db, t.id)
    <3>. DEFINE l == LinkTo(b.db, Artist, t.id, t.origin)
    <3>1. l.row = b.db.row /\ l.link[Artist] = [id |-> t.id, origin |-> t.origin]
      <4>1. t.id \in 0 .. MaxRows
        BY <2>1 DEF Ids
      <4>. HIDE DEF l
      <4>. QED  BY <1>0, <2>1, <4>1, LinkToIs DEF l
    <3>. HIDE DEF l
    <3>2. ~IsThere(l, t.id)
      BY <1>6, <3>1 DEF IsThere
    <3>. QED  BY <2>3, <3>1, <3>2, CountMissing DEF l
  <2>5. r.link[Artist].id = t.id /\ ~IsThere(r, t.id)
    <3>1. CASE r = a.db
      BY <2>4, <3>1
    <3>2. CASE r # a.db
      <4>. DEFINE w == [a.db EXCEPT !.disk = @ \cup {t.id}]
      <4>1. r = updateMrl(w, t, t.id)
        BY <2>3, <3>2 DEF relocate
      <4>2. w.row = a.db.row /\ w.link = a.db.link
        OBVIOUS
      <4>. HIDE DEF w
      <4>3. r = w
        BY <2>4, <4>1, <4>2 DEF updateMrl, IsThere
      <4>. QED  BY <2>4, <4>2, <4>3 DEF IsThere
    <3>. QED  BY <3>1, <3>2
  <2>. QED  BY <1>0, <1>6, <2>5 DEF Valid, Shown, IsThere
<1>. QED  BY <1>1, <1>4, <1>5, <1>6 DEF Assigned

-----------------------------------------------------------------------------
(* The links of a set of entities go.                                      *)

\* Induction on finite sets: a set of subsets has a smallest one.
LEMMA MinimalSubset ==
    ASSUME NEW S, IsFiniteSet(S), NEW T \in SUBSET (SUBSET S), T # {}
    PROVE  \E x \in T : \A y \in T : y \subseteq x => y = x
<1>. DEFINE R == StrictSubsetOrdering(S)
<1>1. IsWellFoundedOn(R, SUBSET S)
  BY FS_StrictSubsetOrderingWellFounded, FS_FiniteSubsetsOfFinite
<1>2. \E x \in T : \A y \in T : ~ (<<y, x>> \in R)
  <2>. HIDE DEF R
  <2>. QED  BY <1>1, WFMin
<1>. QED  BY <1>2 DEF StrictSubsetOrdering

\* The element Unlinked starts with, and the others.
Pick(es) == CHOOSE e \in es : TRUE
Rest(es) == es \ {Pick(es)}

\* What iterates over the subsets of es.
Iterates(d, es, iter) ==
    iter = [s \in SUBSET es |->
               IF s = {} THEN d ELSE unlinkThumbnail(iter[Rest(s)], Pick(s))]

LEMMA UnlinkedDef ==
    \A d, es : Unlinked(d, es) = (CHOOSE iter : Iterates(d, es, iter))[es]
BY DEF Unlinked, FoldSet, MapThenFoldSet, Iterates, Rest, Pick

Unfolds(d, es) ==
    Unlinked(d, es) = IF es = {} THEN d ELSE unlinkThumbnail(Unlinked(d, Rest(es)), Pick(es))

\* The recursion of the fold is well defined.
LEMMA UnlinkedUnfolds ==
    ASSUME NEW d, NEW es, IsFiniteSet(es)
    PROVE  \A s \in SUBSET es : Unfolds(d, s)
<1>. DEFINE Bad == {s \in SUBSET es : ~Unfolds(d, s)}
<1>. SUFFICES ASSUME Bad # {} PROVE FALSE
  OBVIOUS
<1>1. PICK t \in Bad : \A u \in Bad : u \subseteq t => u = t
  <2>1. Bad \in SUBSET (SUBSET es)
    OBVIOUS
  <2>. HIDE DEF Bad
  <2>. QED  BY <2>1, MinimalSubset
<1>2. \A u \in SUBSET t : u # t => Unfolds(d, u)
  BY <1>1
<1>3. \A s : s # {} => Pick(s) \in s
  BY DEF Pick
<1>. DEFINE G == [s \in SUBSET t |->
                     IF s = {} THEN d ELSE unlinkThumbnail(Unlinked(d, Rest(s)), Pick(s))]
<1>4. ASSUME NEW s \in SUBSET t, s # {}
      PROVE  Rest(s) \in SUBSET t /\ Rest(s) # t /\ Rest(s) \subseteq s /\ Rest(s) # s
  BY <1>3, <1>4 DEF Rest
<1>5. Iterates(d, t, G)
  <2>1. ASSUME NEW s \in SUBSET t, s # {}
        PROVE  G[Rest(s)] = Unlinked(d, Rest(s))
    <3>1. Rest(s) \in SUBSET t /\ Unfolds(d, Rest(s))
      BY <1>2, <1>4, <2>1
    <3>. QED  BY <3>1 DEF Unfolds
  <2>2. G = [s \in SUBSET t |->
                IF s = {} THEN d ELSE unlinkThumbnail(G[Rest(s)], Pick(s))]
    BY <2>1
  <2>. QED  BY <2>2 DEF Iterates
<1>. DEFINE H == CHOOSE iter : Iterates(d, t, iter)
<1>6. Iterates(d, t, H)
  <2>. HIDE DEF G
  <2>. QED  BY <1>5
<1>7. Unlinked(d, t) = H[t]
  BY UnlinkedDef
<1>. HIDE DEF H
<1>8. \A s \in SUBSET t :
         H[s] = IF s = {} THEN d ELSE unlinkThumbnail(H[Rest(s)], Pick(s))
  BY <1>6 DEF Iterates
<1>9. \A s \in SUBSET t : s # t => H[s] = Unlinked(d, s)
  <2>. DEFINE Off == {s \in SUBSET t : s # t /\ H[s] # Unlinked(d, s)}
  <2>. SUFFICES ASSUME Off # {} PROVE FALSE
    OBVIOUS
  <2>1. PICK s \in Off : \A u \in Off : u \subseteq s => u = s
    <3>1. Off \in SUBSET (SUBSET t) /\ IsFiniteSet(t)
      BY <1>1, FS_Subset
    <3>. HIDE DEF Off
    <3>. QED  BY <3>1, MinimalSubset
  <2>2. Unfolds(d, s)
    BY <1>2, <2>1
  <2>3. CASE s = {}
    BY <1>8, <2>1, <2>2, <2>3 DEF Unfolds
  <2>4. CASE s # {}
    <3>1. Rest(s) \in SUBSET t /\ Rest(s) # t /\ Rest(s) \subseteq s /\ Rest(s) # s
      BY <1>4, <2>1, <2>4
    <3>2. H[Rest(s)] = Unlinked(d, Rest(s))
      BY <2>1, <3>1
    <3>. QED  BY <1>8, <2>1, <2>2, <2>4, <3>2 DEF Unfolds
  <2>. QED  BY <2>3, <2>4
<1>10. Unfolds(d, t)
  <2>1. CASE t = {}
    BY <1>7, <1>8, <2>1 DEF Unfolds
  <2>2. CASE t # {}
    <3>1. H[Rest(t)] = Unlinked(d, Rest(t))
      BY <1>4, <1>9, <2>2
    <3>. QED  BY <1>7, <1>8, <2>2, <3>1 DEF Unfolds
  <2>. QED  BY <2>1, <2>2
<1>. QED  BY <1>1, <1>10

\* The rows that are left are what they were, and so are the links of the others.
Only(d0, d, es) ==
    /\ Transacts(d0, d)
    /\ \A e \in Entities \ es : d.link[e] = d0.link[e]
    /\ \A x \in Ids : IsThere(d, x) => SameRow(d0, d, x)

LEMMA UnlinkingOne ==
    ASSUME NEW d0, Good(d0), NEW d, NEW es, NEW e \in Entities \ es, Only(d0, d, es)
    PROVE  Only(d0, unlinkThumbnail(d, e), es \cup {e})
<1>. DEFINE r == unlinkThumbnail(d, e)
<1>1. CASE d.link[e].id = 0
  <2>1. r = d
    BY <1>1 DEF unlinkThumbnail
  <2>. QED  BY <2>1 DEF Only
<1>2. CASE d.link[e].id # 0
  <2>1. PICK x \in Ids : x = d.link[e].id /\ IsThere(d, x)
    BY <1>2, Linked DEF Only, Transacts
  <2>2. Transacts(d0, r) /\ LosesLink(d, r, e, x)
    <3>1. d0.link[e] = d.link[e] /\ SameRow(d0, d, x)
      BY <2>1 DEF Only
    <3>. HIDE DEF r
    <3>. QED  BY <1>2, <2>1, <3>1, Losing DEF Only, r
  <2>3. \A z \in Ids : IsThere(r, z) => IsThere(d, z) /\ SameRow(d, r, z)
    <3>. HIDE DEF r
    <3>. QED  BY <2>1, <2>2 DEF LosesLink, SameRow, IsThere
  <2>4. \A z \in Ids : IsThere(r, z) => SameRow(d0, r, z)
    <3>. HIDE DEF r
    <3>. QED  BY <2>3 DEF Only, SameRow
  <2>. HIDE DEF r
  <2>5. Only(d0, r, es \cup {e})
    BY <2>2, <2>4 DEF Only, LosesLink
  <2>. QED  BY <2>5 DEF r
<1>. QED  BY <1>1, <1>2

LEMMA UnlinkingAll ==
    ASSUME NEW d0, Good(d0), Apart(d0), NEW es \in SUBSET Entities
    PROVE  Only(d0, Unlinked(d0, es), es)
<1>. DEFINE Bad == {s \in SUBSET es : ~Only(d0, Unlinked(d0, s), s)}
<1>. SUFFICES ASSUME Bad # {} PROVE FALSE
  OBVIOUS
<1>0. IsFiniteSet(es)
  BY Constants, FS_Subset
<1>1. PICK s \in Bad : \A u \in Bad : u \subseteq s => u = s
  <2>1. Bad \in SUBSET (SUBSET es)
    OBVIOUS
  <2>. HIDE DEF Bad
  <2>. QED  BY <1>0, <2>1, MinimalSubset
<1>2. Unfolds(d0, s)
  BY <1>0, <1>1, UnlinkedUnfolds
<1>3. CASE s = {}
  <2>1. Unlinked(d0, s) = d0
    BY <1>2, <1>3 DEF Unfolds
  <2>2. Only(d0, d0, s)
    BY KeepsItself DEF Only, Transacts, SameRow
  <2>. QED  BY <1>1, <2>1, <2>2
<1>4. CASE s # {}
  <2>1. Pick(s) \in s /\ Rest(s) \in SUBSET s /\ Rest(s) # s /\ s = Rest(s) \cup {Pick(s)}
        /\ Pick(s) \notin Rest(s)
    BY <1>4 DEF Pick, Rest
  <2>2. Only(d0, Unlinked(d0, Rest(s)), Rest(s))
    BY <1>1, <2>1
  <2>3. Unlinked(d0, s) = unlinkThumbnail(Unlinked(d0, Rest(s)), Pick(s))
    BY <1>2, <1>4 DEF Unfolds
  <2>4. Pick(s) \in Entities \ Rest(s)
    BY <1>1, <2>1
  <2>5. Only(d0, Unlinked(d0, s), Rest(s) \cup {Pick(s)})
    BY <2>2, <2>3, <2>4, UnlinkingOne
  <2>. QED  BY <1>1, <2>1, <2>5
<1>. QED  BY <1>3, <1>4

-----------------------------------------------------------------------------
(* The thumbnailer.                                                        *)

\* What the thread has read of the thumbnail of video v: nobody else shows its row, and v
\* still does if the row is still there.
Held(d, v, old) ==
    /\ old \in ObjectT /\ old.id \in Ids /\ old.id <= d.last
    /\ old.file # Embedded /\ old.shared <= 1
    /\ IsThere(d, old.id) => d.link[v].id = old.id

LEMMA HeldFetched ==
    ASSUME NEW d, Good(d), Apart(d), NEW v \in Videos, d.link[v].id # 0
    PROVE  Held(d, v, Fetch(d, v))
<1>0. v \in Entities
  BY Constants
<1>1. PICK x \in Ids : x = d.link[v].id /\ v \in Showing(d, x) /\ x <= d.last
  BY <1>0, Linked
<1>2. Showing(d, x) = {v}
  BY <1>1 DEF Apart, Showing
<1>3. d.row[x].shared = 1
  BY <1>2, FS_Singleton DEF Good, Fits
<1>. QED  BY <1>0, <1>1, <1>3, FetchIs DEF Held

LEMMA MarkingFailed ==
    ASSUME NEW d, Good(d), Apart(d), NEW v \in Videos, NEW old, Held(d, v, old)
    PROVE  Transacts(d, MarkFailed(d, old.id))
<1>. DEFINE r == MarkFailed(d, old.id)
<1>1. PICK x \in Ids : x = old.id /\ x <= d.last
  BY DEF Held
<1>2. Transacts(d, d) /\ d.last \in Int
  BY KeepsItself DEF Transacts, Good, DbT
<1>3. CASE ~IsThere(d, x)
  BY <1>1, <1>2, <1>3 DEF MarkFailed, IsThere
<1>4. CASE IsThere(d, x)
  <2>1. d \in DbT /\ d.row \in [Ids -> RowT] /\ d.row[x] \in RowT
    BY DEF Good, DbT
  <2>2. r = [d EXCEPT !.row[x].file = d.row[x].file, !.row[x].status = "Failure"]
    <3>1. r = [d EXCEPT !.row[x].status = "Failure"]
      BY <1>1, <1>4 DEF MarkFailed, IsThere
    <3>2. [d.row[x] EXCEPT !.status = "Failure"]
            = [d.row[x] EXCEPT !.file = d.row[x].file, !.status = "Failure"]
      BY <2>1 DEF RowT
    <3>. QED  BY <2>1, <3>1, <3>2 DEF DbT
  <2>. HIDE DEF r
  <2>3. Good(r) /\ SetsRow(d, r, x, d.row[x].file, "Failure")
    <3>1. /\ "Failure" \in Status \ {"Missing"} /\ d.row[x].file \in File
          /\ d.row[x].file <= d.last
      BY <2>1 DEF Status, RowT, Good, Known
    <3>. QED  BY <1>4, <2>2, <3>1, SettingRow
  <2>4. \A e \in Entities \ Videos : d.link[e].id # x
    BY <1>1, <1>4 DEF Held, Apart, Ids
  <2>5. Keeps(d, r)
    BY <1>1, <1>2, <1>4, <2>3, SettingKeeps DEF Transacts
  <2>6. Apart(r)
    BY <2>3, <2>4, SettingApart
  <2>. QED  BY <2>3, <2>5, <2>6 DEF Transacts, r
<1>. QED  BY <1>3, <1>4

LEMMA Beginning ==
    ASSUME NEW d, Good(d), Apart(d), d.last < MaxRows, NEW v \in Videos, d.link[v].id = 0,
           NEW r, r = setThumbnail(d, v, CrashRecord).db
    PROVE  Transacts(d, r) /\ r.link[v].id # 0
<1>1. CrashRecord.id = 0 /\ Fit(d, d, CrashRecord)
  BY Constants
     DEF Fit, CrashRecord, Object, ObjectT, Status, File, Origin, Hash, Blank, Ids
<1>2. Transacts(d, d) /\ v \in Entities
  BY KeepsItself, Constants DEF Transacts
<1>. QED  BY <1>1, <1>2, Attaching

\* The picture generated for video v takes the place of what the thread read.
LEMMA Storing ==
    ASSUME Good(db), Apart(db), NEW v \in Videos, NEW old, Held(db, v, old),
           old.id \in db.disk, ~LosesItsRow(v, old),
           NEW r, r = Replace(db, v, old, Generated(old.id)).db
    PROVE  Transacts(db, r)
<1>. DEFINE t == Generated(old.id)
            m == updateMrl(db, old, old.id)
<1>1. PICK x \in Ids : x = old.id /\ x <= db.last /\ x # 0 /\ x # Embedded /\ old.shared <= 1
  BY DEF Held, Ids, Embedded
<1>2. Transacts(db, db) /\ db.last \in Int /\ v \in Entities /\ v # Album
  BY KeepsItself, Constants DEF Transacts, Good, DbT
<1>3. Transacts(db, m) /\ m.link = db.link
  <2>1. m = db \/ (Good(m) /\ IsThere(db, x) /\ SetsRow(db, m, x, x, "Available"))
    <3>. HIDE DEF m
    <3>. QED  BY <1>1, UpdatingMrl DEF m, File
  <2>. HIDE DEF m
  <2>2. CASE Good(m) /\ IsThere(db, x) /\ SetsRow(db, m, x, x, "Available")
    <3>1. Keeps(db, m)
      BY <1>1, <1>2, <2>2, SettingKeeps DEF Transacts
    <3>2. Apart(m)
      BY <2>2, SettingApart
    <3>. QED  BY <2>2, <3>1, <3>2 DEF Transacts, SetsRow
  <2>. QED  BY <1>2, <2>1, <2>2
<1>4. update(db, old, t) = [db |-> m, new |-> t]
  BY <1>1 DEF update, Generated, Object
<1>. HIDE DEF m
<1>5. t.id = 0 /\ t.origin = "Media"
  BY DEF Generated, Object
<1>6. r = updateOrReplace(db, v, old, t, shouldUpdateThumbnail(v, old)).db
  BY DEF Replace
<1>. HIDE DEF t
<1>7. CASE old.status # "Available"
  BY <1>1, <1>3, <1>4, <1>5, <1>6, <1>7 DEF updateOrReplace
<1>8. CASE old.status = "Available"
  <2>1. shouldUpdateThumbnail(v, old)
    BY <1>1, <1>2 DEF shouldUpdateThumbnail
  <2>2. r = IF old.origin = "Media" THEN m ELSE updateLinkRecord(m, v, old.id, "Media")
    BY <1>1, <1>4, <1>5, <1>6, <1>8, <2>1 DEF updateOrReplace
  <2>3. CASE old.origin # "Media"
    <3>1. r = updateLinkRecord(m, v, x, "Media")
      BY <1>1, <2>2, <2>3
    <3>2. CASE db.link[v].id = 0
      <4>1. r = m
        BY <1>3, <3>1, <3>2 DEF updateLinkRecord
      <4>. QED  BY <1>3, <4>1
    <3>3. CASE db.link[v].id = x
      <4>1. r = LinkTo(m, v, m.link[v].id, "Media")
        BY <1>1, <1>3, <3>1, <3>3 DEF updateLinkRecord, LinkTo
      <4>2. "Media" \in Origin /\ m.link[v].id # 0
        BY <1>1, <1>3, <3>3 DEF Origin
      <4>. QED  BY <1>2, <1>3, <4>1, <4>2, ChangingOrigin
    <3>4. CASE db.link[v].id # 0 /\ db.link[v].id # x
      BY <1>1, <1>8, <2>3, <3>4 DEF Held, LosesItsRow, IsThere
    <3>. QED  BY <3>2, <3>3, <3>4
  <2>. QED  BY <1>3, <2>2, <2>3
<1>. QED  BY <1>7, <1>8

\* What the thread holds stands through the transactions of the others.
LEMMA HeldKept ==
    ASSUME NEW d0, Good(d0), Apart(d0), NEW d, Transacts(d0, d),
           NEW v \in Videos, NEW old, Held(d0, v, old)
    PROVE  Held(d, v, old)
<1>0. v \in Entities
  BY Constants
<1>1. PICK x \in Ids : x = old.id /\ x <= d0.last
  BY DEF Held
<1>2. x <= d.last
  BY <1>1 DEF Transacts, Keeps, Good, DbT, Ids
<1>3. ASSUME IsThere(d, x) PROVE d.link[v].id = x
  <2>1. d0.link[v].id = x
    BY <1>1, <1>3 DEF Transacts, Keeps, Held
  <2>2. Showing(d0, x) = {v}
    BY <1>0, <2>1 DEF Apart, Showing, Ids
  <2>3. ~Offered(d0, x)
    BY <2>2 DEF Offered, Showing
  <2>4. Showing(d, x) \subseteq {v} /\ IsShown(d, x)
    <3>1. IsShown(d0, x)
      BY <2>2 DEF IsShown
    <3>. QED  BY <1>1, <1>3, <2>2, <2>3, <3>1 DEF Transacts, Keeps
  <2>. QED  BY <2>4 DEF IsShown, Showing
<1>. QED  BY <1>1, <1>2, <1>3 DEF Held

-----------------------------------------------------------------------------
(* The inductive invariant.                                                *)

AliasesSeen == Aliased(db) \subseteq aliased

\* A file whose removal was asked for is that of no row that is shown, and is not the one a
\* row that is shown was given.
CleanupsUnused ==
    \A f \in db.cleanups \ aliased : ~IsShown(db, f) /\ \A x \in Ids : ~Names(db, x, f)

\* A row that is shown has no other shown row's file.
NamesOwn ==
    \A x, f \in Ids : Names(db, x, f) /\ IsShown(db, f) /\ x # f => f \in aliased

FilesThere == \A x, f \in Ids : Names(db, x, f) /\ f \notin aliased => f \in db.disk

DbOK ==
    /\ Good(db) /\ Apart(db)
    /\ AliasesSeen /\ CleanupsUnused /\ NamesOwn /\ FilesThere

Generating == {"generating", "generated"}
WorkerT == [pc : {"idle", "taken", "cleaning", "dead", "exited"} \cup Generating,
            media : Media \cup {Cleanup}, old : ObjectT, first : BOOLEAN, todo : SUBSET Ids]

WorkerOK ==
    /\ worker \in WorkerT
    /\ worker.pc \in {"taken"} \cup Generating => worker.media \in Videos
    /\ worker.pc \in Generating => Held(db, worker.media, worker.old)
    /\ worker.pc = "generated" => worker.old.id \in db.disk
    /\ worker.pc = "cleaning" => worker.todo \subseteq db.cleanups

\* What is queued is known to be, and is queued once.
QueueOK ==
    /\ tasks \in Seq(Videos \cup {Cleanup})
    /\ queued = {tasks[i] : i \in DOMAIN tasks}
    /\ \A i, j \in DOMAIN tasks : tasks[i] = tasks[j] => i = j

Others ==
    /\ alive \subseteq Media /\ parsed \subseteq Tracks \cap alive
    /\ running \in BOOLEAN /\ paused \in BOOLEAN /\ told \in BOOLEAN
    /\ aliased \subseteq Ids

IInv == DbOK /\ WorkerOK /\ QueueOK /\ Others /\ NoCleanupIsForgotten

LEMMA SeenAliased ==
    ASSUME NEW d, NEW x \in Ids, NEW y \in Ids, NEW f \in Ids, x # y,
           IsShown(d, x), IsShown(d, y), d.row[x].file = f, d.row[y].file = f
    PROVE  f \in Aliased(d)
<1>1. PICK a \in Entities, b \in Entities : d.link[a].id = x /\ d.link[b].id = y
  BY DEF IsShown, Showing
<1>. QED  BY <1>1 DEF Aliased, Shown, Ids

\* What is committed has its files, those two shown rows name aside.
LEMMA Committing ==
    ASSUME DbOK, NEW d, Transacts(db, d), Commit(d)
    PROVE  DbOK'
<1>1. db' = d /\ aliased' = aliased \cup Aliased(d)
  BY DEF Commit
<1>2. /\ Good(db) /\ Good(d) /\ Apart(d) /\ Keeps(db, d)
      /\ \A x \in Ids : db.row[x].file <= db.last
      /\ \A f \in db.cleanups : f <= db.last
      /\ \A x \in Ids : IsThere(db, x) => x <= db.last
      /\ \A x \in Ids : IsShown(db, x) => IsThere(db, x)
      /\ \A x \in Ids : IsShown(d, x) => IsThere(d, x)
      /\ db.last \in Int /\ db.cleanups \subseteq Ids /\ d.cleanups \subseteq Ids
  BY DEF DbOK, Transacts, Good, DbT, Known, Unused, Fits, Ids
<1>3. \A x \in Ids : x <= db.last /\ IsShown(d, x) => IsShown(db, x)
  <2>. SUFFICES ASSUME NEW x \in Ids, x <= db.last, IsShown(d, x) PROVE IsShown(db, x)
    OBVIOUS
  <2>1. Showing(d, x) \subseteq Showing(db, x) \/ Offered(db, x)
    BY <1>2 DEF Keeps
  <2>. QED  BY <2>1 DEF IsShown, Offered, Showing
\* A row that is shown names what it did, its own file, or that of a row just inserted.
<1>4. ASSUME NEW x \in Ids, NEW f \in Ids, Names(d, x, f)
      PROVE  \/ Names(db, x, f)
             \/ f = x /\ f \in d.disk
             \/ Wrote(db, d, f)
  <2>1. \/ IsAvailable(db, x) /\ db.row[x].file = f
        \/ f = x /\ f \in d.disk
        \/ Wrote(db, d, f)
    BY <1>2, <1>4 DEF Names, Keeps
  <2>2. IsAvailable(db, x) => x <= db.last
    BY <1>2 DEF IsAvailable, IsThere
  <2>. QED  BY <1>3, <1>4, <2>1, <2>2 DEF Names
<1>5. AliasesSeen'
  BY <1>1 DEF AliasesSeen
<1>6. ASSUME NEW x \in Ids, NEW f \in Ids, Names(d, x, f), f \notin aliased'
      PROVE  f \in d.disk
  BY <1>1, <1>2, <1>4, <1>6 DEF DbOK, FilesThere, Keeps, Wrote
<1>7. ASSUME NEW x \in Ids, NEW f \in Ids, Names(d, x, f), IsShown(d, f), x # f
      PROVE  f \in aliased'
  <2>1. CASE Names(db, x, f)
    <3>1. f <= db.last
      BY <1>2, <2>1 DEF Names
    <3>. QED  BY <1>1, <1>3, <1>7, <2>1, <3>1 DEF DbOK, NamesOwn
  <2>2. CASE Wrote(db, d, f)
    BY <1>1, <1>7, <2>2, SeenAliased DEF Wrote, Names
  <2>. QED  BY <1>4, <1>7, <2>1, <2>2
\* The files asked to be removed now were those of rows deleted since.
<1>8. ASSUME NEW f \in d.cleanups \ aliased'
      PROVE  \/ f \in db.cleanups
             \/ \E y \in Ids : Names(db, y, f) /\ ~IsThere(d, y)
  BY <1>2 DEF Keeps
<1>9. ASSUME NEW f \in d.cleanups \ aliased'
      PROVE  f \in Ids /\ f <= db.last /\ f \notin aliased
  BY <1>1, <1>2, <1>8, <1>9 DEF Names
<1>10. ASSUME NEW f \in d.cleanups \ aliased' PROVE ~IsShown(d, f)
  <2>. SUFFICES ASSUME IsShown(d, f) PROVE FALSE
    OBVIOUS
  <2>1. IsShown(db, f)
    BY <1>3, <1>9
  <2>2. CASE f \in db.cleanups
    BY <1>9, <2>1, <2>2 DEF DbOK, CleanupsUnused
  <2>3. CASE \E y \in Ids : Names(db, y, f) /\ ~IsThere(d, y)
    <3>1. PICK y \in Ids : Names(db, y, f) /\ ~IsThere(d, y)
      BY <2>3
    <3>2. y # f
      BY <1>2, <1>9, <3>1
    <3>. QED  BY <1>9, <2>1, <3>1, <3>2 DEF DbOK, NamesOwn
  <2>. QED  BY <1>8, <2>2, <2>3
<1>11. ASSUME NEW f \in d.cleanups \ aliased', NEW x \in Ids PROVE ~Names(d, x, f)
  <2>. SUFFICES ASSUME Names(d, x, f) PROVE FALSE
    OBVIOUS
  <2>1. x # f /\ IsThere(d, x)
    BY <1>2, <1>10 DEF Names
  <2>2. Names(db, x, f)
    <3>1. f \in Ids /\ ~(f > db.last)
      BY <1>2, <1>9 DEF Ids
    <3>. QED  BY <1>4, <2>1, <3>1 DEF Wrote
  <2>3. CASE f \in db.cleanups
    BY <1>9, <2>2, <2>3 DEF DbOK, CleanupsUnused
  <2>4. CASE \E y \in Ids : Names(db, y, f) /\ ~IsThere(d, y)
    <3>1. PICK y \in Ids : Names(db, y, f) /\ ~IsThere(d, y)
      BY <2>4
    <3>2. f \in Aliased(db)
      BY <1>9, <2>1, <2>2, <3>1, SeenAliased DEF Names
    <3>. QED  BY <1>9, <3>2 DEF DbOK, AliasesSeen
  <2>. QED  BY <1>8, <2>3, <2>4
<1>12. CleanupsUnused' /\ NamesOwn' /\ FilesThere'
  BY <1>1, <1>6, <1>7, <1>10, <1>11 DEF CleanupsUnused, NamesOwn, FilesThere
<1>. QED  BY <1>1, <1>2, <1>5, <1>12 DEF DbOK

\* The requests of a transaction are told to the notifier.
LEMMA CleanupsKept ==
    ASSUME NoCleanupIsForgotten, told => told', UNCHANGED <<tasks, running>>,
           db'.cleanups \ db.cleanups # {} => told',
           worker' = worker \/ worker.pc \notin {"cleaning", "dead"} \/ worker'.pc = "dead"
    PROVE  NoCleanupIsForgotten'
BY DEF NoCleanupIsForgotten

\* A transaction of the analyzer or of the application.
LEMMA ByOthers ==
    ASSUME IInv, NEW d, Transacts(db, d), Commit(d), UNCHANGED Thread,
           alive' \subseteq Media, parsed' \subseteq Tracks \cap alive'
    PROVE  IInv'
<1>1. /\ UNCHANGED <<tasks, queued, worker, running, paused>>
      /\ db' = d /\ told' = (told \/ d.cleanups \ db.cleanups # {})
      /\ aliased' = aliased \cup Aliased(d)
  BY DEF Thread, Commit
<1>2. DbOK'
  BY Committing DEF IInv
<1>3. WorkerOK'
  <2>1. worker.pc \in Generating => Held(d, worker.media, worker.old)
    BY HeldKept DEF IInv, DbOK, WorkerOK
  <2>2. db.disk \subseteq d.disk /\ db.cleanups \subseteq d.cleanups
    BY DEF Transacts, Keeps
  <2>. QED  BY <1>1, <2>1, <2>2 DEF IInv, WorkerOK
<1>4. QueueOK'
  BY <1>1 DEF IInv, QueueOK
<1>5. Others'
  BY <1>1 DEF IInv, Others, Aliased
<1>6. NoCleanupIsForgotten'
  BY <1>1, CleanupsKept DEF IInv
<1>. QED  BY <1>2, <1>3, <1>4, <1>5, <1>6 DEF IInv

LEMMA Initially == Init => IInv
<1>. SUFFICES ASSUME Init PROVE IInv
  OBVIOUS
<1>1. /\ db.row = [i \in Ids |-> NoRow] /\ db.link = [e \in Entities |-> NoLink]
      /\ db.last = 0 /\ db.disk = {} /\ db.cleanups = {}
      /\ db = [row |-> db.row, link |-> db.link, last |-> db.last, disk |-> db.disk,
               cleanups |-> db.cleanups]
  BY DEF Init
<1>2. NoRow \in RowT /\ NoRow.file = 0 /\ NoRow.shared = 0 /\ NoRow.status = "Missing"
  BY DEF NoRow, RowT, Status, File, Hash, Blank
<1>3. NoLink \in LinkT /\ NoLink.id = 0
  BY Constants DEF NoLink, LinkT, Origin
<1>4. db \in DbT
  BY <1>1, <1>2, <1>3, Constants DEF DbT
<1>5. \A x \in Ids : ~IsThere(db, x) /\ Showing(db, x) = {} /\ ~IsShown(db, x)
  BY <1>1, <1>2, <1>3 DEF IsThere, IsShown, Showing, Ids
<1>6. Good(db)
  <2>1. \A x \in Ids : Fits(db, x)
    BY <1>1, <1>2, <1>5, FS_EmptySet DEF Fits
  <2>2. Unused(db) /\ Known(db)
    BY <1>1, <1>2, <1>5 DEF Unused, Known
  <2>. QED  BY <1>4, <2>1, <2>2 DEF Good
<1>7. \A e \in Entities : db.link[e].id = 0
  BY <1>1, <1>3
<1>8. Apart(db)
  BY <1>7, Constants DEF Apart
<1>9. AliasesSeen
  BY <1>7 DEF AliasesSeen, Aliased, Shown
<1>10. CleanupsUnused /\ NamesOwn /\ FilesThere
  BY <1>1, <1>5 DEF CleanupsUnused, NamesOwn, FilesThere, Names
<1>11. WorkerOK
  <2>1. Null \in ObjectT
    BY Constants DEF Null, Object, ObjectT, Status, File, Origin, Hash
  <2>. QED  BY <2>1 DEF Init, WorkerOK, WorkerT, Generating
<1>12. QueueOK
  BY DEF Init, QueueOK
<1>13. Others
  BY DEF Init, Others
<1>14. NoCleanupIsForgotten
  BY <1>1 DEF NoCleanupIsForgotten
<1>. QED  BY <1>6, <1>8, <1>9, <1>10, <1>11, <1>12, <1>13, <1>14 DEF IInv, DbOK

-----------------------------------------------------------------------------
(* The steps of the analyzer and of the application.                       *)

LEMMA StepAudio ==
    ASSUME IInv, NEW m \in Media, parseAudioFile(m)
    PROVE  IInv'
<1>1. /\ m \in Tracks /\ m \in alive /\ db.last < MaxRows /\ parsed \subseteq Tracks
      /\ parsed' = parsed \cup {m} /\ alive' = alive /\ UNCHANGED Thread
      /\ Good(db) /\ Apart(db)
  BY DEF parseAudioFile, RoomLeft, IInv, Others, DbOK
<1>2. PICK art \in Artworks \cup {NoArtwork}, cover \in BOOLEAN, copied \in BOOLEAN :
         LET t == fetchThumbnail(db, m, art, cover)
             a == assignThumbnails(db, m, t)
         IN Commit(IF t.status = "Missing" THEN db ELSE relocate(a.db, a.new, copied))
  BY DEF parseAudioFile
<1>. DEFINE t == fetchThumbnail(db, m, art, cover)
            a == assignThumbnails(db, m, t)
            d == IF t.status = "Missing" THEN db ELSE relocate(a.db, a.new, copied)
<1>3. Commit(d)
  BY <1>2
<1>4. Transacts(db, d)
  <2>1. CASE t.status = "Missing"
    <3>1. d = db
      BY <2>1
    <3>. HIDE DEF d
    <3>. QED  BY <1>1, <3>1, KeepsItself DEF Transacts
  <2>2. CASE t.status # "Missing"
    <3>1. d = relocate(a.db, a.new, copied) /\ Valid(d)
      BY <1>3, <2>2 DEF Commit
    <3>2. /\ Fit(db, db, t) /\ t.status = "Available"
          /\ db.link[m].id = 0 \/ db.link[m].id = t.id
      <4>. HIDE DEF d, a, t
      <4>. QED  BY <1>1, <2>2, FetchedFit DEF t
    <3>. HIDE DEF d, a, t
    <3>. QED  BY <1>1, <3>1, <3>2, Analyzing DEF a
  <2>. QED  BY <2>1, <2>2
<1>5. alive' \subseteq Media /\ parsed' \subseteq Tracks \cap alive'
  BY <1>1 DEF IInv, Others
<1>. HIDE DEF d
<1>. QED  BY <1>1, <1>3, <1>4, <1>5, ByOthers

LEMMA Illustrating ==
    ASSUME IInv, NEW e \in Entities, NEW t, t.id = 0, t \in ObjectT, t.file \notin Ids,
           t.status = "Available", db.last < MaxRows,
           Commit(setThumbnail(db, e, t).db), UNCHANGED <<alive, parsed, Thread>>
    PROVE  IInv'
<1>1. Good(db) /\ Apart(db) /\ Fit(db, db, t)
  BY DEF IInv, DbOK, Fit
<1>2. Transacts(db, setThumbnail(db, e, t).db)
  BY <1>1, SettingThumbnail
<1>3. alive' \subseteq Media /\ parsed' \subseteq Tracks \cap alive'
  BY DEF IInv, Others
<1>. QED  BY <1>2, <1>3, ByOthers

LEMMA StepVideo ==
    ASSUME IInv, NEW m \in Media, parseVideoFile(m)
    PROVE  IInv'
<1>1. PICK art \in Artworks : Commit(setThumbnail(db, m, EmbeddedIn(art)).db)
  BY DEF parseVideoFile
<1>2. m \in Entities /\ db.last < MaxRows /\ UNCHANGED <<alive, parsed, Thread>>
  BY Constants DEF parseVideoFile, RoomLeft
<1>3. /\ EmbeddedIn(art).id = 0 /\ EmbeddedIn(art) \in ObjectT
      /\ EmbeddedIn(art).file \notin Ids /\ EmbeddedIn(art).status = "Available"
  BY Constants DEF EmbeddedIn, Object, ObjectT, Status, File, Origin, Hash, Embedded, Ids
<1>. QED  BY <1>1, <1>2, <1>3, Illustrating

LEMMA StepUser ==
    ASSUME IInv, NEW e \in Illustrated, SetUserThumbnail(e)
    PROVE  IInv'
<1>1. /\ e \in Entities /\ db.last < MaxRows /\ UNCHANGED <<alive, parsed, Thread>>
      /\ Commit(setThumbnail(db, e, UserProvided).db)
  BY Constants DEF SetUserThumbnail, RoomLeft, IInv, Others
<1>2. /\ UserProvided.id = 0 /\ UserProvided \in ObjectT
      /\ UserProvided.file \notin Ids /\ UserProvided.status = "Available"
  BY Constants DEF UserProvided, Object, ObjectT, Status, File, Origin, Hash, UserFile, Ids
<1>. QED  BY <1>1, <1>2, Illustrating

LEMMA StepFlush ==
    ASSUME IInv, flushUserProvided
    PROVE  IInv'
<1>1. PICK es \in SUBSET Entities : Commit(Unlinked(db, es))
  BY DEF flushUserProvided
<1>2. Transacts(db, Unlinked(db, es))
  BY UnlinkingAll DEF IInv, DbOK, Only
<1>3. UNCHANGED Thread /\ alive' \subseteq Media /\ parsed' \subseteq Tracks \cap alive'
  BY DEF flushUserProvided, IInv, Others
<1>. QED  BY <1>1, <1>2, <1>3, ByOthers

LEMMA StepDelete ==
    ASSUME IInv, NEW m \in Media, DeleteMedia(m)
    PROVE  IInv'
<1>1. PICK es \in SUBSET Entities : Commit(Unlinked(db, es))
  <2>1. {m} \cup (IF parsed = {m} THEN {Album, Artist} ELSE {}) \in SUBSET Entities
    BY Constants
  <2>. QED  BY <2>1 DEF DeleteMedia
<1>2. Transacts(db, Unlinked(db, es))
  BY UnlinkingAll DEF IInv, DbOK, Only
<1>3. UNCHANGED Thread /\ alive' \subseteq Media /\ parsed' \subseteq Tracks \cap alive'
  BY DEF DeleteMedia, IInv, Others
<1>. QED  BY <1>1, <1>2, <1>3, ByOthers

-----------------------------------------------------------------------------
(* The steps of the thumbnailer.                                           *)

LEMMA SameDb ==
    ASSUME IInv, UNCHANGED Database
    PROVE  DbOK' /\ UNCHANGED <<db, alive, parsed, aliased>>
<1>1. UNCHANGED <<db, alive, parsed, aliased>>
  BY DEF Database
<1>2. Good(db)' /\ Apart(db)'
  BY <1>1 DEF IInv, DbOK, Good, Apart, Unused, Known, Fits, IsShown, IsThere, IsAvailable,
              Showing
<1>3. AliasesSeen' /\ CleanupsUnused' /\ NamesOwn' /\ FilesThere'
  <2>1. Aliased(db') = Aliased(db)
    BY <1>1
  <2>2. \A x, f : Names(db', x, f) <=> Names(db, x, f)
    BY <1>1
  <2>3. \A f : IsShown(db', f) <=> IsShown(db, f)
    BY <1>1
  <2>. QED  BY <1>1, <2>1, <2>2, <2>3
       DEF IInv, DbOK, AliasesSeen, CleanupsUnused, NamesOwn, FilesThere
<1>. QED  BY <1>1, <1>2, <1>3 DEF DbOK

LEMMA SameWorker ==
    ASSUME WorkerOK, UNCHANGED <<db, worker>>
    PROVE  WorkerOK'
BY DEF WorkerOK, Held, IsThere

LEMMA IdleWorker == Idle \in WorkerT /\ Idle.pc = "idle"
<1>1. Null \in ObjectT
  BY Constants DEF Null, Object, ObjectT, Status, File, Origin, Hash
<1>. QED  BY <1>1 DEF Idle, WorkerT

LEMMA Enqueuing ==
    ASSUME QueueOK, NEW t \in Videos \cup {Cleanup}, Enqueue(t)
    PROVE  /\ QueueOK'
           /\ \E i \in DOMAIN tasks' : tasks'[i] = t
           /\ \A i \in DOMAIN tasks : i \in DOMAIN tasks' /\ tasks'[i] = tasks[i]
<1>1. tasks \in Seq(Videos \cup {Cleanup})
  BY DEF QueueOK
<1>2. CASE t \in queued
  BY <1>2 DEF QueueOK, Enqueue
<1>3. CASE t \notin queued
  <2>1. tasks' = Append(tasks, t) /\ queued' = queued \cup {t}
    BY <1>3 DEF Enqueue
  <2>2. /\ tasks' \in Seq(Videos \cup {Cleanup}) /\ Len(tasks) \in Nat
        /\ DOMAIN tasks = 1 .. Len(tasks) /\ DOMAIN tasks' = 1 .. (Len(tasks) + 1)
        /\ tasks'[Len(tasks) + 1] = t
        /\ \A i \in 1 .. Len(tasks) : tasks'[i] = tasks[i]
    BY <1>1, <2>1
  <2>3. \A i \in DOMAIN tasks' : i \in DOMAIN tasks \/ i = Len(tasks) + 1
    BY <2>2
  <2>4. Len(tasks) + 1 \in DOMAIN tasks' /\ Len(tasks) + 1 \notin DOMAIN tasks
    BY <2>2
  <2>5. \A i \in DOMAIN tasks : i \in DOMAIN tasks' /\ tasks'[i] = tasks[i] /\ tasks[i] # t
    BY <1>3, <2>2 DEF QueueOK
  <2>6. queued' = {tasks'[i] : i \in DOMAIN tasks'}
    BY <2>1, <2>2, <2>3, <2>4, <2>5 DEF QueueOK
  <2>7. \A i, j \in DOMAIN tasks' : tasks'[i] = tasks'[j] => i = j
    BY <2>2, <2>3, <2>4, <2>5 DEF QueueOK
  <2>. QED  BY <2>2, <2>4, <2>5, <2>6, <2>7 DEF QueueOK
<1>. QED  BY <1>2, <1>3

LEMMA StepRequest ==
    ASSUME IInv, NEW m \in Videos, requestThumbnail(m)
    PROVE  IInv'
<1>1. Enqueue(m) /\ UNCHANGED <<Database, told, worker, running, paused>>
  BY DEF requestThumbnail
<1>2. DbOK' /\ UNCHANGED <<db, alive, parsed, aliased>>
  BY <1>1, SameDb
<1>3. QueueOK' /\ \A i \in DOMAIN tasks : i \in DOMAIN tasks' /\ tasks'[i] = tasks[i]
  BY <1>1, Enqueuing DEF IInv
<1>4. WorkerOK'
  BY <1>1, <1>2, SameWorker DEF IInv
<1>5. Others'
  BY <1>1, <1>2 DEF IInv, Others
<1>6. NoCleanupIsForgotten'
  BY <1>1, <1>2, <1>3 DEF IInv, NoCleanupIsForgotten
<1>. QED  BY <1>2, <1>3, <1>4, <1>5, <1>6 DEF IInv

LEMMA StepCleanup ==
    ASSUME IInv, requestCleanupRun
    PROVE  IInv'
<1>1. Enqueue(Cleanup) /\ told' = FALSE /\ UNCHANGED <<Database, worker, running, paused>>
  BY DEF requestCleanupRun
<1>2. DbOK' /\ UNCHANGED <<db, alive, parsed, aliased>>
  BY <1>1, SameDb
<1>3. QueueOK' /\ \E i \in DOMAIN tasks' : tasks'[i] = Cleanup
  BY <1>1, Enqueuing DEF IInv
<1>4. WorkerOK'
  BY <1>1, <1>2, SameWorker DEF IInv
<1>5. Others'
  BY <1>1, <1>2 DEF IInv, Others
<1>6. NoCleanupIsForgotten'
  BY <1>3 DEF NoCleanupIsForgotten
<1>. QED  BY <1>2, <1>3, <1>4, <1>5, <1>6 DEF IInv

LEMMA StepPause ==
    ASSUME IInv, pause \/ resume
    PROVE  IInv'
<1>1. UNCHANGED <<Database, told, tasks, queued, worker, running>> /\ paused' \in BOOLEAN
  BY DEF pause, resume
<1>2. DbOK' /\ UNCHANGED <<db, alive, parsed, aliased>>
  BY <1>1, SameDb
<1>3. QueueOK'
  BY <1>1 DEF IInv, QueueOK
<1>4. WorkerOK'
  BY <1>1, <1>2, SameWorker DEF IInv
<1>5. Others'
  BY <1>1, <1>2 DEF IInv, Others
<1>6. NoCleanupIsForgotten'
  BY <1>1, <1>2 DEF IInv, NoCleanupIsForgotten
<1>. QED  BY <1>2, <1>3, <1>4, <1>5, <1>6 DEF IInv

LEMMA StepStop ==
    ASSUME IInv, stop
    PROVE  IInv'
<1>1. /\ running' = FALSE /\ tasks' = <<>> /\ queued' = {}
      /\ UNCHANGED <<Database, told, worker, paused>>
  BY DEF stop
<1>2. DbOK' /\ UNCHANGED <<db, alive, parsed, aliased>>
  BY <1>1, SameDb
<1>3. QueueOK'
  BY <1>1 DEF QueueOK
<1>4. WorkerOK'
  BY <1>1, <1>2, SameWorker DEF IInv
<1>5. Others'
  BY <1>1, <1>2 DEF IInv, Others
<1>6. NoCleanupIsForgotten'
  BY <1>1 DEF NoCleanupIsForgotten
<1>. QED  BY <1>2, <1>3, <1>4, <1>5, <1>6 DEF IInv

LEMMA StepTake ==
    ASSUME IInv, Take
    PROVE  IInv'
<1>. DEFINE t == Head(tasks)
<1>1. /\ worker.pc = "idle" /\ tasks # <<>> /\ tasks' = Tail(tasks) /\ queued' = queued \ {t}
      /\ worker' = CASE t = Cleanup -> [Idle EXCEPT !.pc = "cleaning", !.todo = db.cleanups]
                     [] t \in alive -> [Idle EXCEPT !.pc = "taken", !.media = t]
                     [] OTHER -> worker
      /\ UNCHANGED <<Database, told, running, paused>>
  BY DEF Take
<1>2. DbOK' /\ UNCHANGED <<db, alive, parsed, aliased>>
  BY <1>1, SameDb
<1>3. /\ tasks \in Seq(Videos \cup {Cleanup}) /\ tasks' \in Seq(Videos \cup {Cleanup})
      /\ Len(tasks) \in Nat \ {0} /\ DOMAIN tasks = 1 .. Len(tasks)
      /\ DOMAIN tasks' = 1 .. (Len(tasks) - 1)
      /\ \A i \in 1 .. (Len(tasks) - 1) : tasks'[i] = tasks[i + 1]
      /\ t = tasks[1] /\ t \in Videos \cup {Cleanup}
  BY <1>1 DEF IInv, QueueOK
<1>4. /\ \A i \in DOMAIN tasks' : i + 1 \in DOMAIN tasks /\ tasks'[i] = tasks[i + 1]
      /\ \A i \in DOMAIN tasks : i = 1 \/ (i - 1 \in DOMAIN tasks' /\ tasks[i] = tasks'[i - 1])
      /\ 1 \in DOMAIN tasks /\ \A i \in DOMAIN tasks' : i + 1 # 1
      /\ \A i, j \in DOMAIN tasks' : i + 1 = j + 1 => i = j
  BY <1>3
<1>5. QueueOK'
  <2>1. \A i \in DOMAIN tasks' : tasks'[i] # t
    BY <1>3, <1>4 DEF IInv, QueueOK
  <2>2. \A i, j \in DOMAIN tasks' : tasks'[i] = tasks'[j] => i = j
    BY <1>4 DEF IInv, QueueOK
  <2>3. queued = {tasks[i] : i \in DOMAIN tasks}
    BY DEF IInv, QueueOK
  <2>4. queued' = {tasks'[i] : i \in DOMAIN tasks'}
    <3>1. ASSUME NEW q \in queued' PROVE \E i \in DOMAIN tasks' : q = tasks'[i]
      <4>1. PICK i \in DOMAIN tasks : q = tasks[i] /\ q # t
        BY <1>1, <2>3, <3>1
      <4>. QED  BY <1>3, <1>4, <4>1
    <3>2. ASSUME NEW i \in DOMAIN tasks' PROVE tasks'[i] \in queued'
      BY <1>1, <1>4, <2>1, <2>3, <3>2
    <3>. QED  BY <3>1, <3>2
  <2>. QED  BY <1>3, <2>2, <2>4 DEF QueueOK
<1>. HIDE DEF t
<1>6. CASE t = Cleanup
  <2>1. worker' = [Idle EXCEPT !.pc = "cleaning", !.todo = db.cleanups]
    <3>1. t \notin alive
      BY <1>6, ThumbnailsAssumption DEF IInv, Others
    <3>. QED  BY <1>1, <1>6, <3>1 DEF t
  <2>2. db.cleanups \in SUBSET Ids
    BY DEF IInv, DbOK, Good, DbT
  <2>3. worker' \in WorkerT /\ worker'.pc = "cleaning" /\ worker'.todo = db.cleanups
    BY <2>1, <2>2, IdleWorker DEF WorkerT
  <2>4. WorkerOK'
    BY <1>2, <2>3 DEF WorkerOK, Generating
  <2>5. NoCleanupIsForgotten'
    BY <1>2, <2>3 DEF NoCleanupIsForgotten
  <2>6. Others'
    BY <1>1, <1>2 DEF IInv, Others
  <2>. QED  BY <1>2, <1>5, <2>4, <2>5, <2>6 DEF IInv
<1>7. CASE t # Cleanup
  <2>1. /\ \/ worker' = worker
           \/ worker' = [Idle EXCEPT !.pc = "taken", !.media = t]
        /\ t \in Videos
    BY <1>1, <1>3, <1>7
  <2>2. WorkerOK'
    <3>1. CASE worker' = worker
      BY <1>2, <3>1, SameWorker DEF IInv
    <3>2. CASE worker' = [Idle EXCEPT !.pc = "taken", !.media = t]
      <4>1. worker' \in WorkerT /\ worker'.pc = "taken" /\ worker'.media = t
        BY <2>1, <3>2, IdleWorker, Constants DEF WorkerT
      <4>. QED  BY <2>1, <4>1 DEF WorkerOK, Generating
    <3>. QED  BY <2>1, <3>1, <3>2
  <2>3. (\E i \in DOMAIN tasks : tasks[i] = Cleanup)
          => \E i \in DOMAIN tasks' : tasks'[i] = Cleanup
    BY <1>3, <1>4, <1>7
  <2>4. NoCleanupIsForgotten'
    BY <1>1, <1>2, <2>3 DEF IInv, NoCleanupIsForgotten
  <2>5. Others'
    BY <1>1, <1>2 DEF IInv, Others
  <2>. QED  BY <1>2, <1>5, <2>2, <2>4, <2>5 DEF IInv
<1>. QED  BY <1>6, <1>7

\* The file removed is that of no row that is shown, unless two have named it.
LEMMA StepServe ==
    ASSUME IInv, runCleanupRequests
    PROVE  IInv'
<1>1. /\ worker.pc = "cleaning" /\ worker \in WorkerT /\ worker.todo \subseteq db.cleanups
      /\ UNCHANGED <<alive, parsed, aliased, told, tasks, queued, running, paused>>
  BY DEF runCleanupRequests, IInv, WorkerOK
<1>2. QueueOK' /\ Others'
  BY <1>1 DEF IInv, QueueOK, Others
<1>3. CASE worker.todo = {}
  <2>1. worker' = Idle /\ db' = db
    BY <1>3 DEF runCleanupRequests
  <2>2. DbOK'
    BY <1>1, <2>1, SameDb DEF Database
  <2>3. WorkerOK'
    BY <2>1, IdleWorker DEF WorkerOK, Generating
  <2>4. NoCleanupIsForgotten'
    BY <1>1, <1>3, <2>1 DEF IInv, NoCleanupIsForgotten
  <2>. QED  BY <1>2, <2>2, <2>3, <2>4 DEF IInv
<1>4. CASE worker.todo # {}
  <2>1. PICK f \in worker.todo :
           /\ worker' = [worker EXCEPT !.todo = @ \ {f}]
           /\ db' = IF f \in Undeletable THEN db
                    ELSE [db EXCEPT !.disk = @ \ {f}, !.cleanups = @ \ {f}]
    BY <1>4 DEF runCleanupRequests
  <2>2. /\ worker' \in WorkerT /\ worker'.pc = "cleaning" /\ worker'.todo = worker.todo \ {f}
    BY <1>1, <2>1 DEF WorkerT
  <2>3. CASE f \in Undeletable
    <3>1. DbOK' /\ db' = db
      BY <1>1, <2>1, <2>3, SameDb DEF Database
    <3>2. WorkerOK'
      BY <1>1, <2>2, <3>1 DEF WorkerOK, Generating
    <3>3. NoCleanupIsForgotten'
      BY <1>1, <2>2, <2>3, <3>1 DEF IInv, NoCleanupIsForgotten
    <3>. QED  BY <1>2, <3>1, <3>2, <3>3 DEF IInv
  <2>4. CASE f \notin Undeletable
    <3>0. db \in DbT
      BY DEF IInv, DbOK, Good
    <3>1. /\ db' \in DbT /\ db'.row = db.row /\ db'.link = db.link /\ db'.last = db.last
          /\ db'.disk = db.disk \ {f} /\ db'.cleanups = db.cleanups \ {f}
      BY <2>1, <2>4, <3>0 DEF DbT
    <3>2. \A x : /\ Showing(db', x) = Showing(db, x) /\ (IsShown(db', x) <=> IsShown(db, x))
                 /\ (IsThere(db', x) <=> IsThere(db, x))
                 /\ (IsAvailable(db', x) <=> IsAvailable(db, x))
                 /\ (Fits(db', x) <=> Fits(db, x))
                 /\ \A g : Names(db', x, g) <=> Names(db, x, g)
      BY <3>1 DEF Showing, IsShown, IsThere, IsAvailable, Fits, Names
    <3>3. Good(db)'
      <4>1. Unused(db') /\ Known(db')
        BY <3>1, <3>2 DEF IInv, DbOK, Good, Unused, Known
      <4>2. \A x \in Ids : Fits(db', x)
        BY <3>2 DEF IInv, DbOK, Good
      <4>. QED  BY <3>1, <4>1, <4>2 DEF Good
    <3>4. Apart(db)'
      BY <3>1, <3>2 DEF IInv, DbOK, Apart
    <3>5. Aliased(db') = Aliased(db)
      BY <3>1 DEF Aliased, Shown
    <3>6. AliasesSeen' /\ CleanupsUnused' /\ NamesOwn'
      BY <1>1, <3>1, <3>2, <3>5 DEF IInv, DbOK, AliasesSeen, CleanupsUnused, NamesOwn
    <3>7. \A x \in Ids : ~Names(db, x, f) \/ f \in aliased
      BY <1>1 DEF IInv, DbOK, CleanupsUnused
    <3>8. FilesThere'
      BY <1>1, <3>1, <3>2, <3>7 DEF IInv, DbOK, FilesThere
    <3>9. WorkerOK'
      BY <1>1, <2>2, <3>1 DEF WorkerOK, Generating
    <3>10. NoCleanupIsForgotten'
      BY <1>1, <2>2, <3>1 DEF IInv, NoCleanupIsForgotten
    <3>. QED  BY <1>2, <3>3, <3>4, <3>6, <3>8, <3>9, <3>10 DEF IInv, DbOK
  <2>. QED  BY <2>3, <2>4
<1>. QED  BY <1>3, <1>4

\* A transaction of the thread.
LEMMA ByThread ==
    ASSUME IInv, NEW d, Transacts(db, d), Commit(d), WorkerOK',
           worker.pc \notin {"cleaning", "dead"},
           UNCHANGED <<alive, parsed, tasks, queued, running, paused>>
    PROVE  IInv'
<1>1. /\ db' = d /\ told' = (told \/ d.cleanups \ db.cleanups # {})
      /\ aliased' = aliased \cup Aliased(d)
  BY DEF Commit
<1>2. DbOK'
  BY Committing DEF IInv
<1>3. QueueOK'
  BY DEF IInv, QueueOK
<1>4. Others'
  BY <1>1 DEF IInv, Others, Aliased
<1>5. NoCleanupIsForgotten'
  BY <1>1, CleanupsKept DEF IInv
<1>. QED  BY <1>2, <1>3, <1>4, <1>5 DEF IInv

LEMMA StepBegin ==
    ASSUME IInv, Begin
    PROVE  IInv'
<1>. DEFINE first == Fetch(db, worker.media).id = 0
            marked == IF first THEN setThumbnail(db, worker.media, CrashRecord).db ELSE db
<1>1. /\ worker.pc = "taken" /\ Commit(marked) /\ (first => db.last < MaxRows)
      /\ worker' = [worker EXCEPT !.pc = "generating", !.first = first,
                                  !.old = Fetch(marked, worker.media)]
      /\ UNCHANGED <<alive, parsed, tasks, queued, running, paused>>
  BY DEF Begin, RoomLeft
<1>2. /\ Good(db) /\ Apart(db) /\ worker \in WorkerT
      /\ worker.media \in Videos /\ worker.media \in Entities
  BY <1>1, Constants DEF IInv, DbOK, WorkerOK
<1>3. PICK v \in Videos : v = worker.media /\ v \in Entities
  BY <1>2
<1>4. first <=> db.link[v].id = 0
  BY <1>2, <1>3, FetchIs, FetchNull DEF Null, Object
<1>5. first \in BOOLEAN
  OBVIOUS
<1>. HIDE DEF first
<1>6. Transacts(db, marked) /\ marked.link[v].id # 0
  <2>1. CASE first
    <3>1. marked = setThumbnail(db, v, CrashRecord).db
      BY <1>3, <2>1
    <3>. HIDE DEF marked
    <3>. QED  BY <1>1, <1>2, <1>4, <2>1, <3>1, Beginning
  <2>2. CASE ~first
    BY <1>2, <1>4, <2>2, KeepsItself DEF Transacts
  <2>. QED  BY <2>1, <2>2
<1>. HIDE DEF marked
<1>7. Held(marked, v, Fetch(marked, v))
  BY <1>6, HeldFetched DEF Transacts
<1>8. db' = marked
  BY <1>1 DEF Commit
<1>9. WorkerOK'
  <2>1. Fetch(marked, v) \in ObjectT
    BY <1>7 DEF Held
  <2>2. /\ worker' \in WorkerT /\ worker'.pc = "generating" /\ worker'.media = v
        /\ worker'.old = Fetch(marked, v)
    BY <1>1, <1>2, <1>3, <1>5, <2>1 DEF WorkerT, Generating
  <2>. QED  BY <1>7, <1>8, <2>2 DEF WorkerOK
<1>. QED  BY <1>1, <1>6, <1>9, ByThread

LEMMA StepQuiet ==
    ASSUME IInv, GiveUp \/ Exit
    PROVE  IInv'
<1>1. /\ worker.pc \notin {"cleaning", "dead"}
      /\ worker' = Idle \/ worker' = [Idle EXCEPT !.pc = "exited"]
      /\ UNCHANGED <<Database, told, tasks, queued, running, paused>>
  BY DEF GiveUp, Exit
<1>2. DbOK' /\ UNCHANGED <<db, alive, parsed, aliased>>
  BY <1>1, SameDb
<1>3. WorkerOK'
  <2>1. worker' \in WorkerT /\ worker'.pc \in {"idle", "exited"}
    BY <1>1, IdleWorker DEF WorkerT
  <2>. QED  BY <2>1 DEF WorkerOK, Generating
<1>4. QueueOK' /\ Others'
  BY <1>1, <1>2 DEF IInv, QueueOK, Others
<1>5. NoCleanupIsForgotten'
  BY <1>1, <1>2, CleanupsKept DEF IInv
<1>. QED  BY <1>2, <1>3, <1>4, <1>5 DEF IInv

LEMMA StepFail ==
    ASSUME IInv, GenerationFails
    PROVE  IInv'
<1>. DEFINE d == IF running THEN MarkFailed(db, worker.old.id)
                 ELSE IF worker.first THEN unlinkThumbnail(db, worker.media) ELSE db
<1>1. /\ worker.pc = "generating" /\ Commit(d) /\ worker' = Idle
      /\ UNCHANGED <<alive, parsed, tasks, queued, running, paused>>
  BY DEF GenerationFails
<1>2. /\ Good(db) /\ Apart(db) /\ worker.media \in Videos /\ worker.media \in Entities
      /\ Held(db, worker.media, worker.old)
  BY <1>1, Constants DEF IInv, DbOK, WorkerOK, Generating
<1>3. Transacts(db, d)
  <2>1. Transacts(db, db)
    BY <1>2, KeepsItself DEF Transacts
  <2>2. Transacts(db, MarkFailed(db, worker.old.id))
    BY <1>2, MarkingFailed
  <2>3. Transacts(db, unlinkThumbnail(db, worker.media))
    <3>1. CASE db.link[worker.media].id = 0
      BY <2>1, <3>1 DEF unlinkThumbnail
    <3>2. CASE db.link[worker.media].id # 0
      BY <1>2, <2>1, <3>2, Losing DEF SameRow
    <3>. QED  BY <3>1, <3>2
  <2>. QED  BY <2>1, <2>2, <2>3
<1>. HIDE DEF d
<1>4. WorkerOK'
  BY <1>1, IdleWorker DEF WorkerOK, Generating
<1>. QED  BY <1>1, <1>3, <1>4, ByThread

LEMMA StepSucceed ==
    ASSUME IInv, GenerationSucceeds
    PROVE  IInv'
<1>1. /\ worker.pc = "generating" /\ db' = [db EXCEPT !.disk = @ \cup {worker.old.id}]
      /\ worker' = [worker EXCEPT !.pc = "generated"]
      /\ UNCHANGED <<alive, parsed, aliased, told, tasks, queued, running, paused>>
  BY DEF GenerationSucceeds
<1>2. /\ Good(db) /\ Apart(db) /\ worker \in WorkerT /\ worker.media \in Videos
      /\ Held(db, worker.media, worker.old)
      /\ worker.old.id \in Ids /\ worker.old.id <= db.last
  BY <1>1 DEF IInv, DbOK, WorkerOK, Generating, Held
<1>3. Transacts(db, db)
  BY <1>2, KeepsItself DEF Transacts
<1>4. /\ Transacts(db, db') /\ db'.row = db.row /\ db'.link = db.link /\ db'.last = db.last
      /\ db'.cleanups = db.cleanups /\ db'.disk = db.disk \cup {worker.old.id}
  BY <1>1, <1>2, <1>3, WritingFile
<1>5. DbOK'
  <2>1. \A x : /\ (IsShown(db', x) <=> IsShown(db, x))
               /\ \A g : Names(db', x, g) <=> Names(db, x, g)
    BY <1>4 DEF Showing, IsShown, IsAvailable, Names
  <2>2. Aliased(db') = Aliased(db)
    BY <1>4 DEF Aliased, Shown
  <2>3. AliasesSeen' /\ CleanupsUnused' /\ NamesOwn' /\ FilesThere'
    BY <1>1, <1>4, <2>1, <2>2
       DEF IInv, DbOK, AliasesSeen, CleanupsUnused, NamesOwn, FilesThere
  <2>. QED  BY <1>4, <2>3 DEF DbOK, Transacts
<1>6. WorkerOK'
  <2>1. /\ worker' \in WorkerT /\ worker'.pc = "generated" /\ worker'.media = worker.media
        /\ worker'.old = worker.old
    BY <1>1, <1>2 DEF WorkerT, Generating
  <2>2. Held(db', worker.media, worker.old)
    BY <1>2, <1>4 DEF Held, IsThere
  <2>. QED  BY <1>2, <1>4, <2>1, <2>2 DEF WorkerOK
<1>7. QueueOK' /\ Others'
  BY <1>1 DEF IInv, QueueOK, Others
<1>8. NoCleanupIsForgotten'
  BY <1>1, <1>4 DEF IInv, NoCleanupIsForgotten
<1>. QED  BY <1>5, <1>6, <1>7, <1>8 DEF IInv

LEMMA StepStore ==
    ASSUME IInv, Store
    PROVE  IInv'
<1>1. /\ worker.pc = "generated"
      /\ UNCHANGED <<alive, parsed, tasks, queued, running, paused>>
  BY DEF Store
<1>2. /\ Good(db) /\ Apart(db) /\ worker.media \in Videos
      /\ Held(db, worker.media, worker.old) /\ worker.old.id \in db.disk
  BY <1>1 DEF IInv, DbOK, WorkerOK, Generating
<1>3. CASE LosesItsRow(worker.media, worker.old)
  <2>1. worker' = [Idle EXCEPT !.pc = "dead"] /\ UNCHANGED <<db, told, aliased>>
    BY <1>3 DEF Store
  <2>2. DbOK'
    BY <1>1, <2>1, SameDb DEF Database
  <2>3. worker' \in WorkerT /\ worker'.pc = "dead"
    BY <2>1, IdleWorker DEF WorkerT
  <2>4. WorkerOK' /\ NoCleanupIsForgotten'
    BY <2>3 DEF WorkerOK, Generating, NoCleanupIsForgotten
  <2>5. QueueOK' /\ Others'
    BY <1>1, <2>1 DEF IInv, QueueOK, Others
  <2>. QED  BY <2>2, <2>4, <2>5 DEF IInv
<1>4. CASE ~LosesItsRow(worker.media, worker.old)
  <2>. DEFINE d == Replace(db, worker.media, worker.old, Generated(worker.old.id)).db
  <2>1. worker' = Idle /\ Commit(d)
    BY <1>4 DEF Store
  <2>2. Transacts(db, d)
    <3>. HIDE DEF d
    <3>. QED  BY <1>2, <1>4, Storing DEF d
  <2>. HIDE DEF d
  <2>3. WorkerOK'
    BY <2>1, IdleWorker DEF WorkerOK, Generating
  <2>. QED  BY <1>1, <2>1, <2>2, <2>3, ByThread
<1>. QED  BY <1>3, <1>4

LEMMA Inductive == IInv /\ [Next]_vars => IInv'
<1>. SUFFICES ASSUME IInv, [Next]_vars PROVE IInv'
  OBVIOUS
<1>1. ASSUME NEW m \in Media, parseAudioFile(m) \/ parseVideoFile(m) \/ DeleteMedia(m)
      PROVE  IInv'
  BY <1>1, StepAudio, StepVideo, StepDelete
<1>2. ASSUME NEW e \in Illustrated, SetUserThumbnail(e) PROVE IInv'
  BY <1>2, StepUser
<1>3. CASE flushUserProvided
  BY <1>3, StepFlush
<1>4. ASSUME NEW m \in Videos, requestThumbnail(m) PROVE IInv'
  BY <1>4, StepRequest
<1>5. CASE requestCleanupRun \/ pause \/ resume \/ stop
  BY <1>5, StepCleanup, StepPause, StepStop
<1>6. CASE Thumbnailer
  BY <1>6, StepTake, StepServe, StepBegin, StepQuiet, StepFail, StepSucceed, StepStore
     DEF Thumbnailer
<1>7. CASE UNCHANGED vars
  <2>1. UNCHANGED <<Database, told, tasks, queued, worker, running, paused>>
    BY <1>7 DEF vars, Database
  <2>2. DbOK' /\ UNCHANGED <<db, alive, parsed, aliased>>
    BY <2>1, SameDb
  <2>3. WorkerOK'
    BY <2>1, <2>2, SameWorker DEF IInv
  <2>4. QueueOK' /\ Others' /\ NoCleanupIsForgotten'
    BY <2>1, <2>2 DEF IInv, QueueOK, Others, NoCleanupIsForgotten
  <2>. QED  BY <2>2, <2>3, <2>4 DEF IInv
<1>. QED  BY <1>1, <1>2, <1>3, <1>4, <1>5, <1>6, <1>7 DEF Next

LEMMA Always == Spec => []IInv
BY Initially, Inductive, PTL DEF Spec

-----------------------------------------------------------------------------
(* The theorems.                                                           *)

LEMMA QueueSize == QueueOK => Cardinality(queued) = Len(tasks)
<1>. SUFFICES ASSUME QueueOK PROVE Cardinality(queued) = Len(tasks)
  OBVIOUS
<1>. DEFINE n == Len(tasks)
<1>1. n \in Nat /\ DOMAIN tasks = 1 .. n /\ tasks \in [1 .. n -> queued]
  BY DEF QueueOK
<1>. HIDE DEF n
<1>2. tasks \in Surjection(1 .. n, queued)
  BY <1>1 DEF QueueOK, Surjection
<1>3. \A i, j \in 1 .. n : tasks[i] = tasks[j] => i = j
  BY <1>1 DEF QueueOK
<1>4. tasks \in Injection(1 .. n, queued)
  BY <1>1, <1>3, Zenon DEF Injection, IsInjective
<1>5. IsFiniteSet(1 .. n) /\ Cardinality(1 .. n) = n
  <2>1. 1 \in Int /\ n \in Int
    BY <1>1
  <2>2. IsFiniteSet(1 .. n) /\ Cardinality(1 .. n) = IF 1 > n THEN 0 ELSE n - 1 + 1
    BY <2>1, FS_Interval
  <2>. QED  BY <1>1, <2>2
<1>6. Cardinality(queued) = Cardinality(1 .. n)
  BY <1>2, <1>4, <1>5, FS_Surjection
<1>. QED  BY <1>5, <1>6 DEF n

\* The database holds what its tables say, every link names a row that exists
\* (Thumbnail.cpp:525) and every file was written for a row; the queue holds a
\* media once, whatever is requested, paused and stopped (ThumbnailerWorker.cpp:65).
THEOREM TypeCorrect == Spec => []TypeOK
<1>1. IInv => TypeOK
  <2>. SUFFICES ASSUME IInv PROVE TypeOK
    OBVIOUS
  <2>1. /\ Good(db) /\ db \in DbT /\ db.last \in 0 .. MaxRows
        /\ db.disk \subseteq Ids /\ db.cleanups \subseteq Ids
    BY DEF IInv, DbOK, Good, DbT
  <2>2. db.row \in [Ids -> Row]
    <3>1. ASSUME NEW x \in Ids PROVE db.row[x] \in Row
      <4>1. db.row[x] \in RowT /\ db.row[x].shared = Cardinality(Showing(db, x))
        BY <2>1 DEF DbT, Good, Fits
      <4>2. Cardinality(Showing(db, x)) \in 0 .. Cardinality(Entities)
        BY Constants, FS_Subset, FS_CardinalityType DEF Showing
      <4>. QED  BY <4>1, <4>2 DEF RowT, Row, Status, File, Hash
    <3>2. db.row = [x \in Ids |-> db.row[x]]
      BY <2>1 DEF DbT
    <3>. QED  BY <3>1, <3>2
  <2>3. \A e \in Shown(db) : db.row[db.link[e].id].status # "Missing"
    BY <2>1, Linked DEF Shown, IsThere
  <2>4. db.disk \subseteq 1 .. db.last /\ db.cleanups \subseteq 1 .. db.last
    BY <2>1 DEF Good, Known, Ids
  <2>5. queued = {tasks[i] : i \in DOMAIN tasks} /\ Cardinality(queued) = Len(tasks)
    BY QueueSize DEF IInv, QueueOK
  <2>6. parsed \subseteq Tracks \cap alive /\ alive \subseteq Media
    BY DEF IInv, Others
  <2>7. worker.pc \in {"idle", "taken", "generating", "generated", "cleaning", "dead", "exited"}
    BY DEF IInv, WorkerOK, WorkerT, Generating
  <2>. QED  BY <2>1, <2>2, <2>3, <2>4, <2>5, <2>6, <2>7 DEF TypeOK
<1>. QED  BY <1>1, Always, PTL

\* Each row counts the entities that show it, whatever order the analyzer, the application
\* and the thumbnailer change them in: the triggers of Thumbnail.cpp:616.
THEOREM CountersAlwaysExact == Spec => []SharedCounterIsExact
<1>1. IInv => SharedCounterIsExact
  <2>1. \A x \in Ids : {e \in Shown(db) : db.link[e].id = x} = Showing(db, x)
    BY DEF Shown, Showing, Ids
  <2>. QED  BY <2>1 DEF IInv, DbOK, Good, Fits, SharedCounterIsExact
<1>. QED  BY <1>1, Always, PTL

\* A thumbnail that is shown as available has its file on disk, as long as no other has
\* named the same file: the cleanup requests of deleted rows (Thumbnail.cpp:677) and the
\* thread that serves them late (ThumbnailerWorker.cpp:88) never remove a file in use.
THEOREM ShownFilesAlwaysExist == Spec => []ShownFilesExist
<1>1. IInv => ShownFilesExist
  <2>. SUFFICES ASSUME IInv, NEW e \in Shown(db), IsAvailable(db, db.link[e].id),
                       db.row[db.link[e].id].file \in Ids \ aliased
                PROVE  db.row[db.link[e].id].file \in db.disk
    BY DEF ShownFilesExist, IsOwned, IsAvailable
  <2>1. IsShown(db, db.link[e].id) /\ db.link[e].id \in Ids
    BY Linked DEF IInv, DbOK, Shown
  <2>. QED  BY <2>1 DEF IInv, DbOK, FilesThere, Names
<1>. QED  BY <1>1, Always, PTL

\* As long as the request to remove a file stands, the notifier, the queue or the thread
\* holds it, through pauses and repeated notifications, unless the thumbnailer has stopped
\* or the file cannot be removed (ModificationsNotifier.cpp:333, ThumbnailerWorker.cpp:88).
THEOREM CleanupsNeverForgotten == Spec => []NoCleanupIsForgotten
BY Always, PTL DEF IInv

=============================================================================
