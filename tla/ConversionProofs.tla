-------------------------- MODULE ConversionProofs -------------------------
(***************************************************************************)
(* Theorems about the two conversions, for any points, lengths and texts,  *)
(* and for a message of any length passed to update in calls of any size.  *)
(***************************************************************************)
EXTENDS ElementCodec, Sha256, SequenceTheorems, TLAPS

\* No two places of a row hold the same name.
OneToOne(row) ==
  \A i \in DOMAIN row : \A j \in DOMAIN row : row[i] = row[j] => i = j

\* In a row without repetition a name is found at its own place.
LEMMA PlaceOfName ==
  ASSUME NEW row, OneToOne(row), NEW i \in DOMAIN row
  PROVE  row[i] \in Names(row) /\ Place(row, row[i]) = i
<1>1. Place(row, row[i]) \in DOMAIN row /\ row[Place(row, row[i])] = row[i]
  BY DEF Place
<1>. QED  BY <1>1 DEF OneToOne, Names

\* The types are those of the enumeration.
LEMMA TypesAreNine ==
  Types = {"Path", "Line", "Circle", "Triangle", "Square", "Text", "StickyNote",
           "Picture", "Null"}
BY DEF Types, Fields

\* A row without names repeats none.
LEMMA RowOfNone == DOMAIN <<>> = {} /\ OneToOne(<<>>)
BY DEF OneToOne

\* One name is at place 1.
LEMMA RowOfOne ==
  ASSUME NEW a, NEW row, row = <<a>>
  PROVE  DOMAIN row = {1} /\ row[1] = a /\ OneToOne(row)
BY DEF OneToOne

\* Two names are at places 1 and 2.
LEMMA RowOfTwo ==
  ASSUME NEW a, NEW b, NEW row, row = <<a, b>>, a # b
  PROVE  DOMAIN row = {1, 2} /\ row[1] = a /\ row[2] = b /\ OneToOne(row)
BY DEF OneToOne

\* Three names are at places 1, 2 and 3.
LEMMA RowOfThree ==
  ASSUME NEW a, NEW b, NEW c, NEW row, row = <<a, b, c>>, a # b, a # c, b # c
  PROVE  DOMAIN row = {1, 2, 3} /\ row[1] = a /\ row[2] = b /\ row[3] = c /\ OneToOne(row)
BY DEF OneToOne

\* The members of an object.
LEMMA FieldsOfObject ==
  DOMAIN Fresh = {"type", "path_points", "pos1", "pos2", "pos3", "side1", "content", "filename"}
BY DEF Fresh

\* The three tables fit together: the rows of a type are equally long and
\* without repetition, no getter reads the type, and the parser reads each
\* field where it was written, but for the file name.
LEMMA TablesFit ==
  ASSUME NEW t \in Types
  PROVE  /\ DOMAIN Written[t] = DOMAIN Fields[t] /\ DOMAIN Parsed[t] = DOMAIN Fields[t]
         /\ OneToOne(Fields[t]) /\ OneToOne(Written[t])
         /\ \A i \in DOMAIN Fields[t] :
              /\ Fields[t][i] \in DOMAIN Fresh /\ Fields[t][i] # "type"
              /\ Fields[t][i] # "filename" =>
                   Parsed[t][i] = Written[t][i] /\ Parsed[t][i] # "own_filename"
<1>1. CASE t = "Path"
  <2>1. DOMAIN Fields[t] = {1} /\ Fields[t][1] = "path_points"
        /\ OneToOne(Fields[t])
    <3>1. Fields[t] = <<"path_points">>
      BY <1>1 DEF Fields
    <3>. QED  BY <3>1, RowOfOne
  <2>2. DOMAIN Written[t] = {1} /\ Written[t][1] = "points"
        /\ OneToOne(Written[t])
    <3>1. Written[t] = <<"points">>
      BY <1>1 DEF Written
    <3>. QED  BY <3>1, RowOfOne
  <2>3. DOMAIN Parsed[t] = {1} /\ Parsed[t][1] = "points"
        /\ OneToOne(Parsed[t])
    <3>1. Parsed[t] = <<"points">>
      BY <1>1 DEF Parsed, Written
    <3>. QED  BY <3>1, RowOfOne
  <2>. QED  BY <2>1, <2>2, <2>3, FieldsOfObject
<1>2. CASE t = "Line"
  <2>1. DOMAIN Fields[t] = {1, 2} /\ Fields[t][1] = "pos1" /\ Fields[t][2] = "pos2"
        /\ OneToOne(Fields[t])
    <3>1. Fields[t] = <<"pos1", "pos2">>
      BY <1>2 DEF Fields
    <3>. QED  BY <3>1, RowOfTwo
  <2>2. /\ DOMAIN Written[t] = {1, 2}
        /\ Written[t][1] = "start" /\ Written[t][2] = "end"
        /\ OneToOne(Written[t])
    <3>1. Written[t] = <<"start", "end">>
      BY <1>2 DEF Written
    <3>. QED  BY <3>1, RowOfTwo
  <2>3. DOMAIN Parsed[t] = {1, 2} /\ Parsed[t][1] = "start" /\ Parsed[t][2] = "end"
        /\ OneToOne(Parsed[t])
    <3>1. Parsed[t] = <<"start", "end">>
      BY <1>2 DEF Parsed, Written
    <3>. QED  BY <3>1, RowOfTwo
  <2>. QED  BY <2>1, <2>2, <2>3, FieldsOfObject
<1>3. CASE t = "Circle"
  <2>1. DOMAIN Fields[t] = {1, 2} /\ Fields[t][1] = "pos1" /\ Fields[t][2] = "side1"
        /\ OneToOne(Fields[t])
    <3>1. Fields[t] = <<"pos1", "side1">>
      BY <1>3 DEF Fields
    <3>. QED  BY <3>1, RowOfTwo
  <2>2. /\ DOMAIN Written[t] = {1, 2}
        /\ Written[t][1] = "center" /\ Written[t][2] = "radius"
        /\ OneToOne(Written[t])
    <3>1. Written[t] = <<"center", "radius">>
      BY <1>3 DEF Written
    <3>. QED  BY <3>1, RowOfTwo
  <2>3. /\ DOMAIN Parsed[t] = {1, 2}
        /\ Parsed[t][1] = "center" /\ Parsed[t][2] = "radius"
        /\ OneToOne(Parsed[t])
    <3>1. Parsed[t] = <<"center", "radius">>
      BY <1>3 DEF Parsed, Written
    <3>. QED  BY <3>1, RowOfTwo
  <2>. QED  BY <2>1, <2>2, <2>3, FieldsOfObject
<1>4. CASE t = "Triangle"
  <2>1. /\ DOMAIN Fields[t] = {1, 2, 3}
        /\ Fields[t][1] = "pos1" /\ Fields[t][2] = "pos2" /\ Fields[t][3] = "pos3"
        /\ OneToOne(Fields[t])
    <3>1. Fields[t] = <<"pos1", "pos2", "pos3">>
      BY <1>4 DEF Fields
    <3>. QED  BY <3>1, RowOfThree
  <2>2. /\ DOMAIN Written[t] = {1, 2, 3}
        /\ Written[t][1] = "point1" /\ Written[t][2] = "point2"
        /\ Written[t][3] = "point3"
        /\ OneToOne(Written[t])
    <3>1. Written[t] = <<"point1", "point2", "point3">>
      BY <1>4 DEF Written
    <3>. QED  BY <3>1, RowOfThree
  <2>3. /\ DOMAIN Parsed[t] = {1, 2, 3}
        /\ Parsed[t][1] = "point1" /\ Parsed[t][2] = "point2"
        /\ Parsed[t][3] = "point3"
        /\ OneToOne(Parsed[t])
    <3>1. Parsed[t] = <<"point1", "point2", "point3">>
      BY <1>4 DEF Parsed, Written
    <3>. QED  BY <3>1, RowOfThree
  <2>. QED  BY <2>1, <2>2, <2>3, FieldsOfObject
<1>5. CASE t = "Square"
  <2>1. DOMAIN Fields[t] = {1, 2} /\ Fields[t][1] = "pos1" /\ Fields[t][2] = "side1"
        /\ OneToOne(Fields[t])
    <3>1. Fields[t] = <<"pos1", "side1">>
      BY <1>5 DEF Fields
    <3>. QED  BY <3>1, RowOfTwo
  <2>2. /\ DOMAIN Written[t] = {1, 2}
        /\ Written[t][1] = "topleft" /\ Written[t][2] = "side_length"
        /\ OneToOne(Written[t])
    <3>1. Written[t] = <<"topleft", "side_length">>
      BY <1>5 DEF Written
    <3>. QED  BY <3>1, RowOfTwo
  <2>3. /\ DOMAIN Parsed[t] = {1, 2}
        /\ Parsed[t][1] = "topleft" /\ Parsed[t][2] = "side_length"
        /\ OneToOne(Parsed[t])
    <3>1. Parsed[t] = <<"topleft", "side_length">>
      BY <1>5 DEF Parsed, Written
    <3>. QED  BY <3>1, RowOfTwo
  <2>. QED  BY <2>1, <2>2, <2>3, FieldsOfObject
<1>6. CASE t = "Text"
  <2>1. /\ DOMAIN Fields[t] = {1, 2}
        /\ Fields[t][1] = "pos1" /\ Fields[t][2] = "content"
        /\ OneToOne(Fields[t])
    <3>1. Fields[t] = <<"pos1", "content">>
      BY <1>6 DEF Fields
    <3>. QED  BY <3>1, RowOfTwo
  <2>2. /\ DOMAIN Written[t] = {1, 2}
        /\ Written[t][1] = "center" /\ Written[t][2] = "content"
        /\ OneToOne(Written[t])
    <3>1. Written[t] = <<"center", "content">>
      BY <1>6 DEF Written
    <3>. QED  BY <3>1, RowOfTwo
  <2>3. /\ DOMAIN Parsed[t] = {1, 2}
        /\ Parsed[t][1] = "center" /\ Parsed[t][2] = "content"
        /\ OneToOne(Parsed[t])
    <3>1. Parsed[t] = <<"center", "content">>
      BY <1>6 DEF Parsed, Written
    <3>. QED  BY <3>1, RowOfTwo
  <2>. QED  BY <2>1, <2>2, <2>3, FieldsOfObject
<1>7. CASE t = "StickyNote"
  <2>1. /\ DOMAIN Fields[t] = {1, 2, 3}
        /\ Fields[t][1] = "pos1" /\ Fields[t][2] = "side1"
        /\ Fields[t][3] = "content"
        /\ OneToOne(Fields[t])
    <3>1. Fields[t] = <<"pos1", "side1", "content">>
      BY <1>7 DEF Fields
    <3>. QED  BY <3>1, RowOfThree
  <2>2. /\ DOMAIN Written[t] = {1, 2, 3}
        /\ Written[t][1] = "center" /\ Written[t][2] = "side_length"
        /\ Written[t][3] = "content"
        /\ OneToOne(Written[t])
    <3>1. Written[t] = <<"center", "side_length", "content">>
      BY <1>7 DEF Written
    <3>. QED  BY <3>1, RowOfThree
  <2>3. /\ DOMAIN Parsed[t] = {1, 2, 3}
        /\ Parsed[t][1] = "center" /\ Parsed[t][2] = "side_length"
        /\ Parsed[t][3] = "content"
        /\ OneToOne(Parsed[t])
    <3>1. Parsed[t] = <<"center", "side_length", "content">>
      BY <1>7 DEF Parsed, Written
    <3>. QED  BY <3>1, RowOfThree
  <2>. QED  BY <2>1, <2>2, <2>3, FieldsOfObject
<1>8. CASE t = "Picture"
  <2>1. /\ DOMAIN Fields[t] = {1, 2, 3}
        /\ Fields[t][1] = "pos1" /\ Fields[t][2] = "content"
        /\ Fields[t][3] = "filename"
        /\ OneToOne(Fields[t])
    <3>1. Fields[t] = <<"pos1", "content", "filename">>
      BY <1>8 DEF Fields
    <3>. QED  BY <3>1, RowOfThree
  <2>2. /\ DOMAIN Written[t] = {1, 2, 3}
        /\ Written[t][1] = "center" /\ Written[t][2] = "data"
        /\ Written[t][3] = "file_name"
        /\ OneToOne(Written[t])
    <3>1. Written[t] = <<"center", "data", "file_name">>
      BY <1>8 DEF Written
    <3>. QED  BY <3>1, RowOfThree
  <2>3. /\ DOMAIN Parsed[t] = {1, 2, 3}
        /\ Parsed[t][1] = "center" /\ Parsed[t][2] = "data"
        /\ Parsed[t][3] = "own_filename"
        /\ OneToOne(Parsed[t])
    <3>1. Parsed[t] = <<"center", "data", "own_filename">>
      BY <1>8 DEF Parsed, Written
    <3>. QED  BY <3>1, RowOfThree
  <2>. QED  BY <2>1, <2>2, <2>3, FieldsOfObject
<1>9. CASE t = "Null"
  <2>1. DOMAIN Fields[t] = {}
        /\ OneToOne(Fields[t])
    <3>1. Fields[t] = <<>>
      BY <1>9 DEF Fields
    <3>. QED  BY <3>1, RowOfNone
  <2>2. DOMAIN Written[t] = {}
        /\ OneToOne(Written[t])
    <3>1. Written[t] = <<>>
      BY <1>9 DEF Written
    <3>. QED  BY <3>1, RowOfNone
  <2>3. DOMAIN Parsed[t] = {}
        /\ OneToOne(Parsed[t])
    <3>1. Parsed[t] = <<>>
      BY <1>9 DEF Parsed, Written
    <3>. QED  BY <3>1, RowOfNone
  <2>. QED  BY <2>1, <2>2, <2>3, FieldsOfObject
<1>. QED  BY TypesAreNine, <1>1, <1>2, <1>3, <1>4, <1>5, <1>6, <1>7, <1>8, <1>9

\* An object has all the members and is of one of the types.
ElementInv == element.type \in Types /\ DOMAIN element = DOMAIN Fresh

\* What a constructor makes of an object is of its type, has the arguments in
\* the fields of the type and is as it was in the others.
LEMMA ObjectMade ==
  ASSUME NEW e, NEW t \in Types, NEW a, DOMAIN e = DOMAIN Fresh, NEW m, m = Made(e, t, a)
  PROVE  /\ DOMAIN m = DOMAIN Fresh /\ m.type = t
         /\ \A i \in DOMAIN Fields[t] : m[Fields[t][i]] = a[i]
<1>1. m = [f \in DOMAIN Fresh |->
             IF f = "type" THEN t
             ELSE IF f \in Names(Fields[t]) THEN a[Place(Fields[t], f)]
             ELSE e[f]]
  BY DEF Made
<1>2. "type" \in DOMAIN Fresh
  BY FieldsOfObject
<1>3. DOMAIN m = DOMAIN Fresh /\ m.type = t
  BY <1>1, <1>2
<1>4. ASSUME NEW i \in DOMAIN Fields[t] PROVE m[Fields[t][i]] = a[i]
  <2>1. Fields[t][i] \in DOMAIN Fresh /\ Fields[t][i] # "type"
    BY TablesFit
  <2>2. Fields[t][i] \in Names(Fields[t]) /\ Place(Fields[t], Fields[t][i]) = i
    BY TablesFit, PlaceOfName
  <2>. QED  BY <1>1, <2>1, <2>2
<1>. QED  BY <1>3, <1>4

\* What to_protobuf writes of an object into the fields of its type.
LEMMA MessageWritten ==
  ASSUME NEW e, e.type \in Types, NEW m, m = ToProtobuf(e)
  PROVE  /\ m.kind = e.type
         /\ \A i \in DOMAIN Fields[e.type] :
              m.fields[Written[e.type][i]] = Observed(e)[i]
<1>1. /\ m.kind = e.type
      /\ m.fields = [f \in Names(Written[e.type]) |-> Observed(e)[Place(Written[e.type], f)]]
  BY DEF ToProtobuf
<1>2. ASSUME NEW i \in DOMAIN Fields[e.type]
      PROVE  m.fields[Written[e.type][i]] = Observed(e)[i]
  <2>1. i \in DOMAIN Written[e.type] /\ OneToOne(Written[e.type])
    BY TablesFit
  <2>2. /\ Written[e.type][i] \in Names(Written[e.type])
        /\ Place(Written[e.type], Written[e.type][i]) = i
    BY <2>1, PlaceOfName
  <2>. QED  BY <1>1, <2>2
<1>. QED  BY <1>1, <1>2

\* An object that a message of another was parsed into.
LEMMA ObjectParsed ==
  ASSUME NEW e, e.type \in Types, NEW filename, NEW r,
         r = FromProtobuf(filename, ToProtobuf(e))
  PROVE  /\ r.type = e.type /\ DOMAIN r = DOMAIN Fresh
         /\ \A i \in DOMAIN Fields[e.type] :
              Fields[e.type][i] # "filename" => Observed(r)[i] = Observed(e)[i]
<1>. DEFINE m    == ToProtobuf(e)
            args == [i \in DOMAIN Parsed[m.kind] |->
                       IF Parsed[m.kind][i] = "own_filename" THEN filename
                       ELSE m.fields[Parsed[m.kind][i]]]
<1>1. /\ m.kind = e.type
      /\ \A i \in DOMAIN Fields[e.type] :
           m.fields[Written[e.type][i]] = Observed(e)[i]
  BY MessageWritten
<1>2. r = IF m.kind = "Null" THEN Fresh ELSE Made(Fresh, m.kind, args)
  BY DEF FromProtobuf
<1>. HIDE DEF m, args
<1>3. CASE e.type = "Null"
  <2>1. r = Fresh
    BY <1>1, <1>2, <1>3
  <2>2. r.type = "Null" /\ DOMAIN r = DOMAIN Fresh
    <3>1. Fresh.type = "Null"
      BY DEF Fresh
    <3>. QED  BY <2>1, <3>1
  <2>3. DOMAIN Fields[e.type] = {}
    <3>1. Fields[e.type] = <<>>
      BY <1>3 DEF Fields
    <3>. QED  BY <3>1, RowOfNone
  <2>. QED  BY <1>3, <2>2, <2>3
<1>4. CASE e.type # "Null"
  <2>1. r = Made(Fresh, e.type, args)
    BY <1>1, <1>2, <1>4
  <2>2. /\ DOMAIN r = DOMAIN Fresh /\ r.type = e.type
        /\ \A i \in DOMAIN Fields[e.type] : r[Fields[e.type][i]] = args[i]
    BY <2>1, ObjectMade
  <2>3. ASSUME NEW i \in DOMAIN Fields[e.type], Fields[e.type][i] # "filename"
        PROVE  Observed(r)[i] = Observed(e)[i]
    <3>1. Observed(r)[i] = r[Fields[e.type][i]]
      BY <2>2 DEF Observed
    <3>2. /\ i \in DOMAIN Parsed[e.type]
          /\ Parsed[e.type][i] = Written[e.type][i]
          /\ Parsed[e.type][i] # "own_filename"
      BY <2>3, TablesFit
    <3>3. args[i] = m.fields[Written[e.type][i]]
      BY <1>1, <3>2 DEF args
    <3>. QED  BY <1>1, <2>2, <2>3, <3>1, <3>3
  <2>. QED  BY <2>2, <2>3
<1>. QED  BY <1>3, <1>4

\* Constructors and transfers make objects of one of the types.
LEMMA ElementKeeps ==
  /\ ElementInit => ElementInv
  /\ ElementInv /\ [ElementNext]_element => ElementInv'
<1>1. ElementInit => ElementInv
  <2>1. Fresh.type = "Null"
    BY DEF Fresh
  <2>. QED  BY <2>1, TypesAreNine DEF ElementInit, ElementInv
<1>2. ASSUME ElementInv, NEW type \in Types, New(type) PROVE ElementInv'
  <2>1. PICK a \in Arguments(type) : element' = Made(element, type, a)
    BY <1>2 DEF New
  <2>. QED  BY <1>2, <2>1, ObjectMade DEF ElementInv
<1>3. ASSUME ElementInv, Transfer PROVE ElementInv'
  <2>1. PICK filename \in Texts \cup {""} :
          element' = FromProtobuf(filename, ToProtobuf(element))
    BY <1>3 DEF Transfer
  <2>. QED  BY <1>3, <2>1, ObjectParsed DEF ElementInv
<1>4. ASSUME ElementInv, UNCHANGED element PROVE ElementInv'
  BY <1>4 DEF ElementInv
<1>. QED  BY <1>1, <1>2, <1>3, <1>4 DEF ElementNext

\* Every object is of one of the types and has all its members.
THEOREM ElementsAreTyped == ElementSpec => []ElementInv
<1>1. ElementInit => ElementInv
  BY ElementKeeps
<1>2. ElementInv /\ [ElementNext]_element => ElementInv'
  BY ElementKeeps
<1>. QED  BY <1>1, <1>2, PTL DEF ElementSpec

\* Two objects have the same message just when they show the same.
LEMMA SameMessage ==
  ASSUME NEW e, e.type \in Types, NEW d, d.type \in Types
  PROVE  ToProtobuf(e) = ToProtobuf(d) <=> e.type = d.type /\ Observed(e) = Observed(d)
<1>1. ASSUME ToProtobuf(e) = ToProtobuf(d) PROVE e.type = d.type /\ Observed(e) = Observed(d)
  <2>1. /\ ToProtobuf(e).kind = e.type
        /\ \A i \in DOMAIN Fields[e.type] :
             ToProtobuf(e).fields[Written[e.type][i]] = Observed(e)[i]
    BY MessageWritten
  <2>2. /\ ToProtobuf(d).kind = d.type
        /\ \A i \in DOMAIN Fields[d.type] :
             ToProtobuf(d).fields[Written[d.type][i]] = Observed(d)[i]
    BY MessageWritten
  <2>3. e.type = d.type
    BY <1>1, <2>1, <2>2
  <2>4. \A i \in DOMAIN Fields[e.type] : Observed(e)[i] = Observed(d)[i]
    BY <1>1, <2>1, <2>2, <2>3
  <2>5. /\ Observed(e) = [i \in DOMAIN Fields[e.type] |-> Observed(e)[i]]
        /\ Observed(d) = [i \in DOMAIN Fields[e.type] |-> Observed(d)[i]]
    BY <2>3 DEF Observed
  <2>. QED  BY <2>3, <2>4, <2>5
<1>2. ASSUME e.type = d.type, Observed(e) = Observed(d) PROVE ToProtobuf(e) = ToProtobuf(d)
  BY <1>2 DEF ToProtobuf
<1>. QED  BY <1>1, <1>2

\* A new element is of one of the types.
LEMMA FreshElementsAreTyped == \A e \in FreshElements : e.type \in Types
<1>1. Fresh.type \in Types
  BY TypesAreNine DEF Fresh
<1>2. ASSUME NEW t \in Types, NEW a PROVE Made(Fresh, t, a).type \in Types
  BY ObjectMade
<1>. QED  BY <1>1, <1>2 DEF FreshElements

\* Whatever an object was before, its serialised form is that of the elements
\* that are of its kind and show the same, and of no other.
THEOREM SerialisedFormsIdentify == ElementSpec => []SerialisedFormIdentifies
<1>1. ElementInv => SerialisedFormIdentifies
  <2>1. SUFFICES ASSUME ElementInv, NEW e \in FreshElements
                 PROVE  ToProtobuf(e) = ToProtobuf(element)
                          <=> e.type = element.type /\ Observed(e) = Observed(element)
    BY DEF SerialisedFormIdentifies
  <2>2. e.type \in Types /\ element.type \in Types
    BY <2>1, FreshElementsAreTyped DEF ElementInv
  <2>. QED  BY <2>2, SameMessage
<1>. QED  BY <1>1, ElementsAreTyped, PTL

\* An element of any kind that went to the board and back shows what it showed
\* before, but for the file name of a picture.
THEOREM TransfersKeepElements == ElementSpec => TransferKeepsElement
<1>. DEFINE Kept == /\ element'.type = element.type
                    /\ \A i \in DOMAIN Fields[element.type] :
                         Fields[element.type][i] # "filename" =>
                           Observed(element')[i] = Observed(element)[i]
<1>1. ASSUME ElementInv, Transfer PROVE Kept
  <2>1. PICK filename \in Texts \cup {""} :
          element' = FromProtobuf(filename, ToProtobuf(element))
    BY <1>1 DEF Transfer
  <2>. QED  BY <1>1, <2>1, ObjectParsed, ZenonT(60) DEF ElementInv
<1>2. ElementInv /\ [ElementNext]_element => [Transfer => Kept]_element
  BY <1>1
<1>. QED  BY <1>2, ElementsAreTyped, PTL DEF ElementSpec, TransferKeepsElement

-----------------------------------------------------------------------------
\* What a byte of a block may be.
Octets ==
  {Uninitialised} \cup {Message(i) : i \in Nat} \cup {Padding(0), Padding(128)}
    \cup {Padding(Byte(n, k)) : n \in Nat, k \in 0 .. 7}

\* What m_data may hold.
Buffers == [0 .. 63 -> Octets]

Objects ==
  [data : Buffers, blocklen : 0 .. 63, bitlen : Nat,
   blocks : Seq([1 .. 64 -> Octets])]

HashTypeOK ==
  /\ sha \in Objects
  /\ ahead \in Nat /\ length \in Nat
  /\ digested \in BOOLEAN

\* The blocks of an object hold the first len bytes of the message up to the
\* last full block, and m_data begins with what came after it.
HoldsMessage(s, len) ==
  /\ len = 64 * Len(s.blocks) + s.blocklen
  /\ s.bitlen = 512 * Len(s.blocks)
  /\ \A b \in 1 .. Len(s.blocks), j \in 1 .. 64 :
       s.blocks[b][j] = Message(64 * (b - 1) + j)
  /\ \A i \in 0 .. 63 :
       i < s.blocklen => s.data[i] = Message(64 * Len(s.blocks) + i + 1)

HInv ==
  /\ HashTypeOK
  /\ ~digested => HoldsMessage(sha, length)
  /\ digested => ahead = 0
  /\ DigestsPaddedMessage

Object(data, blocklen, bitlen, blocks) ==
  [data |-> data, blocklen |-> blocklen, bitlen |-> bitlen, blocks |-> blocks]

\* The fields of an object.
LEMMA ObjectFields ==
  ASSUME NEW s \in Objects
  PROVE  /\ s.data \in Buffers /\ s.blocklen \in 0 .. 63 /\ s.bitlen \in Nat
         /\ s.blocks \in Seq([1 .. 64 -> Octets]) /\ Len(s.blocks) \in Nat
         /\ s = Object(s.data, s.blocklen, s.bitlen, s.blocks)
<1>1. /\ s.data \in Buffers /\ s.blocklen \in 0 .. 63 /\ s.bitlen \in Nat
      /\ s.blocks \in Seq([1 .. 64 -> Octets])
      /\ s = Object(s.data, s.blocklen, s.bitlen, s.blocks)
  BY DEF Objects, Object
<1>. QED  BY <1>1, LenProperties

\* What transform and the assignments of one field do to an object.
LEMMA ObjectUpdates ==
  ASSUME NEW d, NEW n, NEW l, NEW bs, NEW s, s = Object(d, n, l, bs)
  PROVE  /\ s.data = d /\ s.blocklen = n /\ s.bitlen = l /\ s.blocks = bs
         /\ Transform(s) = Object(d, n, l, Append(bs, BlockOf(d)))
         /\ \A f : [s EXCEPT !.data = f] = Object(f, n, l, bs)
<1>1. s.data = d /\ s.blocklen = n /\ s.bitlen = l /\ s.blocks = bs
  BY DEF Object
<1>2. Transform(s) = Object(d, n, l, Append(bs, BlockOf(d)))
  BY DEF Transform, Object
<1>3. \A f : [s EXCEPT !.data = f] = Object(f, n, l, bs)
  BY DEF Object
<1>. QED  BY <1>1, <1>2, <1>3

\* A block is the bytes of m_data in order.
LEMMA BlockOfData ==
  ASSUME NEW d \in Buffers
  PROVE  BlockOf(d) \in [1 .. 64 -> Octets] /\ \A j \in 1 .. 64 : BlockOf(d)[j] = d[j - 1]
BY DEF BlockOf, Buffers

\* m_data with one byte assigned to.
Stored(d, n, byte) == [d EXCEPT ![n] = byte]

\* One turn of update's loop stores the byte; with the 64th of a block it
\* passes the block to transform.
LEMMA OneByteAbsorbed ==
  ASSUME NEW d, NEW n \in 0 .. 63, NEW l, NEW bs, NEW byte, NEW t,
         t = Absorb(Object(d, n, l, bs), byte), NEW f, f = Stored(d, n, byte)
  PROVE  t = IF n = 63 THEN Object(f, 0, l + 512, Append(bs, BlockOf(f)))
                       ELSE Object(f, n + 1, l, bs)
<1>1. PICK s : s = Object(d, n, l, bs)
  OBVIOUS
<1>2. PICK u : u = [s EXCEPT !.data[n] = byte, !.blocklen = @ + 1]
  OBVIOUS
<1>3. PICK w : w = Transform(u)
  OBVIOUS
<1>a. PICK v : v = [w EXCEPT !.blocklen = 0, !.bitlen = @ + 512]
  OBVIOUS
<1>4. t = IF u.blocklen = 64 THEN v ELSE u
  <2>1. s.blocklen = n
    BY <1>1, ObjectUpdates
  <2>2. u = [s EXCEPT !.data[s.blocklen] = byte, !.blocklen = @ + 1]
    BY <1>2, <2>1
  <2>. QED  BY <1>1, <1>3, <1>a, <2>2 DEF Absorb
<1>5. u = Object(f, n + 1, l, bs)
  BY <1>1, <1>2 DEF Object, Stored
<1>6. u.blocklen = n + 1 /\ Transform(u) = Object(f, n + 1, l, Append(bs, BlockOf(f)))
  BY <1>5, ObjectUpdates
<1>7. v = Object(f, 0, l + 512, Append(bs, BlockOf(f)))
  <2>1. w = Object(f, n + 1, l, Append(bs, BlockOf(f)))
    BY <1>3, <1>6
  <2>. QED  BY <1>a, <2>1, ZenonT(60) DEF Object
<1>8. u.blocklen = 64 <=> n = 63
  BY <1>6
<1>. QED  BY <1>4, <1>5, <1>7, <1>8

\* The first end bytes of f are the n of d, the byte 0x80, and zeros.
OneAndZeros(f, d, n, end) ==
  \A i \in 0 .. end - 1 :
    f[i] = IF i < n THEN d[i] ELSE IF i = n THEN Padding(128) ELSE Padding(0)

\* m_data after the byte 0x80 and the zeros up to end were written behind n bytes.
Filled(d, n, end) ==
  [i \in 0 .. 63 |->
     CASE i = n             -> Padding(128)
       [] i > n /\ i < end  -> Padding(0)
       [] OTHER             -> d[i]]

\* What pad makes of an object that has room for the length.
LEMMA PaddedInBlock ==
  ASSUME NEW d \in Buffers, NEW n \in 0 .. 63, n < 56, NEW l, NEW bs,
         NEW u, u = Pad(Object(d, n, l, bs))
  PROVE  \E f \in Buffers :
           u = Object(f, n, l, bs) /\ OneAndZeros(f, d, n, 56)
<1>. DEFINE s == Object(d, n, l, bs)
            f == Filled(d, n, 56)
<1>1. Pad(s) = [s EXCEPT !.data = f]
  <2>1. s.data = d /\ s.blocklen = n /\ s.blocklen < 56
    BY ObjectUpdates
  <2>. HIDE DEF s
  <2>2. Pad(s) = [s EXCEPT !.data = Filled(s.data, s.blocklen, 56)]
    BY <2>1 DEF Pad, Filled
  <2>. QED  BY <2>1, <2>2
<1>2. f \in Buffers
  <2>1. Padding(128) \in Octets /\ Padding(0) \in Octets
    BY DEF Octets
  <2>2. \A i \in 0 .. 63 : d[i] \in Octets
    BY DEF Buffers
  <2>. QED  BY <2>1, <2>2 DEF Buffers, Filled
<1>3. OneAndZeros(f, d, n, 56)
  BY DEF OneAndZeros, Filled
<1>. HIDE DEF f
<1>4. Pad(s) = Object(f, n, l, bs)
  BY <1>1, ObjectUpdates
<1>. QED  BY <1>2, <1>3, <1>4

\* What pad makes of an object that has none: another block, and a last one.
LEMMA PaddedInTwo ==
  ASSUME NEW d \in Buffers, NEW n \in 0 .. 63, ~(n < 56), NEW l, NEW bs,
         NEW u, u = Pad(Object(d, n, l, bs))
  PROVE  \E f \in Buffers : \E g \in Buffers :
           /\ u = Object(g, n, l, Append(bs, BlockOf(f)))
           /\ OneAndZeros(f, d, n, 64)
           /\ \A i \in 0 .. 55 : g[i] = Padding(0)
<1>. DEFINE s == Object(d, n, l, bs)
            f == Filled(d, n, 64)
            p == [s EXCEPT !.data = f]
            g == [i \in 0 .. 63 |-> IF i < 56 THEN Padding(0) ELSE f[i]]
<1>1. Pad(s) = [Transform(p) EXCEPT !.data = [i \in 0 .. 63 |->
                  IF i < 56 THEN Padding(0) ELSE p.data[i]]]
  <2>1. s.data = d /\ s.blocklen = n
    BY ObjectUpdates
  <2>. HIDE DEF s
  <2>. QED  BY <2>1 DEF Pad, Filled
<1>2. Padding(128) \in Octets /\ Padding(0) \in Octets
  BY DEF Octets
<1>3. f \in Buffers
  <2>1. \A i \in 0 .. 63 : d[i] \in Octets
    BY DEF Buffers
  <2>. QED  BY <1>2, <2>1 DEF Buffers, Filled
<1>4. OneAndZeros(f, d, n, 64)
  BY DEF OneAndZeros, Filled
<1>. HIDE DEF f
<1>5. p = Object(f, n, l, bs)
  BY ObjectUpdates
<1>. HIDE DEF p
<1>6. p.data = f /\ Transform(p) = Object(f, n, l, Append(bs, BlockOf(f)))
  BY <1>5, ObjectUpdates
<1>7. g \in Buffers /\ \A i \in 0 .. 55 : g[i] = Padding(0)
  BY <1>2, <1>3 DEF Buffers
<1>8. Pad(s) = [Transform(p) EXCEPT !.data = g]
  BY <1>1, <1>6
<1>. HIDE DEF g
<1>9. [Transform(p) EXCEPT !.data = g] = Object(g, n, l, Append(bs, BlockOf(f)))
  BY <1>6, ObjectUpdates
<1>. QED  BY <1>3, <1>4, <1>7, <1>8, <1>9

\* Where the length is written, and the block it completes.
LEMMA LengthWritten ==
  ASSUME NEW d \in Buffers, NEW n, NEW l, NEW bs, l + n * 8 \in Nat
  PROVE  \E f \in Buffers :
           /\ Transform(WithLength(Object(d, n, l, bs)))
                = Object(f, n, l + n * 8, Append(bs, BlockOf(f)))
           /\ \A i \in 0 .. 63 :
                f[i] = IF i < 56 THEN d[i] ELSE Padding(Byte(l + n * 8, 63 - i))
<1>. DEFINE s == Object(d, n, l, bs)
            f == [i \in 0 .. 63 |->
                   IF i < 56 THEN d[i] ELSE Padding(Byte(l + n * 8, 63 - i))]
<1>1. f \in Buffers
  <2>1. ASSUME NEW i \in 0 .. 63, ~(i < 56)
        PROVE  Padding(Byte(l + n * 8, 63 - i)) \in Octets
    <3>1. 63 - i \in 0 .. 7
      BY <2>1
    <3>. QED  BY <3>1 DEF Octets
  <2>2. \A i \in 0 .. 63 : d[i] \in Octets
    BY DEF Buffers
  <2>. QED  BY <2>1, <2>2 DEF Buffers
<1>2. \A i \in 0 .. 63 :
        f[i] = IF i < 56 THEN d[i] ELSE Padding(Byte(l + n * 8, 63 - i))
  OBVIOUS
<1>3. WithLength(s) = [s EXCEPT !.bitlen = l + n * 8, !.data = f]
  <2>1. s.data = d /\ s.blocklen = n /\ s.bitlen = l
    BY ObjectUpdates
  <2>. HIDE DEF s
  <2>. QED  BY <2>1 DEF WithLength
<1>. HIDE DEF f
<1>4. WithLength(s) = Object(f, n, l + n * 8, bs)
  <2>1. PICK u, w : u = s /\ w = [u EXCEPT !.bitlen = l + n * 8, !.data = f]
    OBVIOUS
  <2>2. w = Object(f, n, l + n * 8, bs)
    BY <2>1 DEF Object
  <2>. QED  BY <1>3, <2>1, <2>2
<1>5. Transform(WithLength(s)) = Object(f, n, l + n * 8, Append(bs, BlockOf(f)))
  BY <1>4, ObjectUpdates
<1>. QED  BY <1>1, <1>2, <1>5

\* How many zeros there are between the one bit and the length.
LEMMA ZerosBetween ==
  ASSUME NEW b \in Nat, NEW n \in 0 .. 63, length = 64 * b + n
  PROVE  Zeros = IF n < 56 THEN 55 - n ELSE 119 - n
<1>. DEFINE z == IF n < 56 THEN 55 - n ELSE 119 - n
<1>1. z \in 0 .. 63 /\ (length + 1 + z + 8) % 64 = 0
  OBVIOUS
<1>2. \A y \in 0 .. 63 : (length + 1 + y + 8) % 64 = 0 => y = z
  OBVIOUS
<1>. QED  BY <1>1, <1>2 DEF Zeros

\* At the start no byte is absorbed and no block transformed.
LEMMA HashInitHInv == HashInit => HInv
<1>. SUFFICES ASSUME HashInit PROVE HInv
  OBVIOUS
<1>. DEFINE d == [i \in 0 .. 63 |-> Uninitialised]
<1>1. d \in Buffers
  BY DEF Octets, Buffers
<1>. HIDE DEF d
<1>2. sha = Object(d, 0, 0, <<>>)
  BY DEF HashInit, Object, d
<1>3. sha.data = d /\ sha.blocklen = 0 /\ sha.bitlen = 0 /\ sha.blocks = <<>>
  BY <1>2, ObjectUpdates
<1>4. Len(<<>>) = 0 /\ <<>> \in Seq([1 .. 64 -> Octets])
  BY EmptySeq
<1>5. sha \in Objects
  BY <1>1, <1>2, <1>4 DEF Objects, Object
<1>6. ahead = 0 /\ length = 0 /\ digested = FALSE
  BY DEF HashInit
<1>7. HoldsMessage(sha, length)
  BY <1>3, <1>4, <1>6 DEF HoldsMessage
<1>. QED  BY <1>5, <1>6, <1>7 DEF HInv, HashTypeOK, DigestsPaddedMessage

\* A block more after blocks that are known.
LEMMA BlockAppended ==
  ASSUME NEW bs \in Seq([1 .. 64 -> Octets]), NEW f \in Buffers
  PROVE  /\ Append(bs, BlockOf(f)) \in Seq([1 .. 64 -> Octets])
         /\ Len(bs) \in Nat /\ Len(Append(bs, BlockOf(f))) = Len(bs) + 1
         /\ \A b \in 1 .. Len(bs) : Append(bs, BlockOf(f))[b] = bs[b]
         /\ \A j \in 1 .. 64 : Append(bs, BlockOf(f))[Len(bs) + 1][j] = f[j - 1]
<1>1. BlockOf(f) \in [1 .. 64 -> Octets] /\ \A j \in 1 .. 64 : BlockOf(f)[j] = f[j - 1]
  BY BlockOfData
<1>. DEFINE more == Append(bs, BlockOf(f))
<1>2. /\ more \in Seq([1 .. 64 -> Octets])
      /\ Len(more) = Len(bs) + 1 /\ more[Len(bs) + 1] = BlockOf(f)
      /\ \A b \in 1 .. Len(bs) : more[b] = bs[b]
  BY <1>1, AppendProperties
<1>. QED  BY <1>1, <1>2, LenProperties

\* A byte more of the message: the blocks and m_data hold it where it belongs.
LEMMA ByteHeld ==
  ASSUME NEW s \in Objects, NEW len \in Nat, HoldsMessage(s, len),
         NEW byte, byte = Message(len + 1), NEW t, t = Absorb(s, byte)
  PROVE  t \in Objects /\ HoldsMessage(t, len + 1)
<1>1. PICK d, n, l, bs : d = s.data /\ n = s.blocklen /\ l = s.bitlen /\ bs = s.blocks
  OBVIOUS
<1>2. /\ d \in Buffers /\ n \in 0 .. 63 /\ l \in Nat
      /\ bs \in Seq([1 .. 64 -> Octets]) /\ Len(bs) \in Nat
      /\ s = Object(d, n, l, bs)
  BY <1>1, ObjectFields
<1>3. /\ len = 64 * Len(bs) + n /\ l = 512 * Len(bs)
      /\ \A b \in 1 .. Len(bs), j \in 1 .. 64 : bs[b][j] = Message(64 * (b - 1) + j)
      /\ \A i \in 0 .. 63 : i < n => d[i] = Message(64 * Len(bs) + i + 1)
  BY <1>1 DEF HoldsMessage
<1>4. byte \in Octets
  <2>1. len + 1 \in Nat
    OBVIOUS
  <2>. QED  BY <2>1 DEF Octets
<1>5. PICK f : f = Stored(d, n, byte)
  OBVIOUS
<1>6. /\ f \in Buffers /\ f[n] = byte
      /\ \A i \in 0 .. 63 : i # n => f[i] = d[i]
  BY <1>2, <1>4, <1>5 DEF Stored, Buffers
<1>7. t = IF n = 63 THEN Object(f, 0, l + 512, Append(bs, BlockOf(f)))
                    ELSE Object(f, n + 1, l, bs)
  <2>1. t = Absorb(Object(d, n, l, bs), byte)
    BY <1>2
  <2>2. n \in 0 .. 63
    BY <1>2
  <2>. QED  BY <1>5, <2>1, <2>2, OneByteAbsorbed
<1>8. \A i \in 0 .. 63 : i <= n => f[i] = Message(64 * Len(bs) + i + 1)
  <2>1. f[n] = Message(64 * Len(bs) + n + 1)
    BY <1>3, <1>6
  <2>2. TAKE i \in 0 .. 63
  <2>3. HAVE i <= n
  <2>4. CASE i = n
    BY <2>1, <2>4
  <2>5. CASE i # n
    <3>1. i < n
      BY <1>2, <2>3, <2>5
    <3>2. d[i] = Message(64 * Len(bs) + i + 1)
      BY <1>3, <3>1
    <3>. QED  BY <1>6, <2>5, <3>2
  <2>. QED  BY <2>4, <2>5
<1>9. CASE n # 63
  <2>1. t = Object(f, n + 1, l, bs)
    BY <1>7, <1>9
  <2>2. t.data = f /\ t.blocklen = n + 1 /\ t.bitlen = l /\ t.blocks = bs
    BY <2>1, ObjectUpdates
  <2>3. t \in Objects
    <3>1. n + 1 \in 0 .. 63
      BY <1>2, <1>9
    <3>. QED  BY <1>2, <1>6, <2>1, <3>1 DEF Objects, Object
  <2>4. len + 1 = 64 * Len(bs) + (n + 1)
    <3>1. n \in Nat /\ Len(bs) \in Nat
      BY <1>2
    <3>. QED  BY <1>3, <3>1
  <2>5. \A i \in 0 .. 63 : i < n + 1 => f[i] = Message(64 * Len(bs) + i + 1)
    <3>1. \A i \in 0 .. 63 : i < n + 1 => i <= n
      BY <1>2
    <3>. QED  BY <1>8, <3>1
  <2>6. HoldsMessage(t, len + 1)
    BY <1>3, <2>2, <2>4, <2>5, ZenonT(60) DEF HoldsMessage
  <2>. QED  BY <2>3, <2>6
<1>10. CASE n = 63
  <2>1. PICK more : more = Append(bs, BlockOf(f))
    OBVIOUS
  <2>2. t = Object(f, 0, l + 512, more)
    BY <1>7, <1>10, <2>1
  <2>3. t.data = f /\ t.blocklen = 0 /\ t.bitlen = l + 512 /\ t.blocks = more
    BY <2>2, ObjectUpdates
  <2>4. /\ more \in Seq([1 .. 64 -> Octets]) /\ Len(more) = Len(bs) + 1
        /\ \A b \in 1 .. Len(bs) : more[b] = bs[b]
        /\ \A j \in 1 .. 64 : more[Len(bs) + 1][j] = f[j - 1]
    <3>1. bs \in Seq([1 .. 64 -> Octets]) /\ f \in Buffers
      BY <1>2, <1>6
    <3>2. more \in Seq([1 .. 64 -> Octets]) /\ Len(more) = Len(bs) + 1
      BY <2>1, <3>1, BlockAppended
    <3>3. \A b \in 1 .. Len(bs) : more[b] = bs[b]
      BY <2>1, <3>1, BlockAppended
    <3>4. \A j \in 1 .. 64 : more[Len(bs) + 1][j] = f[j - 1]
      BY <2>1, <3>1, BlockAppended
    <3>. QED  BY <3>2, <3>3, <3>4
  <2>5. t \in Objects
    <3>1. l + 512 \in Nat /\ 0 \in 0 .. 63
      BY <1>2
    <3>. QED  BY <1>6, <2>2, <2>4, <3>1 DEF Objects, Object
  <2>6. ASSUME NEW b \in 1 .. Len(more), NEW j \in 1 .. 64
        PROVE  more[b][j] = Message(64 * (b - 1) + j)
    <3>1. Len(more) = Len(bs) + 1 /\ Len(bs) \in Nat
      BY <1>2, <2>4
    <3>2. CASE b = Len(more)
      <4>1. j - 1 \in 0 .. 63 /\ j - 1 <= n
        BY <1>10
      <4>2. more[b][j] = Message(64 * Len(bs) + (j - 1) + 1)
        BY <1>8, <2>4, <3>2, <4>1
      <4>3. 64 * Len(bs) + (j - 1) + 1 = 64 * (b - 1) + j
        BY <3>1, <3>2
      <4>. QED  BY <4>2, <4>3
    <3>3. CASE b # Len(more)
      <4>1. b \in 1 .. Len(bs)
        BY <3>1, <3>3
      <4>2. more[b] = bs[b]
        BY <2>4, <4>1
      <4>3. bs[b][j] = Message(64 * (b - 1) + j)
        BY <1>3, <4>1
      <4>. QED  BY <4>2, <4>3
    <3>. QED  BY <3>2, <3>3
  <2>7. len + 1 = 64 * Len(more) + 0 /\ l + 512 = 512 * Len(more)
    <3>1. Len(more) = Len(bs) + 1 /\ Len(bs) \in Nat /\ l \in Nat
      BY <1>2, <2>4
    <3>. QED  BY <1>3, <1>10, <3>1
  <2>8. HoldsMessage(t, len + 1)
    <3>1. \A i \in 0 .. 63 : ~(i < 0)
      OBVIOUS
    <3>2. /\ \A b \in 1 .. Len(t.blocks), j \in 1 .. 64 :
               t.blocks[b][j] = Message(64 * (b - 1) + j)
      BY <2>3, <2>6
    <3>3. len + 1 = 64 * Len(t.blocks) + t.blocklen /\ t.bitlen = 512 * Len(t.blocks)
      BY <2>3, <2>7
    <3>4. \A i \in 0 .. 63 : ~(i < t.blocklen)
      BY <2>3, <3>1
    <3>. QED  BY <3>2, <3>3, <3>4, ZenonT(60) DEF HoldsMessage
  <2>. QED  BY <2>5, <2>8
<1>. QED  BY <1>9, <1>10

\* A turn of update's loop keeps the invariant.
LEMMA LoopKeeps ==
  ASSUME HInv, UpdateLoop
  PROVE  HInv'
<1>1. /\ sha \in Objects /\ ahead \in Nat /\ length \in Nat /\ digested = FALSE
      /\ HoldsMessage(sha, length)
      /\ ahead > 0 /\ sha' = Absorb(sha, Message(length + 1))
      /\ ahead' = ahead - 1 /\ length' = length + 1 /\ digested' = FALSE
  BY DEF HInv, HashTypeOK, UpdateLoop
<1>2. sha' \in Objects /\ HoldsMessage(sha', length')
  BY <1>1, ByteHeld
<1>3. ahead' \in Nat /\ length' \in Nat
  BY <1>1
<1>. QED  BY <1>1, <1>2, <1>3 DEF HInv, HashTypeOK, DigestsPaddedMessage

\* The byte at place i of the padded form, last places long, of len bytes.
PaddedByte(len, last, i) ==
  IF i <= len THEN Message(i)
  ELSE IF i = len + 1 THEN Padding(128)
  ELSE IF i <= last - 8 THEN Padding(0)
  ELSE Padding(Byte(len * 8, last - i))

\* The blocks of an object that was digested are the padded message.
HoldsPadded(s, len) ==
  \A b \in 1 .. Len(s.blocks), j \in 1 .. 64 :
    s.blocks[b][j] = PaddedByte(len, 64 * Len(s.blocks), 64 * (b - 1) + j)

\* A message with room for its length in its last block is padded in it.
LEMMA DigestInBlock ==
  ASSUME NEW s \in Objects, NEW len \in Nat, HoldsMessage(s, len), s.blocklen < 56,
         NEW t, t = Transform(WithLength(Pad(s)))
  PROVE  /\ t \in Objects /\ HoldsPadded(t, len)
         /\ Len(t.blocks) = Len(s.blocks) + 1
<1>1. PICK d, n, l, bs : d = s.data /\ n = s.blocklen /\ l = s.bitlen /\ bs = s.blocks
  OBVIOUS
<1>2. /\ d \in Buffers /\ n \in 0 .. 63 /\ n < 56 /\ l \in Nat
      /\ bs \in Seq([1 .. 64 -> Octets]) /\ Len(bs) \in Nat
      /\ s = Object(d, n, l, bs)
  BY <1>1, ObjectFields
<1>3. /\ len = 64 * Len(bs) + n /\ l = 512 * Len(bs)
      /\ \A b \in 1 .. Len(bs), j \in 1 .. 64 : bs[b][j] = Message(64 * (b - 1) + j)
      /\ \A i \in 0 .. 63 : i < n => d[i] = Message(64 * Len(bs) + i + 1)
  BY <1>1 DEF HoldsMessage
<1>4. PICK f \in Buffers :
        Pad(s) = Object(f, n, l, bs) /\ OneAndZeros(f, d, n, 56)
  <2>1. d \in Buffers /\ n \in 0 .. 63 /\ n < 56
    BY <1>2
  <2>2. PICK u : u = Pad(Object(d, n, l, bs))
    OBVIOUS
  <2>3. \E f \in Buffers :
          u = Object(f, n, l, bs) /\ OneAndZeros(f, d, n, 56)
    BY <2>1, <2>2, PaddedInBlock
  <2>4. u = Pad(s)
    BY <1>2, <2>2
  <2>. QED  BY <2>3, <2>4
<1>5. l + n * 8 \in Nat /\ l + n * 8 = len * 8
  <2>1. len = 64 * Len(bs) + n /\ l = 512 * Len(bs) /\ Len(bs) \in Nat /\ n \in Nat
    <3>1. n \in Nat
      BY <1>2
    <3>. QED  BY <1>2, <1>3, <3>1
  <2>. QED  BY <2>1
<1>6. PICK g \in Buffers :
        /\ t = Object(g, n, len * 8, Append(bs, BlockOf(g)))
        /\ \A i \in 0 .. 63 :
             g[i] = IF i < 56 THEN f[i] ELSE Padding(Byte(len * 8, 63 - i))
  <2>1. t = Transform(WithLength(Object(f, n, l, bs)))
    BY <1>4
  <2>. QED  BY <1>5, <2>1, LengthWritten
<1>7. PICK more : more = Append(bs, BlockOf(g))
  OBVIOUS
<1>8. /\ more \in Seq([1 .. 64 -> Octets]) /\ Len(more) = Len(bs) + 1
      /\ \A b \in 1 .. Len(bs) : more[b] = bs[b]
      /\ \A j \in 1 .. 64 : more[Len(bs) + 1][j] = g[j - 1]
  <2>1. bs \in Seq([1 .. 64 -> Octets])
    BY <1>2
  <2>2. more \in Seq([1 .. 64 -> Octets]) /\ Len(more) = Len(bs) + 1
    BY <1>7, <2>1, BlockAppended
  <2>3. \A b \in 1 .. Len(bs) : more[b] = bs[b]
    BY <1>7, <2>1, BlockAppended
  <2>4. \A j \in 1 .. 64 : more[Len(bs) + 1][j] = g[j - 1]
    BY <1>7, <2>1, BlockAppended
  <2>. QED  BY <2>2, <2>3, <2>4
<1>9. t = Object(g, n, len * 8, more) /\ t.blocks = more
  <2>1. t = Object(g, n, len * 8, more)
    BY <1>6, <1>7
  <2>. QED  BY <2>1, ObjectUpdates
<1>10. t \in Objects
  <2>1. len * 8 \in Nat
    OBVIOUS
  <2>2. n \in 0 .. 63 /\ g \in Buffers /\ more \in Seq([1 .. 64 -> Octets])
    BY <1>2, <1>6, <1>8
  <2>3. t = Object(g, n, len * 8, more)
    BY <1>9
  <2>. QED  BY <2>1, <2>2, <2>3 DEF Objects, Object
<1>11. PICK k : k = Len(bs)
  OBVIOUS
<1>a. k \in Nat /\ n \in 0 .. 55 /\ n \in 0 .. 63 /\ len = 64 * k + n
  <2>1. n \in 0 .. 63 /\ n < 56
    BY <1>2
  <2>2. n \in 0 .. 55
    BY <2>1
  <2>. QED  BY <1>2, <1>3, <1>11, <2>1, <2>2
<1>12. ASSUME NEW b \in 1 .. k + 1, NEW j \in 1 .. 64
       PROVE  more[b][j] = PaddedByte(len, 64 * (k + 1), 64 * (b - 1) + j)
  <2>. DEFINE i == 64 * (b - 1) + j
              last == 64 * (k + 1)
  <2>1. CASE b # k + 1
    <3>1. b \in 1 .. k /\ n \in 0 .. 63 /\ last \in Nat
      BY <1>a, <2>1
    <3>2. more[b][j] = Message(i)
      BY <1>3, <1>8, <1>11, <3>1, ZenonT(60)
    <3>3. i <= len
      BY <1>a, <3>1
    <3>. QED  BY <3>2, <3>3 DEF PaddedByte
  <2>2. CASE b = k + 1
    <3>1. i = 64 * k + j /\ last - i = 64 - j /\ j - 1 \in 0 .. 63 /\ n \in 0 .. 55
      BY <1>a, <2>2
    <3>2. more[b][j] = g[j - 1]
      BY <1>8, <1>11, <2>2
    <3>3. CASE j - 1 < n
      <4>1. j - 1 \in 0 .. 55 /\ i <= len /\ i = 64 * k + (j - 1) + 1
        BY <1>a, <3>1, <3>3
      <4>2. g[j - 1] = f[j - 1]
        BY <1>6, <4>1
      <4>3. f[j - 1] = d[j - 1]
        BY <1>4, <3>3, <4>1 DEF OneAndZeros
      <4>4. d[j - 1] = Message(i)
        <5>1. d[j - 1] = Message(64 * k + (j - 1) + 1)
          BY <1>3, <1>11, <3>1, <3>3
        <5>. QED  BY <4>1, <5>1
      <4>. QED  BY <3>2, <4>1, <4>2, <4>3, <4>4 DEF PaddedByte
    <3>4. CASE j - 1 = n
      <4>1. j - 1 \in 0 .. 55 /\ ~(i <= len) /\ i = len + 1
        BY <1>a, <3>1, <3>4
      <4>2. g[j - 1] = f[j - 1]
        BY <1>6, <4>1
      <4>3. f[j - 1] = Padding(128)
        BY <1>4, <3>4, <4>1 DEF OneAndZeros
      <4>. QED  BY <3>2, <4>1, <4>2, <4>3 DEF PaddedByte
    <3>5. CASE j - 1 > n /\ j - 1 < 56
      <4>1. /\ j - 1 \in 0 .. 55 /\ ~(i <= len) /\ i # len + 1 /\ i <= last - 8
            /\ ~(j - 1 < n) /\ j - 1 # n
        BY <1>a, <3>1, <3>5
      <4>2. g[j - 1] = f[j - 1]
        BY <1>6, <4>1
      <4>3. f[j - 1] = Padding(0)
        BY <1>4, <4>1 DEF OneAndZeros
      <4>. QED  BY <3>2, <4>1, <4>2, <4>3 DEF PaddedByte
    <3>6. CASE j - 1 >= 56
      <4>1. /\ ~(j - 1 < 56) /\ ~(i <= len) /\ i # len + 1 /\ ~(i <= last - 8)
            /\ 63 - (j - 1) = last - i
        BY <1>a, <3>1, <3>6
      <4>2. g[j - 1] = Padding(Byte(len * 8, 63 - (j - 1)))
        BY <1>6, <3>1, <4>1
      <4>. QED  BY <3>2, <4>1, <4>2 DEF PaddedByte
    <3>. QED  BY <3>1, <3>3, <3>4, <3>5, <3>6
  <2>. QED  BY <2>1, <2>2
<1>13. HoldsPadded(t, len)
  BY <1>8, <1>9, <1>11, <1>12, ZenonT(60) DEF HoldsPadded
<1>14. Len(t.blocks) = Len(s.blocks) + 1
  BY <1>1, <1>8, <1>9
<1>. QED  BY <1>10, <1>13, <1>14

\* A message without room for its length is padded in two blocks.
LEMMA DigestInTwo ==
  ASSUME NEW s \in Objects, NEW len \in Nat, HoldsMessage(s, len), ~(s.blocklen < 56),
         NEW t, t = Transform(WithLength(Pad(s)))
  PROVE  /\ t \in Objects /\ HoldsPadded(t, len)
         /\ Len(t.blocks) = Len(s.blocks) + 2
<1>1. PICK d, n, l, bs : d = s.data /\ n = s.blocklen /\ l = s.bitlen /\ bs = s.blocks
  OBVIOUS
<1>2. /\ d \in Buffers /\ n \in 0 .. 63 /\ ~(n < 56) /\ l \in Nat
      /\ bs \in Seq([1 .. 64 -> Octets]) /\ Len(bs) \in Nat
      /\ s = Object(d, n, l, bs)
  BY <1>1, ObjectFields
<1>3. /\ len = 64 * Len(bs) + n /\ l = 512 * Len(bs)
      /\ \A b \in 1 .. Len(bs), j \in 1 .. 64 : bs[b][j] = Message(64 * (b - 1) + j)
      /\ \A i \in 0 .. 63 : i < n => d[i] = Message(64 * Len(bs) + i + 1)
  BY <1>1 DEF HoldsMessage
<1>4. PICK f \in Buffers : \E g \in Buffers :
        /\ Pad(s) = Object(g, n, l, Append(bs, BlockOf(f)))
        /\ OneAndZeros(f, d, n, 64)
        /\ \A i \in 0 .. 55 : g[i] = Padding(0)
  <2>1. d \in Buffers /\ n \in 0 .. 63 /\ ~(n < 56)
    BY <1>2
  <2>2. PICK u : u = Pad(Object(d, n, l, bs))
    OBVIOUS
  <2>3. \E f \in Buffers : \E g \in Buffers :
          /\ u = Object(g, n, l, Append(bs, BlockOf(f)))
          /\ OneAndZeros(f, d, n, 64)
          /\ \A i \in 0 .. 55 : g[i] = Padding(0)
    BY <2>1, <2>2, PaddedInTwo
  <2>4. u = Pad(s)
    BY <1>2, <2>2
  <2>. QED  BY <2>3, <2>4
<1>5. PICK g \in Buffers :
        /\ Pad(s) = Object(g, n, l, Append(bs, BlockOf(f)))
        /\ \A i \in 0 .. 55 : g[i] = Padding(0)
  BY <1>4
<1>6. PICK one : one = Append(bs, BlockOf(f))
  OBVIOUS
<1>7. /\ one \in Seq([1 .. 64 -> Octets]) /\ Len(one) = Len(bs) + 1
      /\ \A b \in 1 .. Len(bs) : one[b] = bs[b]
      /\ \A j \in 1 .. 64 : one[Len(bs) + 1][j] = f[j - 1]
  <2>1. bs \in Seq([1 .. 64 -> Octets])
    BY <1>2
  <2>2. one \in Seq([1 .. 64 -> Octets]) /\ Len(one) = Len(bs) + 1
    BY <1>6, <2>1, BlockAppended
  <2>3. \A b \in 1 .. Len(bs) : one[b] = bs[b]
    BY <1>6, <2>1, BlockAppended
  <2>4. \A j \in 1 .. 64 : one[Len(bs) + 1][j] = f[j - 1]
    BY <1>6, <2>1, BlockAppended
  <2>. QED  BY <2>2, <2>3, <2>4
<1>8. l + n * 8 \in Nat /\ l + n * 8 = len * 8
  <2>1. len = 64 * Len(bs) + n /\ l = 512 * Len(bs) /\ Len(bs) \in Nat /\ n \in Nat
    <3>1. n \in Nat
      BY <1>2
    <3>. QED  BY <1>2, <1>3, <3>1
  <2>. QED  BY <2>1
<1>9. PICK h \in Buffers :
        /\ t = Object(h, n, len * 8, Append(one, BlockOf(h)))
        /\ \A i \in 0 .. 63 :
             h[i] = IF i < 56 THEN g[i] ELSE Padding(Byte(len * 8, 63 - i))
  <2>1. t = Transform(WithLength(Object(g, n, l, one)))
    BY <1>5, <1>6
  <2>. QED  BY <1>8, <2>1, LengthWritten
<1>10. PICK two : two = Append(one, BlockOf(h))
  OBVIOUS
<1>11. /\ two \in Seq([1 .. 64 -> Octets]) /\ Len(two) = Len(one) + 1
       /\ \A b \in 1 .. Len(one) : two[b] = one[b]
       /\ \A j \in 1 .. 64 : two[Len(one) + 1][j] = h[j - 1]
  <2>1. one \in Seq([1 .. 64 -> Octets])
    BY <1>7
  <2>2. two \in Seq([1 .. 64 -> Octets]) /\ Len(two) = Len(one) + 1
    BY <1>10, <2>1, BlockAppended
  <2>3. \A b \in 1 .. Len(one) : two[b] = one[b]
    BY <1>10, <2>1, BlockAppended
  <2>4. \A j \in 1 .. 64 : two[Len(one) + 1][j] = h[j - 1]
    BY <1>10, <2>1, BlockAppended
  <2>. QED  BY <2>2, <2>3, <2>4
<1>12. t = Object(h, n, len * 8, two) /\ t.blocks = two
  <2>1. t = Object(h, n, len * 8, two)
    BY <1>9, <1>10
  <2>. QED  BY <2>1, ObjectUpdates
<1>13. t \in Objects
  <2>1. len * 8 \in Nat
    OBVIOUS
  <2>2. n \in 0 .. 63 /\ h \in Buffers /\ two \in Seq([1 .. 64 -> Octets])
    BY <1>2, <1>9, <1>11
  <2>3. t = Object(h, n, len * 8, two)
    BY <1>12
  <2>. QED  BY <2>1, <2>2, <2>3 DEF Objects, Object
<1>14. PICK k : k = Len(bs)
  OBVIOUS
<1>15. k \in Nat /\ n \in 56 .. 63 /\ len = 64 * k + n
  <2>1. n \in 0 .. 63 /\ ~(n < 56)
    BY <1>2
  <2>2. n \in 56 .. 63
    BY <2>1
  <2>. QED  BY <1>2, <1>3, <1>14, <2>2
<1>16. Len(one) = k + 1 /\ Len(two) = k + 2
  <2>1. Len(one) = k + 1 /\ Len(two) = (k + 1) + 1
    BY <1>7, <1>11, <1>14
  <2>. QED  BY <1>15, <2>1
<1>17. ASSUME NEW b \in 1 .. k + 2, NEW j \in 1 .. 64
       PROVE  two[b][j] = PaddedByte(len, 64 * (k + 2), 64 * (b - 1) + j)
  <2>. DEFINE i == 64 * (b - 1) + j
              last == 64 * (k + 2)
  <2>1. CASE b \in 1 .. k
    <3>1. b \in 1 .. k + 1 /\ i <= len
      BY <1>15, <2>1
    <3>2. two[b] = one[b]
      BY <1>11, <1>16, <3>1
    <3>3. one[b] = bs[b]
      BY <1>7, <1>14, <2>1
    <3>4. bs[b][j] = Message(i)
      BY <1>3, <1>14, <2>1
    <3>. QED  BY <3>1, <3>2, <3>3, <3>4 DEF PaddedByte
  <2>2. CASE b = k + 1
    <3>1. /\ i = 64 * k + j /\ j - 1 \in 0 .. 63 /\ j - 1 \in 0 .. 64 - 1
          /\ b \in 1 .. k + 1 /\ i <= last - 8
      BY <1>15, <2>2
    <3>2. two[b] = one[b]
      BY <1>11, <1>16, <3>1
    <3>3. one[b][j] = f[j - 1]
      BY <1>7, <1>14, <2>2
    <3>4. f[j - 1] = IF j - 1 < n THEN d[j - 1]
                     ELSE IF j - 1 = n THEN Padding(128) ELSE Padding(0)
      BY <1>4, <3>1 DEF OneAndZeros
    <3>5. CASE j - 1 < n
      <4>1. i <= len /\ i = 64 * k + (j - 1) + 1
        BY <1>15, <3>1, <3>5
      <4>2. d[j - 1] = Message(i)
        <5>1. d[j - 1] = Message(64 * k + (j - 1) + 1)
          BY <1>3, <1>14, <3>1, <3>5
        <5>. QED  BY <4>1, <5>1
      <4>. QED  BY <3>2, <3>3, <3>4, <3>5, <4>1, <4>2 DEF PaddedByte
    <3>6. CASE j - 1 = n
      <4>1. ~(j - 1 < n) /\ ~(i <= len) /\ i = len + 1
        BY <1>15, <3>1, <3>6
      <4>. QED  BY <3>2, <3>3, <3>4, <3>6, <4>1 DEF PaddedByte
    <3>7. CASE j - 1 > n
      <4>1. ~(j - 1 < n) /\ j - 1 # n /\ ~(i <= len) /\ i # len + 1
        BY <1>15, <3>1, <3>7
      <4>. QED  BY <3>1, <3>2, <3>3, <3>4, <4>1 DEF PaddedByte
    <3>. QED  BY <1>15, <3>1, <3>5, <3>6, <3>7
  <2>3. CASE b = k + 2
    <3>1. /\ i = 64 * (k + 1) + j /\ j - 1 \in 0 .. 63 /\ 63 - (j - 1) = last - i
          /\ ~(i <= len) /\ i # len + 1 /\ b = (k + 1) + 1
      BY <1>15, <2>3
    <3>2. two[b][j] = h[j - 1]
      BY <1>11, <1>16, <3>1
    <3>3. h[j - 1] = IF j - 1 < 56 THEN g[j - 1] ELSE Padding(Byte(len * 8, 63 - (j - 1)))
      BY <1>9, <3>1
    <3>4. CASE j - 1 < 56
      <4>1. j - 1 \in 0 .. 55 /\ i <= last - 8
        BY <1>15, <3>1, <3>4
      <4>2. g[j - 1] = Padding(0)
        BY <1>5, <4>1
      <4>. QED  BY <3>1, <3>2, <3>3, <3>4, <4>1, <4>2 DEF PaddedByte
    <3>5. CASE ~(j - 1 < 56)
      <4>1. ~(i <= last - 8)
        BY <1>15, <3>1, <3>5
      <4>. QED  BY <3>1, <3>2, <3>3, <3>5, <4>1 DEF PaddedByte
    <3>. QED  BY <3>4, <3>5
  <2>4. b \in 1 .. k \/ b = k + 1 \/ b = k + 2
    BY <1>15
  <2>. QED  BY <2>1, <2>2, <2>3, <2>4
<1>18. HoldsPadded(t, len)
  BY <1>12, <1>16, <1>17, ZenonT(60) DEF HoldsPadded
<1>19. Len(t.blocks) = Len(s.blocks) + 2
  BY <1>1, <1>12, <1>14, <1>16
<1>. QED  BY <1>13, <1>18, <1>19

\* The padded form of len bytes, last places long.
PaddedForm(len, last) ==
  [i \in 1 .. last |->
     CASE i <= len                     -> Message(i)
       [] i = len + 1                  -> Padding(128)
       [] i > len + 1 /\ i <= last - 8 -> Padding(0)
       [] i > last - 8                 -> Padding(Byte(len * 8, last - i))]

\* The padded message, by place: it fills whole blocks, the one of the
\* message's last bytes and, when the length has no room there, one more.
LEMMA PaddedByPlace ==
  ASSUME NEW k \in Nat, NEW n \in 0 .. 63, length = 64 * k + n,
         NEW last, last = IF n < 56 THEN 64 * (k + 1) ELSE 64 * (k + 2)
  PROVE  /\ DOMAIN PaddedMessage = 1 .. last
         /\ \A i \in 1 .. last : PaddedMessage[i] = PaddedByte(length, last, i)
<1>1. last = length + 1 + Zeros + 8
  <2>1. Zeros = IF n < 56 THEN 55 - n ELSE 119 - n
    BY ZerosBetween
  <2>. QED  BY <2>1
<1>2. PaddedMessage = PaddedForm(length, last)
  <2>1. PaddedMessage = PaddedForm(length, length + 1 + Zeros + 8)
    BY DEF PaddedMessage, PaddedForm
  <2>. QED  BY <1>1, <2>1
<1>3. DOMAIN PaddedMessage = 1 .. last
  BY <1>2 DEF PaddedForm
<1>4. ASSUME NEW i \in 1 .. last
      PROVE  PaddedMessage[i] = PaddedByte(length, last, i)
  <2>1. length \in Nat /\ last \in Nat /\ length + 1 <= last - 8
    OBVIOUS
  <2>2. PaddedMessage[i] =
          CASE i <= length                   -> Message(i)
            [] i = length + 1                -> Padding(128)
            [] i > length + 1 /\ i <= last - 8 -> Padding(0)
            [] i > last - 8                  -> Padding(Byte(length * 8, last - i))
    BY <1>2 DEF PaddedForm
  <2>3. CASE i <= length
    <3>1. i # length + 1 /\ ~(i > length + 1) /\ ~(i > last - 8)
      BY <2>1, <2>3
    <3>. QED  BY <2>2, <2>3, <3>1 DEF PaddedByte
  <2>4. CASE i = length + 1
    <3>1. ~(i <= length) /\ ~(i > length + 1) /\ ~(i > last - 8)
      BY <2>1, <2>4
    <3>. QED  BY <2>2, <2>4, <3>1 DEF PaddedByte
  <2>5. CASE i > length + 1 /\ i <= last - 8
    <3>1. ~(i <= length) /\ i # length + 1 /\ ~(i > last - 8)
      BY <2>1, <2>5
    <3>. QED  BY <2>2, <2>5, <3>1 DEF PaddedByte
  <2>6. CASE i > last - 8
    <3>1. ~(i <= length) /\ i # length + 1 /\ ~(i <= last - 8)
      BY <2>1, <2>6
    <3>. QED  BY <2>2, <2>6, <3>1 DEF PaddedByte
  <2>7. i <= length \/ i = length + 1 \/ (i > length + 1 /\ i <= last - 8) \/ i > last - 8
    BY <2>1
  <2>. QED  BY <2>3, <2>4, <2>5, <2>6, <2>7
<1>. QED  BY <1>3, <1>4

\* The digest hashes the padded message.
LEMMA DigestKeeps ==
  ASSUME HInv, Digest
  PROVE  HInv'
<1>1. /\ sha \in Objects /\ length \in Nat /\ HoldsMessage(sha, length)
      /\ ahead = 0 /\ sha' = Transform(WithLength(Pad(sha)))
      /\ digested' = TRUE /\ ahead' = 0 /\ length' = length
  BY DEF HInv, HashTypeOK, Digest
<1>2. PICK k, n : k = Len(sha.blocks) /\ n = sha.blocklen
  OBVIOUS
<1>3. k \in Nat /\ n \in 0 .. 63 /\ length = 64 * k + n
  <2>1. k \in Nat /\ n \in 0 .. 63
    BY <1>1, <1>2, ObjectFields
  <2>. QED  BY <1>1, <1>2, <2>1 DEF HoldsMessage
<1>4. /\ sha' \in Objects /\ HoldsPadded(sha', length)
      /\ Len(sha'.blocks) = IF n < 56 THEN k + 1 ELSE k + 2
  <2>1. CASE n < 56
    <3>1. sha.blocklen < 56
      BY <1>2, <2>1
    <3>2. PICK t : t = Transform(WithLength(Pad(sha)))
      OBVIOUS
    <3>3. t \in Objects /\ HoldsPadded(t, length) /\ Len(t.blocks) = Len(sha.blocks) + 1
      BY <1>1, <3>1, <3>2, DigestInBlock
    <3>. QED  BY <1>1, <1>2, <2>1, <3>2, <3>3
  <2>2. CASE ~(n < 56)
    <3>1. ~(sha.blocklen < 56)
      BY <1>2, <2>2
    <3>2. PICK t : t = Transform(WithLength(Pad(sha)))
      OBVIOUS
    <3>3. t \in Objects /\ HoldsPadded(t, length) /\ Len(t.blocks) = Len(sha.blocks) + 2
      BY <1>1, <3>1, <3>2, DigestInTwo
    <3>. QED  BY <1>1, <1>2, <2>2, <3>2, <3>3
  <2>. QED  BY <2>1, <2>2
<1>5. PICK last : last = 64 * Len(sha'.blocks)
  OBVIOUS
<1>6. last = IF n < 56 THEN 64 * (k + 1) ELSE 64 * (k + 2)
  BY <1>4, <1>5
<1>7. /\ DOMAIN PaddedMessage = 1 .. last
      /\ \A i \in 1 .. last : PaddedMessage[i] = PaddedByte(length, last, i)
  BY <1>3, <1>6, PaddedByPlace
<1>8. PaddedMessage' = PaddedMessage
  BY <1>1 DEF PaddedMessage, Zeros
<1>9. ASSUME NEW b \in 1 .. Len(sha'.blocks), NEW j \in 1 .. 64
      PROVE  sha'.blocks[b][j] = PaddedMessage[64 * (b - 1) + j]
  <2>1. PICK q, i : q = Len(sha'.blocks) /\ i = 64 * (b - 1) + j
    OBVIOUS
  <2>2. q \in Nat
    BY <1>3, <1>4, <2>1
  <2>3. i \in 1 .. last
    BY <1>5, <2>1, <2>2
  <2>4. sha'.blocks[b][j] = PaddedByte(length, last, i)
    BY <1>4, <1>5, <2>1 DEF HoldsPadded
  <2>. QED  BY <1>7, <2>1, <2>3, <2>4
<1>10. DigestsPaddedMessage'
  <2>1. DOMAIN PaddedMessage' = 1 .. 64 * Len(sha'.blocks)
    BY <1>5, <1>7, <1>8
  <2>. QED  BY <1>8, <1>9, <2>1 DEF DigestsPaddedMessage
<1>. QED  BY <1>1, <1>4, <1>10 DEF HInv, HashTypeOK

\* The invariant of the hash: every step of the object keeps it.
LEMMA HashInvariant == HashSpec => []HInv
<1>1. HashInit => HInv
  BY HashInitHInv
<1>2. HInv /\ [HashNext]_hashvars => HInv'
  <2>. SUFFICES ASSUME HInv, [HashNext]_hashvars
                PROVE  HInv'
    OBVIOUS
  <2>1. ASSUME NEW n \in Chunks, Update(n)
        PROVE  HInv'
    <3>1. n \in Nat
      BY ChunksAssumption
    <3>2. /\ sha' = sha /\ length' = length /\ digested' = digested /\ ahead' = n
          /\ ~digested
      BY <2>1 DEF Update
    <3>. QED  BY <3>1, <3>2, ZenonT(60) DEF HInv, HashTypeOK, HoldsMessage, DigestsPaddedMessage
  <2>2. CASE UpdateLoop
    BY <2>2, LoopKeeps
  <2>3. CASE Digest
    BY <2>3, DigestKeeps
  <2>4. CASE UNCHANGED hashvars
    <3>1. sha' = sha /\ ahead' = ahead /\ length' = length /\ digested' = digested
      BY <2>4 DEF hashvars
    <3>2. PaddedMessage' = PaddedMessage
      BY <3>1 DEF PaddedMessage, Zeros
    <3>. QED  BY <3>1, <3>2, ZenonT(60) DEF HInv, HashTypeOK, HoldsMessage, DigestsPaddedMessage
  <2>. QED  BY <2>1, <2>2, <2>3, <2>4 DEF HashNext
<1>. QED  BY <1>1, <1>2, PTL DEF HashSpec

\* What digest passes to transform is the padding of FIPS 180-4 for a message
\* of any length, in chunks of any sizes.
THEOREM DigestsThePadding == HashSpec => []DigestsPaddedMessage
<1>1. HInv => DigestsPaddedMessage
  BY DEF HInv
<1>. QED  BY <1>1, HashInvariant, PTL
=============================================================================
