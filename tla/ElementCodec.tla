---------------------------- MODULE ElementCodec ----------------------------
(***************************************************************************)
(* base/element.cpp: one WhiteboardElements object, which keeps the fields *)
(* of every kind of element and uses some, and its conversion to and from  *)
(* the protobuf message.  An object may be made one kind of element after  *)
(* another: the fields that kind does not use keep what they had.          *)
(*                                                                         *)
(* Boards hold serialised elements, and handle_modify_element_request      *)
(* finds an element by comparing them (server.cpp:692), so what is at      *)
(* stake is that the message shows what the object shows and nothing else. *)
(***************************************************************************)
EXTENDS Naturals, Sequences

CONSTANTS
  Points,       \* the points elements are placed at
  Lengths,      \* radiuses and lengths of sides
  Texts,        \* contents, picture data and file names
  Unset         \* a field nothing was assigned to

VARIABLE element    \* the object

\* The fields that the constructor of each kind (new_line, ...) assigns its
\* arguments to, and its getters return.
Fields ==
  [Path       |-> <<"path_points">>,
   Line       |-> <<"pos1", "pos2">>,
   Circle     |-> <<"pos1", "side1">>,
   Triangle   |-> <<"pos1", "pos2", "pos3">>,
   Square     |-> <<"pos1", "side1">>,
   Text       |-> <<"pos1", "content">>,
   StickyNote |-> <<"pos1", "side1", "content">>,
   Picture    |-> <<"pos1", "content", "filename">>,
   Null       |-> <<>>]

\* The fields of the message that to_protobuf puts what they return into.
Written ==
  [Path       |-> <<"points">>,
   Line       |-> <<"start", "end">>,
   Circle     |-> <<"center", "radius">>,
   Triangle   |-> <<"point1", "point2", "point3">>,
   Square     |-> <<"topleft", "side_length">>,
   Text       |-> <<"center", "content">>,
   StickyNote |-> <<"center", "side_length", "content">>,
   Picture    |-> <<"center", "data", "file_name">>,
   Null       |-> <<>>]

\* Mistake: the last corner of a triangle is read from the second.
ParsedTwice ==
  [Written EXCEPT !.Triangle = <<"point1", "point2", "point2">>,
                  !.Picture  = <<"center", "data", "own_filename">>]

\* The arguments that from_protobuf passes to the constructor.  For a picture
\* it passes the member `filename' of the object it is called on, and not the
\* pic_filename that it has just read.
Parsed ==
  [Written EXCEPT !.Picture = <<"center", "data", "own_filename">>]

Types == DOMAIN Fields

\* The names in a row of these tables, and where in the row a name is.
Names(row)    == {row[i] : i \in DOMAIN row}
Place(row, f) == CHOOSE i \in DOMAIN row : row[i] = f

ValuesOf(field) ==
  CASE field = "path_points"             -> {<<>>} \cup {<<p>> : p \in Points}
    [] field \in {"pos1", "pos2", "pos3"} -> Points
    [] field = "side1"                   -> Lengths
    [] field \in {"content", "filename"} -> Texts

\* A default-constructed object.
Fresh ==
  [type |-> "Null", path_points |-> <<>>, pos1 |-> Unset, pos2 |-> Unset,
   pos3 |-> Unset, side1 |-> Unset, content |-> "", filename |-> ""]

ElementInit == element = Fresh

\* What the getters of its type return; those of the others throw.
Observed(e) == [i \in DOMAIN Fields[e.type] |-> e[Fields[e.type][i]]]

-----------------------------------------------------------------------------
\* What can be passed to the constructor of a type.
Arguments(type) ==
  LET n == Len(Fields[type])
  IN  {a \in [1 .. n -> UNION {ValuesOf(Fields[type][i]) : i \in 1 .. n}] :
         \A i \in 1 .. n : a[i] \in ValuesOf(Fields[type][i])}

\* new_path, new_line, ..., on an object: the fields of other kinds stay.
Made(e, type, arguments) ==
  [f \in DOMAIN e |->
     IF f = "type" THEN type
     ELSE IF f \in Names(Fields[type]) THEN arguments[Place(Fields[type], f)]
     ELSE e[f]]

New(type) ==
  /\ type # "Null"
  /\ \E arguments \in Arguments(type) : element' = Made(element, type, arguments)

\* Mistake: the file name is serialised with every kind of element.
ToProtobufStale(e) ==
  LET names == Append(Written[e.type], "file_name")
      shown == Append(Observed(e), e.filename)
  IN  [kind   |-> e.type,
       fields |-> [f \in Names(names) |-> shown[Place(names, f)]]]

\* to_protobuf: the oneof of the type, with its fields.  For Null the oneof is
\* not set.
ToProtobuf(e) ==
  LET names == Written[e.type]
  IN  [kind   |-> e.type,
       fields |-> [f \in Names(names) |-> Observed(e)[Place(names, f)]]]

\* from_protobuf, a member that leaves its object alone and returns a new one.
FromProtobuf(filename, message) ==
  IF message.kind = "Null" THEN Fresh
  ELSE Made(Fresh, message.kind,
            [i \in DOMAIN Parsed[message.kind] |->
               IF Parsed[message.kind][i] = "own_filename" THEN filename
               ELSE message.fields[Parsed[message.kind][i]]])

\* The element goes to the server and comes back in a broadcast.  The object
\* that parses it is a new one (client.cpp:439), or was a picture before.
Transfer ==
  \E filename \in Texts \cup {""} :
    element' = FromProtobuf(filename, ToProtobuf(element))

ElementNext == (\E type \in Types : New(type)) \/ Transfer

ElementSpec == ElementInit /\ [][ElementNext]_element

-----------------------------------------------------------------------------
\* Every element that can be made from a default-constructed object.
FreshElements ==
  {Fresh} \cup UNION {{Made(Fresh, type, a) : a \in Arguments(type)} :
                        type \in Types \ {"Null"}}

\* The serialised forms of two elements are the same just when the elements
\* are the same kind and show the same: whatever an object was before, it is
\* found on a board by its serialised form, and not taken for another.
SerialisedFormIdentifies ==
  \A e \in FreshElements :
    ToProtobuf(e) = ToProtobuf(element)
      <=> e.type = element.type /\ Observed(e) = Observed(element)

\* An element that went to the board and back shows what it showed before;
\* of a picture, all but the file name.
TransferKeepsElement ==
  [][Transfer => /\ element'.type = element.type
                 /\ \A i \in DOMAIN Fields[element.type] :
                      Fields[element.type][i] # "filename" =>
                        Observed(element')[i] = Observed(element)[i]]_element
=============================================================================
