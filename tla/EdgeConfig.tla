----------------------------- MODULE EdgeConfig ----------------------------
(***************************************************************************)
(* From the .edge template to the OPC UA address space: edge_config_load   *)
(* and edge_config_wire_runtime of src/edge_config.c, then                 *)
(* edge_address_space_load of src/edge_address_space.c.                    *)
(*                                                                         *)
(* The file is read section by section; a section is the sequence of its   *)
(* lines, and a line is a key with the text behind the equals sign and the *)
(* number a numeral stands for.  Indexes count from 1.  A text is the      *)
(* sequence of its parts between dots, so the id "asset.node" of a         *)
(* variable is a concatenation, and the length of a text is counted in     *)
(* parts.                                                                  *)
(***************************************************************************)
EXTENDS Integers, Sequences, FiniteSets

CONSTANTS
  PlantSections,    \* the [plant] sections a template may have
  AssetSections, NodeSections, EventSections,
  MaxAssets, MaxNodes, MaxEvents,   \* EDGE_MAX_ASSETS and so on
  MaxText,                          \* EDGE_MAX_ID_LEN, EDGE_MAX_NAME_LEN
  UShortMax, UIntMax, ULongMax,     \* the widths of the C integers
  MaxUnit,                          \* 247, the last Modbus unit
  NotNumber, NaN                    \* the number of no numeral, of "nan"

Empty == <<>>           \* the empty string of a field that was not set

InvalidIndex == 0       \* edge_invalid_index

DataTypes == {<<"bool">>, <<"int16">>, <<"int32">>, <<"uint32">>, <<"double">>}

Conditions == {<<"greater_than">>, <<"less_than">>}

Sections == PlantSections \cup AssetSections \cup NodeSections \cup EventSections

ASSUME ConfigAssumption ==
  /\ MaxAssets \in Nat /\ MaxNodes \in Nat /\ MaxEvents \in Nat /\ MaxText \in Nat
  /\ MaxUnit \in Nat /\ UShortMax \in Nat /\ UIntMax \in Nat /\ ULongMax \in Nat
  /\ MaxUnit <= UShortMax /\ UShortMax <= UIntMax /\ UIntMax <= ULongMax
  /\ \A s \in Sections : s \in Seq({s[n] : n \in DOMAIN s})
  /\ \A s \in Sections : \A n \in DOMAIN s :
       s[n] \in [key : {s[n].key}, text : Seq({s[n].text[k] : k \in DOMAIN s[n].text}),
                number : Int \cup {NotNumber, NaN}]

VARIABLES
  stage,                    \* what main() has the template in
  cursor,                   \* the index of the loop of edge_address_space_load
  plant,                    \* model->id and model->name
  assets, nodes, events,    \* the tables
  parent_index,             \* asset -> its parent, InvalidIndex for the plant
  asset_index,              \* node -> its asset
  event_asset_index, source_node_index,    \* event -> its asset, its node
  first_node_index, node_count,            \* asset -> where its nodes are
  space                     \* NodeId in the address space -> its parent there

tableVars == <<plant, assets, nodes, events>>

indexVars == <<parent_index, asset_index, event_asset_index, source_node_index>>

wireVars == <<first_node_index, node_count>>

vars == <<stage, cursor, tableVars, indexVars, wireVars, space>>

Refused == {"rejected", "invalid", "unserved"}

Stages == {"reading", "loaded", "wired", "assets", "nodes", "served"} \cup Refused

Init ==
  /\ stage = "reading"
  /\ cursor = 1
  /\ plant = [id |-> Empty, name |-> Empty]
  /\ assets = <<>> /\ nodes = <<>> /\ events = <<>>
  /\ parent_index = <<>> /\ asset_index = <<>>
  /\ event_asset_index = <<>> /\ source_node_index = <<>>
  /\ first_node_index = <<>> /\ node_count = <<>>
  /\ space = <<>>

-----------------------------------------------------------------------------
(* One line: what its key admits.  A line that is refused ends the load. *)

copy_value(text) == text # Empty /\ Len(text) <= MaxText

(* strtoul negates what follows a minus sign, within unsigned long. *)
strtoul(number) == IF number >= 0 THEN number ELSE number + ULongMax + 1

Numeral(number) == number \in -ULongMax .. ULongMax

parse_u16(number) == Numeral(number) /\ strtoul(number) <= UShortMax

parse_u32(number) == Numeral(number) /\ strtoul(number) <= UIntMax

parse_double(number) == number # NotNumber

parse_plant_key(line) == line.key \in {"id", "name"} /\ copy_value(line.text)

parse_asset_key(line) ==
  \/ line.key \in {"id", "type", "name"} /\ copy_value(line.text)
  \/ line.key = "parent" /\ (line.text = Empty \/ copy_value(line.text))

parse_node_key(line) ==
  \/ line.key \in {"asset", "id", "name"} /\ copy_value(line.text)
  \/ line.key = "data_type" /\ line.text \in DataTypes
  \/ line.key = "access" /\ line.text \in {<<"read">>, <<"read_write">>}
  \/ line.key = "source" /\ line.text = <<"modbus">>
  \/ /\ line.key = "modbus_unit"
     /\ parse_u16(line.number)
     /\ strtoul(line.number) \in 1 .. MaxUnit
  \/ line.key = "modbus_register" /\ parse_u32(line.number)
  \/ line.key = "scale" /\ parse_double(line.number)

parse_event_key(line) ==
  \/ line.key \in {"asset", "id", "source_node"} /\ copy_value(line.text)
  \/ line.key = "condition" /\ line.text \in Conditions
  \/ line.key = "threshold" /\ parse_double(line.number)
  \/ line.key = "severity" /\ parse_u16(line.number)

-----------------------------------------------------------------------------
(* Reading the file.  Every line of a key overwrites what an earlier one   *)
(* has stored, and a key without a line leaves what there was.             *)

LinesOf(section, key) == {n \in DOMAIN section : section[n].key = key}

LastLine(section, key) ==
  section[CHOOSE n \in LinesOf(section, key) : \A m \in LinesOf(section, key) : m <= n]

TextOf(section, key, unset) ==
  IF LinesOf(section, key) = {} THEN unset ELSE LastLine(section, key).text

UnsignedOf(section, key) ==
  IF LinesOf(section, key) = {} THEN 0 ELSE strtoul(LastLine(section, key).number)

begin_asset(section) ==
  [id |-> TextOf(section, "id", Empty), type |-> TextOf(section, "type", Empty),
   name |-> TextOf(section, "name", Empty), parent |-> TextOf(section, "parent", Empty)]

(* What access, scale and threshold are set to plays no part in loading. *)
begin_node(section) ==
  [asset |-> TextOf(section, "asset", Empty), id |-> TextOf(section, "id", Empty),
   name |-> TextOf(section, "name", Empty),
   data_type |-> TextOf(section, "data_type", Empty),
   modbus_unit |-> UnsignedOf(section, "modbus_unit"),
   modbus_register |-> UnsignedOf(section, "modbus_register")]

begin_event(section) ==
  [asset |-> TextOf(section, "asset", Empty), id |-> TextOf(section, "id", Empty),
   source_node |-> TextOf(section, "source_node", Empty),
   condition |-> TextOf(section, "condition", Empty),
   severity |-> UnsignedOf(section, "severity")]

(* A [plant] section may come anywhere and again. *)
ReadPlant ==
  /\ stage = "reading"
  /\ \E s \in PlantSections :
       /\ \A n \in DOMAIN s : parse_plant_key(s[n])
       /\ plant' = [id |-> TextOf(s, "id", plant.id), name |-> TextOf(s, "name", plant.name)]
  /\ UNCHANGED <<stage, cursor, assets, nodes, events, indexVars, wireVars, space>>

ReadAsset ==
  /\ stage = "reading"
  /\ Len(assets) < MaxAssets
  /\ \E s \in AssetSections :
       /\ \A n \in DOMAIN s : parse_asset_key(s[n])
       /\ assets' = Append(assets, begin_asset(s))
  /\ UNCHANGED <<stage, cursor, plant, nodes, events, indexVars, wireVars, space>>

ReadNode ==
  /\ stage = "reading"
  /\ Len(nodes) < MaxNodes
  /\ \E s \in NodeSections :
       /\ \A n \in DOMAIN s : parse_node_key(s[n])
       /\ nodes' = Append(nodes, begin_node(s))
  /\ UNCHANGED <<stage, cursor, plant, assets, events, indexVars, wireVars, space>>

ReadEvent ==
  /\ stage = "reading"
  /\ Len(events) < MaxEvents
  /\ \E s \in EventSections :
       /\ \A n \in DOMAIN s : parse_event_key(s[n])
       /\ events' = Append(events, begin_event(s))
  /\ UNCHANGED <<stage, cursor, plant, assets, nodes, indexVars, wireVars, space>>

Ends(outcome) ==
  /\ stage' = outcome
  /\ UNCHANGED <<cursor, tableVars, indexVars, wireVars, space>>

FileMissing == Init /\ Ends("rejected")

(* A line its section refuses.  A line that is too long, has no key or     *)
(* stands outside of a section is one with a key that no section has.      *)
LineRejected ==
  /\ stage = "reading"
  /\ \/ \E s \in PlantSections : \E n \in DOMAIN s : ~parse_plant_key(s[n])
     \/ \E s \in AssetSections : \E n \in DOMAIN s : ~parse_asset_key(s[n])
     \/ \E s \in NodeSections : \E n \in DOMAIN s : ~parse_node_key(s[n])
     \/ \E s \in EventSections : \E n \in DOMAIN s : ~parse_event_key(s[n])
  /\ Ends("rejected")

(* One section more than its table has room for. *)
TableFull ==
  /\ stage = "reading"
  /\ Len(assets) = MaxAssets \/ Len(nodes) = MaxNodes \/ Len(events) = MaxEvents
  /\ Ends("rejected")

-----------------------------------------------------------------------------
(* Validation. *)

(* The first of the indexes a search over a table matches. *)
FirstOf(matches) ==
  IF matches = {} THEN InvalidIndex
  ELSE CHOOSE i \in matches : \A j \in matches : i <= j

find_asset(id) == FirstOf({i \in DOMAIN assets : assets[i].id = id})

find_event(id) == FirstOf({i \in DOMAIN events : events[i].id = id})

(* Mutant: the node is looked for in every asset. *)
FindNodeAnywhere(asset, id) == FirstOf({i \in DOMAIN nodes : nodes[i].id = id})

find_node_for_asset(asset, id) ==
  FirstOf({i \in DOMAIN nodes : find_asset(nodes[i].asset) = asset /\ nodes[i].id = id})

validate_required_fields ==
  /\ Empty \notin {plant.id, plant.name}
  /\ \A i \in DOMAIN assets : Empty \notin {assets[i].id, assets[i].type, assets[i].name}
  /\ \A i \in DOMAIN nodes :
       /\ Empty \notin {nodes[i].asset, nodes[i].id, nodes[i].name, nodes[i].data_type}
       /\ nodes[i].modbus_unit # 0 /\ nodes[i].modbus_register # 0
  /\ \A i \in DOMAIN events :
       /\ Empty \notin {events[i].asset, events[i].id, events[i].source_node,
                        events[i].condition}
       /\ events[i].severity # 0

(* Mutant: only neighbours in the file are compared. *)
DuplicatesOfNeighbours ==
  /\ \A i \in 1 .. Len(assets) - 1 : assets[i].id # assets[i + 1].id
  /\ \A i \in 1 .. Len(nodes) - 1 :
       nodes[i].asset # nodes[i + 1].asset \/ nodes[i].id # nodes[i + 1].id
  /\ \A i \in 1 .. Len(events) - 1 : events[i].id # events[i + 1].id

validate_duplicates ==
  /\ \A i \in DOMAIN assets : \A j \in i + 1 .. Len(assets) :
       assets[i].id # assets[j].id
  /\ \A i \in DOMAIN nodes : \A j \in i + 1 .. Len(nodes) :
       nodes[i].asset # nodes[j].asset \/ nodes[i].id # nodes[j].id
  /\ \A i \in DOMAIN events : find_event(events[i].id) = i

ParentOf(i) ==
  IF assets[i].parent \in {Empty, plant.id} THEN InvalidIndex
  ELSE find_asset(assets[i].parent)

(* Mutant: a parent may be declared anywhere in the file. *)
ParentAnywhere(i) ==
  \/ assets[i].parent \in {Empty, plant.id}
  \/ ParentOf(i) \notin {InvalidIndex, i}

(* An asset hangs below the plant or below an asset declared before it. *)
ParentDeclared(i) ==
  \/ assets[i].parent \in {Empty, plant.id}
  \/ ParentOf(i) # InvalidIndex /\ ParentOf(i) < i

(* Where the walk up from asset i is after each hop. *)
Climb(i) ==
  LET up[hops \in 0 .. Len(assets) + 1] ==
        LET from == IF hops = 0 THEN i ELSE up[hops - 1]
        IN  IF from = InvalidIndex THEN InvalidIndex ELSE ParentOf(from)
  IN  up

ParentChainEnds(i) ==
  /\ \A hops \in DOMAIN Climb(i) : Climb(i)[hops] # i
  /\ Climb(i)[Len(assets) + 1] = InvalidIndex

NodeUnchecked(i) == TRUE     \* mutant: the result of find_asset not tested

NodeResolves(i) == find_asset(nodes[i].asset) # InvalidIndex

EventResolves(i) ==
  LET asset == find_asset(events[i].asset)
  IN  /\ asset # InvalidIndex
      /\ find_node_for_asset(asset, events[i].source_node) # InvalidIndex

ReferencesValid ==
  /\ \A i \in DOMAIN assets : ParentDeclared(i)
  /\ \A i \in DOMAIN assets : ParentChainEnds(i)
  /\ \A i \in DOMAIN nodes : NodeResolves(i)
  /\ \A i \in DOMAIN events : EventResolves(i)

TemplateValid == validate_required_fields /\ validate_duplicates /\ ReferencesValid

(* The end of the file: the three validations, the last of which resolves. *)
LoadAccepts ==
  /\ stage = "reading"
  /\ TemplateValid
  /\ stage' = "loaded"
  /\ parent_index' = [i \in DOMAIN assets |-> ParentOf(i)]
  /\ asset_index' = [i \in DOMAIN nodes |-> find_asset(nodes[i].asset)]
  /\ event_asset_index' = [i \in DOMAIN events |-> find_asset(events[i].asset)]
  /\ source_node_index' =
       [i \in DOMAIN events |->
         find_node_for_asset(find_asset(events[i].asset), events[i].source_node)]
  /\ UNCHANGED <<cursor, tableVars, wireVars, space>>

LoadRefuses == stage = "reading" /\ ~TemplateValid /\ Ends("invalid")

edge_config_load ==
  \/ ReadPlant \/ ReadAsset \/ ReadNode \/ ReadEvent
  \/ FileMissing \/ LineRejected \/ TableFull
  \/ LoadAccepts \/ LoadRefuses

-----------------------------------------------------------------------------
(* edge_config_wire_runtime *)

IndexesValid ==
  /\ \A i \in DOMAIN nodes : asset_index[i] # InvalidIndex
  /\ \A e \in DOMAIN events :
       event_asset_index[e] # InvalidIndex /\ source_node_index[e] # InvalidIndex

edge_config_wire_runtime ==
  /\ stage = "loaded"
  /\ first_node_index' =
       [a \in DOMAIN assets |-> FirstOf({i \in DOMAIN nodes : asset_index[i] = a})]
  /\ node_count' =
       [a \in DOMAIN assets |-> Cardinality({i \in DOMAIN nodes : asset_index[i] = a})]
  /\ stage' = IF IndexesValid THEN "wired" ELSE "unserved"
  /\ UNCHANGED <<cursor, tableVars, indexVars, space>>

-----------------------------------------------------------------------------
(* edge_address_space_load *)

ObjectsFolder == <<"objects", Empty>>

make_plant_nodeid == <<"plant", plant.id>>

make_asset_nodeid(i) == <<"asset", assets[i].id>>

make_variable_nodeid(i) == <<"node", assets[asset_index[i]].id \o nodes[i].id>>

(* Mutant: the first index taken for the missing parent. *)
FirstAssetIsNoParent(i) ==
  IF parent_index[i] > 1 THEN make_asset_nodeid(parent_index[i]) ELSE make_plant_nodeid

ParentNodeId(i) ==
  IF parent_index[i] # InvalidIndex
  THEN make_asset_nodeid(parent_index[i])
  ELSE make_plant_nodeid

(* open62541 adds a node once, below a node that is there. *)
Addable(id, parent) ==
  id \notin DOMAIN space /\ parent \in DOMAIN space \cup {ObjectsFolder}

UA_Server_addNode(id, parent) ==
  /\ Addable(id, parent)
  /\ space' = [x \in DOMAIN space \cup {id} |-> IF x = id THEN parent ELSE space[x]]

add_plant_object ==
  /\ stage = "wired"
  /\ UA_Server_addNode(make_plant_nodeid, ObjectsFolder)
  /\ stage' = "assets"
  /\ UNCHANGED <<cursor, tableVars, indexVars, wireVars>>

add_asset_object ==
  /\ stage = "assets"
  /\ cursor \in DOMAIN assets
  /\ UA_Server_addNode(make_asset_nodeid(cursor), ParentNodeId(cursor))
  /\ cursor' = cursor + 1
  /\ UNCHANGED <<stage, tableVars, indexVars, wireVars>>

add_variable_node ==
  /\ stage = "nodes"
  /\ cursor \in DOMAIN nodes
  /\ UA_Server_addNode(make_variable_nodeid(cursor), make_asset_nodeid(asset_index[cursor]))
  /\ cursor' = cursor + 1
  /\ UNCHANGED <<stage, tableVars, indexVars, wireVars>>

LoopDone(table, label, next) ==
  /\ stage = label
  /\ cursor = Len(table) + 1
  /\ stage' = next
  /\ cursor' = 1
  /\ UNCHANGED <<tableVars, indexVars, wireVars, space>>

(* The call the thread makes next: the new NodeId and its parent. *)
Upcoming ==
  CASE stage = "wired"  -> <<make_plant_nodeid, ObjectsFolder>>
    [] stage = "assets" -> <<make_asset_nodeid(cursor), ParentNodeId(cursor)>>
    [] stage = "nodes"  ->
         <<make_variable_nodeid(cursor), make_asset_nodeid(asset_index[cursor])>>

(* A node is refused: main() clears the server and exits. *)
AddRefused ==
  /\ <<stage, cursor>> \in ({"wired"} \X {1}) \cup ({"assets"} \X DOMAIN assets)
                             \cup ({"nodes"} \X DOMAIN nodes)
  /\ ~Addable(Upcoming[1], Upcoming[2])
  /\ Ends("unserved")

edge_address_space_load ==
  \/ add_plant_object \/ add_asset_object \/ LoopDone(assets, "assets", "nodes")
  \/ add_variable_node \/ LoopDone(nodes, "nodes", "served")
  \/ AddRefused

Next == edge_config_load \/ edge_config_wire_runtime \/ edge_address_space_load

Spec == Init /\ [][Next]_vars

-----------------------------------------------------------------------------

Accepted == stage \in {"loaded", "wired", "assets", "nodes", "served", "unserved"}

Indexes(table) == DOMAIN table \cup {InvalidIndex}

(* The tables stay within the limits and their numbers within the fields   *)
(* of the C structures, and once the template is accepted every index      *)
(* stays within the table it points into.                                  *)
ConfigTypeOK ==
  /\ stage \in Stages
  /\ cursor \in 1 .. Len(assets) + Len(nodes) + 1
  /\ Len(assets) <= MaxAssets /\ Len(nodes) <= MaxNodes /\ Len(events) <= MaxEvents
  /\ \A i \in DOMAIN nodes :
       nodes[i].modbus_unit \in 0 .. UShortMax /\ nodes[i].modbus_register \in 0 .. UIntMax
  /\ \A i \in DOMAIN events : events[i].severity \in 0 .. UShortMax
  /\ Accepted =>
       /\ parent_index \in [DOMAIN assets -> Indexes(assets)]
       /\ asset_index \in [DOMAIN nodes -> DOMAIN assets]
       /\ event_asset_index \in [DOMAIN events -> DOMAIN assets]
       /\ source_node_index \in [DOMAIN events -> DOMAIN nodes]

(***************************************************************************)
(* The rules of the template format: required fields, units, registers     *)
(* and severities in range, no duplicate asset, event or node of an asset, *)
(* parents before children, and references to what the template declares.  *)
(***************************************************************************)
Named(texts) == \A text \in texts : Len(text) \in 1 .. MaxText

WellFormed ==
  /\ Named({plant.id, plant.name})
  /\ \A i \in DOMAIN assets : Named({assets[i].id, assets[i].type, assets[i].name})
  /\ \A i \in DOMAIN nodes :
       /\ Named({nodes[i].id, nodes[i].name})
       /\ nodes[i].data_type \in DataTypes
       /\ nodes[i].modbus_unit \in 1 .. MaxUnit
       /\ nodes[i].modbus_register \in 1 .. UIntMax
  /\ \A i \in DOMAIN events :
       /\ Named({events[i].id})
       /\ events[i].condition \in Conditions
       /\ events[i].severity \in 1 .. UShortMax
  /\ \A i, j \in DOMAIN assets : assets[i].id = assets[j].id => i = j
  /\ \A i, j \in DOMAIN nodes :
       nodes[i].asset = nodes[j].asset /\ nodes[i].id = nodes[j].id => i = j
  /\ \A i, j \in DOMAIN events : events[i].id = events[j].id => i = j
  /\ \A i \in DOMAIN assets :
       assets[i].parent \in {Empty, plant.id} \cup {assets[j].id : j \in 1 .. i - 1}
  /\ \A n \in DOMAIN nodes : \E i \in DOMAIN assets : assets[i].id = nodes[n].asset
  /\ \A e \in DOMAIN events : \E n \in DOMAIN nodes :
       nodes[n].asset = events[e].asset /\ nodes[n].id = events[e].source_node

(* edge_config_load accepts the well-formed templates and no others. *)
LoaderIsExact == (Accepted => WellFormed) /\ (stage = "invalid" => ~WellFormed)

(* An event of an accepted template watches the node with its source's id  *)
(* in its own asset, also when other assets have nodes of that id.         *)
EventWatchesOwnAsset ==
  Accepted =>
    \A e \in DOMAIN events :
      /\ nodes[source_node_index[e]].id = events[e].source_node
      /\ nodes[source_node_index[e]].asset = events[e].asset
      /\ asset_index[source_node_index[e]] = event_asset_index[e]

VariablesDistinct ==
  \A i, j \in DOMAIN nodes :
    nodes[i].asset \o nodes[i].id = nodes[j].asset \o nodes[j].id => i = j

(* edge_address_space_load never fails on what edge_config_load accepted,  *)
(* unless dots in the ids make the NodeIds of two variables equal.         *)
AcceptedIsServed == stage = "unserved" => ~VariablesDistinct

(* The address space clients browse is the tree the template describes:    *)
(* one object per asset below the parent it names, one variable per node   *)
(* below its asset.                                                        *)
TreeAsWritten ==
  stage = "served" =>
    /\ Cardinality(DOMAIN space) = 1 + Len(assets) + Len(nodes)
    /\ \A i \in DOMAIN assets :
         space[<<"asset", assets[i].id>>] =
           IF assets[i].parent \in {Empty, plant.id} THEN <<"plant", plant.id>>
           ELSE <<"asset", assets[i].parent>>
    /\ \A n \in DOMAIN nodes :
         space[<<"node", nodes[n].asset \o nodes[n].id>>] = <<"asset", nodes[n].asset>>
=============================================================================
