-------------------------- MODULE EdgeConfigProofs -------------------------
(***************************************************************************)
(* The properties of EdgeConfig for every template file and every limit.   *)
(*                                                                         *)
(* The argument has three parts.  A search finds the first match if there  *)
(* is one (LeastNatural), so the loader's checks say the same as           *)
(* WellFormed, which knows no searches; that WellFormed implies the check  *)
(* of the parent chain needs the walk up to descend (WalkDescends).  The   *)
(* indexes of an accepted template point to what its texts name            *)
(* (Resolved).  And the address space holds the objects the loops have     *)
(* passed, with parents before children (Placed).                          *)
(***************************************************************************)
EXTENDS EdgeConfig, FiniteSetTheorems, WellFoundedInduction, TLAPS

-----------------------------------------------------------------------------
(* Searches: first and last index. *)

LEMMA LeastNatural ==
  ASSUME NEW T, T \subseteq Nat, T # {}
  PROVE  \E x \in T : \A y \in T : x <= y
<1> DEFINE R == {p \in Nat \X Nat : p[1] < p[2]}
<1>1. IsWellFoundedOn(R, Nat)
  BY NatLessThanWellFounded DEF OpToRel
<1> HIDE DEF R
<1>2. PICK x \in T : \A y \in T : ~(<<y, x>> \in R)
  BY <1>1, WFMin
<1>3. ASSUME NEW y \in T PROVE x <= y
  <2>1. x \in Nat /\ y \in Nat
    OBVIOUS
  <2>2. y < x => <<y, x>> \in R
    BY <2>1 DEF R
  <2> QED BY <1>2, <2>1, <2>2
<1> QED BY <1>3

LEMMA GreatestNatural ==
  ASSUME NEW N \in Nat, NEW T, T \subseteq 1 .. N, T # {}
  PROVE  \E x \in T : \A y \in T : y <= x
<1> DEFINE D == {N - y : y \in T}
<1>1. D \subseteq Nat /\ D # {}
  <2>1. \A y \in T : N - y \in Nat
    OBVIOUS
  <2>2. D \subseteq Nat
    BY <2>1
  <2>3. PICK y \in T : TRUE
    OBVIOUS
  <2>4. N - y \in D
    OBVIOUS
  <2> QED BY <2>2, <2>4
<1>2. PICK d \in D : \A e \in D : d <= e
  BY <1>1, LeastNatural
<1>3. PICK x \in T : d = N - x
  OBVIOUS
<1>4. ASSUME NEW y \in T PROVE y <= x
  <2>1. N - y \in D
    OBVIOUS
  <2> HIDE DEF D
  <2>2. x \in Int /\ y \in Int
    OBVIOUS
  <2>3. N - x <= N - y
    BY <1>2, <1>3, <2>1
  <2> QED BY <2>2, <2>3
<1> QED BY <1>4

(* A search returns its first match, or InvalidIndex if there is none. *)
LEMMA FirstOfFacts ==
  ASSUME NEW matches, matches \subseteq Nat \ {0}
  PROVE  /\ matches = {} => FirstOf(matches) = InvalidIndex
         /\ matches # {} => /\ FirstOf(matches) \in matches
                            /\ FirstOf(matches) # InvalidIndex
                            /\ \A j \in matches : FirstOf(matches) <= j
<1>1. CASE matches = {}
  BY <1>1 DEF FirstOf
<1>2. CASE matches # {}
  <2>1. \E i \in matches : \A j \in matches : i <= j
    BY <1>2, LeastNatural
  <2> DEFINE first == CHOOSE i \in matches : \A j \in matches : i <= j
  <2>2. first \in matches /\ \A j \in matches : first <= j
    BY <2>1
  <2>3. FirstOf(matches) = first
    BY <1>2 DEF FirstOf
  <2> HIDE DEF first
  <2> QED BY <1>2, <2>2, <2>3 DEF InvalidIndex
<1> QED BY <1>1, <1>2

(* A key that a section has is given by one of its lines. *)
LEMMA LastLineFacts ==
  ASSUME NEW s \in Sections, NEW key, LinesOf(s, key) # {}
  PROVE  \E n \in DOMAIN s : s[n].key = key /\ LastLine(s, key) = s[n]
<1>1. s \in Seq({s[n] : n \in DOMAIN s})
  BY ConfigAssumption
<1>2. DOMAIN s = 1 .. Len(s) /\ Len(s) \in Nat
  BY <1>1
<1>3. LinesOf(s, key) \subseteq 1 .. Len(s)
  BY <1>2 DEF LinesOf
<1> DEFINE lines == LinesOf(s, key)
           last == CHOOSE n \in lines : \A m \in lines : m <= n
<1>4. last \in lines
  <2>1. \E n \in lines : \A m \in lines : m <= n
    BY <1>2, <1>3, GreatestNatural
  <2> HIDE DEF lines
  <2> QED BY <2>1
<1>5. LastLine(s, key) = s[last]
  BY DEF LastLine
<1>6. last \in DOMAIN s /\ s[last].key = key
  BY <1>4 DEF LinesOf
<1> HIDE DEF last
<1> QED BY <1>5, <1>6

-----------------------------------------------------------------------------
(* What the loader stores of a section whose lines it accepted. *)

Stored(text) == text = Empty \/ Len(text) \in 1 .. MaxText

ReadableAssets ==
  {begin_asset(s) : s \in {t \in AssetSections : \A n \in DOMAIN t : parse_asset_key(t[n])}}

ReadableNodes ==
  {begin_node(s) : s \in {t \in NodeSections : \A n \in DOMAIN t : parse_node_key(t[n])}}

ReadableEvents ==
  {begin_event(s) : s \in {t \in EventSections : \A n \in DOMAIN t : parse_event_key(t[n])}}

LEMMA CopiedText ==
  ASSUME NEW s \in Sections, NEW n \in DOMAIN s, copy_value(s[n].text)
  PROVE  Len(s[n].text) \in 1 .. MaxText
<1>1. s[n].text \in Seq({s[n].text[k] : k \in DOMAIN s[n].text})
  BY ConfigAssumption
<1>2. Len(s[n].text) \in Nat /\ (Len(s[n].text) = 0 => s[n].text = <<>>)
  BY <1>1
<1> QED BY <1>2, ConfigAssumption DEF copy_value, Empty

(* A text whose lines are all copied is stored, or left as it was. *)
LEMMA StoredText ==
  ASSUME NEW s \in Sections, NEW key, NEW unset, Stored(unset),
         \A n \in DOMAIN s : s[n].key = key => copy_value(s[n].text)
  PROVE  Stored(TextOf(s, key, unset))
<1>1. CASE LinesOf(s, key) = {}
  BY <1>1 DEF TextOf
<1>2. CASE LinesOf(s, key) # {}
  <2>1. PICK n \in DOMAIN s : s[n].key = key /\ LastLine(s, key) = s[n]
    BY <1>2, LastLineFacts
  <2> QED BY <1>2, <2>1, CopiedText DEF TextOf, Stored
<1> QED BY <1>1, <1>2

LEMMA StoredMember ==
  ASSUME NEW s \in Sections, NEW key, NEW Words,
         \A n \in DOMAIN s : s[n].key = key => s[n].text \in Words
  PROVE  TextOf(s, key, Empty) \in {Empty} \cup Words
<1>1. CASE LinesOf(s, key) # {}
  <2>1. PICK n \in DOMAIN s : s[n].key = key /\ LastLine(s, key) = s[n]
    BY <1>1, LastLineFacts
  <2> QED BY <1>1, <2>1 DEF TextOf
<1> QED BY <1>1 DEF TextOf

LEMMA StoredNumber ==
  ASSUME NEW s \in Sections, NEW key, NEW max \in Nat,
         \A n \in DOMAIN s : s[n].key = key => Numeral(s[n].number) /\ strtoul(s[n].number) <= max
  PROVE  UnsignedOf(s, key) \in 0 .. max
<1>1. CASE LinesOf(s, key) # {}
  <2>1. PICK n \in DOMAIN s : s[n].key = key /\ LastLine(s, key) = s[n]
    BY <1>1, LastLineFacts
  <2>2. Numeral(s[n].number) /\ strtoul(s[n].number) <= max
    BY <2>1
  <2>3. strtoul(s[n].number) \in 0 .. max
    BY <2>2, ConfigAssumption DEF Numeral, strtoul
  <2> QED BY <1>1, <2>1, <2>3 DEF UnsignedOf
<1> QED BY <1>1 DEF UnsignedOf

AssetStored(a) == Stored(a.id) /\ Stored(a.type) /\ Stored(a.name)

NodeStored(n) ==
  /\ Stored(n.id) /\ Stored(n.name)
  /\ n.data_type \in {Empty} \cup DataTypes
  /\ n.modbus_unit \in 0 .. MaxUnit /\ n.modbus_register \in 0 .. UIntMax

EventStored(e) ==
  /\ Stored(e.id)
  /\ e.condition \in {Empty} \cup Conditions
  /\ e.severity \in 0 .. UShortMax

LEMMA AssetsStored == \A a \in ReadableAssets : AssetStored(a)
<1> SUFFICES ASSUME NEW s \in AssetSections, \A n \in DOMAIN s : parse_asset_key(s[n])
             PROVE  AssetStored(begin_asset(s))
  BY DEF ReadableAssets
<1>1. s \in Sections /\ Stored(Empty)
  BY DEF Sections, Stored
<1>2. \A n \in DOMAIN s : s[n].key \in {"id", "type", "name"} => copy_value(s[n].text)
  BY DEF parse_asset_key
<1>3. /\ Stored(TextOf(s, "id", Empty)) /\ Stored(TextOf(s, "type", Empty))
      /\ Stored(TextOf(s, "name", Empty))
  BY <1>1, <1>2, StoredText
<1> QED BY <1>3 DEF AssetStored, begin_asset

LEMMA NodesStored == \A n \in ReadableNodes : NodeStored(n)
<1> SUFFICES ASSUME NEW s \in NodeSections, \A n \in DOMAIN s : parse_node_key(s[n])
             PROVE  NodeStored(begin_node(s))
  BY DEF ReadableNodes
<1>1. s \in Sections /\ Stored(Empty)
  BY DEF Sections, Stored
<1>2. \A n \in DOMAIN s :
        /\ s[n].key \in {"id", "name"} => copy_value(s[n].text)
        /\ s[n].key = "data_type" => s[n].text \in DataTypes
        /\ s[n].key = "modbus_unit" =>
             parse_u16(s[n].number) /\ strtoul(s[n].number) \in 1 .. MaxUnit
        /\ s[n].key = "modbus_register" => parse_u32(s[n].number)
  BY DEF parse_node_key
<1>3. Stored(TextOf(s, "id", Empty)) /\ Stored(TextOf(s, "name", Empty))
  BY <1>1, <1>2, StoredText
<1>4. TextOf(s, "data_type", Empty) \in {Empty} \cup DataTypes
  BY <1>1, <1>2, StoredMember
<1>5. UnsignedOf(s, "modbus_unit") \in 0 .. MaxUnit
  BY <1>1, <1>2, StoredNumber, ConfigAssumption DEF parse_u16
<1>6. UnsignedOf(s, "modbus_register") \in 0 .. UIntMax
  BY <1>1, <1>2, StoredNumber, ConfigAssumption DEF parse_u32
<1> QED BY <1>3, <1>4, <1>5, <1>6 DEF NodeStored, begin_node

LEMMA EventsStored == \A e \in ReadableEvents : EventStored(e)
<1> SUFFICES ASSUME NEW s \in EventSections, \A n \in DOMAIN s : parse_event_key(s[n])
             PROVE  EventStored(begin_event(s))
  BY DEF ReadableEvents
<1>1. s \in Sections /\ Stored(Empty)
  BY DEF Sections, Stored
<1>2. \A n \in DOMAIN s :
        /\ s[n].key = "id" => copy_value(s[n].text)
        /\ s[n].key = "condition" => s[n].text \in Conditions
        /\ s[n].key = "severity" => parse_u16(s[n].number)
  BY DEF parse_event_key
<1>3. Stored(TextOf(s, "id", Empty))
  BY <1>1, <1>2, StoredText
<1>4. TextOf(s, "condition", Empty) \in {Empty} \cup Conditions
  BY <1>1, <1>2, StoredMember
<1>5. UnsignedOf(s, "severity") \in 0 .. UShortMax
  BY <1>1, <1>2, StoredNumber, ConfigAssumption DEF parse_u16
<1> QED BY <1>3, <1>4, <1>5 DEF EventStored, begin_event

-----------------------------------------------------------------------------
(* The tables, and searches in them. *)

Tables ==
  /\ assets \in Seq(ReadableAssets) /\ nodes \in Seq(ReadableNodes)
  /\ events \in Seq(ReadableEvents)
  /\ Len(assets) <= MaxAssets /\ Len(nodes) <= MaxNodes /\ Len(events) <= MaxEvents
  /\ Stored(plant.id) /\ Stored(plant.name)

LEMMA TableFacts ==
  ASSUME Tables
  PROVE  /\ Len(assets) \in Nat /\ DOMAIN assets = 1 .. Len(assets)
         /\ Len(nodes) \in Nat /\ DOMAIN nodes = 1 .. Len(nodes)
         /\ Len(events) \in Nat /\ DOMAIN events = 1 .. Len(events)
         /\ \A i \in DOMAIN assets : AssetStored(assets[i])
         /\ \A i \in DOMAIN nodes : NodeStored(nodes[i])
         /\ \A i \in DOMAIN events : EventStored(events[i])
  BY AssetsStored, NodesStored, EventsStored DEF Tables

LEMMA FindAsset ==
  ASSUME Tables, NEW id
  PROVE  /\ find_asset(id) # InvalidIndex =>
              find_asset(id) \in DOMAIN assets /\ assets[find_asset(id)].id = id
         /\ \A i \in DOMAIN assets : assets[i].id = id =>
              find_asset(id) # InvalidIndex /\ find_asset(id) <= i
<1> DEFINE matches == {i \in DOMAIN assets : assets[i].id = id}
<1>1. matches \subseteq Nat \ {0}
  BY TableFacts
<1>2. find_asset(id) = FirstOf(matches)
  BY DEF find_asset
<1> QED BY <1>1, <1>2, FirstOfFacts

LEMMA FindEvent ==
  ASSUME Tables, NEW id
  PROVE  /\ find_event(id) # InvalidIndex =>
              find_event(id) \in DOMAIN events /\ events[find_event(id)].id = id
         /\ \A i \in DOMAIN events : events[i].id = id => find_event(id) # InvalidIndex
<1> DEFINE matches == {i \in DOMAIN events : events[i].id = id}
<1>1. matches \subseteq Nat \ {0}
  BY TableFacts
<1>2. find_event(id) = FirstOf(matches)
  BY DEF find_event
<1> QED BY <1>1, <1>2, FirstOfFacts

LEMMA FindNode ==
  ASSUME Tables, NEW asset, NEW id
  PROVE  LET found == find_node_for_asset(asset, id)
         IN  /\ found # InvalidIndex => /\ found \in DOMAIN nodes
                                        /\ find_asset(nodes[found].asset) = asset
                                        /\ nodes[found].id = id
             /\ \A i \in DOMAIN nodes : find_asset(nodes[i].asset) = asset /\ nodes[i].id = id =>
                  found # InvalidIndex
<1> DEFINE matches == {i \in DOMAIN nodes : find_asset(nodes[i].asset) = asset /\ nodes[i].id = id}
<1>1. matches \subseteq Nat \ {0}
  BY TableFacts
<1>2. find_node_for_asset(asset, id) = FirstOf(matches)
  BY DEF find_node_for_asset
<1> QED BY <1>1, <1>2, FirstOfFacts

-----------------------------------------------------------------------------
(* The loader accepts the well-formed templates ... *)

LEMMA ValidParent ==
  ASSUME Tables, NEW i \in DOMAIN assets, ParentDeclared(i)
  PROVE  IF assets[i].parent \in {Empty, plant.id} THEN ParentOf(i) = InvalidIndex
         ELSE ParentOf(i) \in 1 .. i - 1 /\ assets[ParentOf(i)].id = assets[i].parent
<1>1. CASE assets[i].parent \in {Empty, plant.id}
  BY <1>1 DEF ParentOf
<1>2. CASE assets[i].parent \notin {Empty, plant.id}
  <2>1. ParentOf(i) = find_asset(assets[i].parent) /\ ParentOf(i) # InvalidIndex /\ ParentOf(i) < i
    BY <1>2 DEF ParentDeclared, ParentOf
  <2>2. ParentOf(i) \in DOMAIN assets /\ assets[ParentOf(i)].id = assets[i].parent
    BY <2>1, FindAsset
  <2> QED BY <1>2, <2>1, <2>2, TableFacts
<1> QED BY <1>1, <1>2

LEMMA ValidEvent ==
  ASSUME Tables, NEW e \in DOMAIN events, EventResolves(e)
  PROVE  LET asset == find_asset(events[e].asset)
             node == find_node_for_asset(asset, events[e].source_node)
         IN  /\ asset \in DOMAIN assets /\ assets[asset].id = events[e].asset
             /\ node \in DOMAIN nodes /\ nodes[node].id = events[e].source_node
             /\ find_asset(nodes[node].asset) = asset /\ nodes[node].asset = events[e].asset
<1> DEFINE asset == find_asset(events[e].asset)
           node == find_node_for_asset(asset, events[e].source_node)
<1>1. asset # InvalidIndex /\ node # InvalidIndex
  BY DEF EventResolves
<1>2. asset \in DOMAIN assets /\ assets[asset].id = events[e].asset
  BY <1>1, FindAsset
<1>3. /\ node \in DOMAIN nodes /\ nodes[node].id = events[e].source_node
      /\ find_asset(nodes[node].asset) = asset
  BY <1>1, FindNode
<1>4. nodes[node].asset = events[e].asset
  BY <1>1, <1>2, <1>3, FindAsset
<1> QED BY <1>2, <1>3, <1>4

LEMMA ValidIsWellFormed == Tables /\ TemplateValid => WellFormed
<1> SUFFICES ASSUME Tables, TemplateValid PROVE WellFormed
  OBVIOUS
<1> USE TableFacts
<1>1. /\ Named({plant.id, plant.name})
      /\ \A i \in DOMAIN assets : Named({assets[i].id, assets[i].type, assets[i].name})
  BY DEF TemplateValid, validate_required_fields, Tables, Stored, AssetStored, Named
<1>2. \A i \in DOMAIN nodes :
       /\ Named({nodes[i].id, nodes[i].name})
       /\ nodes[i].data_type \in DataTypes
       /\ nodes[i].modbus_unit \in 1 .. MaxUnit
       /\ nodes[i].modbus_register \in 1 .. UIntMax
  BY ConfigAssumption DEF TemplateValid, validate_required_fields, Stored, NodeStored, Named
<1>3. \A i \in DOMAIN events :
       /\ Named({events[i].id})
       /\ events[i].condition \in Conditions
       /\ events[i].severity \in 1 .. UShortMax
  BY ConfigAssumption DEF TemplateValid, validate_required_fields, Stored, EventStored, Named
<1>4. /\ \A i, j \in DOMAIN assets : assets[i].id = assets[j].id => i = j
      /\ \A i, j \in DOMAIN nodes :
           nodes[i].asset = nodes[j].asset /\ nodes[i].id = nodes[j].id => i = j
  BY DEF TemplateValid, validate_duplicates
<1>5. \A i, j \in DOMAIN events : events[i].id = events[j].id => i = j
  BY DEF TemplateValid, validate_duplicates
<1>6. \A i \in DOMAIN assets :
        assets[i].parent \in {Empty, plant.id} \cup {assets[j].id : j \in 1 .. i - 1}
  <2> TAKE i \in DOMAIN assets
  <2>1. ParentDeclared(i)
    BY DEF TemplateValid, ReferencesValid
  <2>2. CASE assets[i].parent \notin {Empty, plant.id}
    <3>1. ParentOf(i) \in 1 .. i - 1 /\ assets[ParentOf(i)].id = assets[i].parent
      BY <2>1, <2>2, ValidParent
    <3> QED BY <3>1
  <2> QED BY <2>2
<1>7. \A n \in DOMAIN nodes : \E i \in DOMAIN assets : assets[i].id = nodes[n].asset
  <2> TAKE n \in DOMAIN nodes
  <2>1. find_asset(nodes[n].asset) # InvalidIndex
    BY DEF TemplateValid, ReferencesValid, NodeResolves
  <2> QED BY <2>1, FindAsset
<1>8. \A e \in DOMAIN events : \E n \in DOMAIN nodes :
        nodes[n].asset = events[e].asset /\ nodes[n].id = events[e].source_node
  <2> TAKE e \in DOMAIN events
  <2>1. EventResolves(e)
    BY DEF TemplateValid, ReferencesValid
  <2> QED BY <2>1, ValidEvent
<1> QED BY <1>1, <1>2, <1>3, <1>4, <1>5, <1>6, <1>7, <1>8 DEF WellFormed

-----------------------------------------------------------------------------
(* ... and no others.  In a well-formed template every parent has a        *)
(* smaller index, so the walk up ends within as many hops as there are     *)
(* assets.                                                                 *)

Hop(from) == IF from = InvalidIndex THEN InvalidIndex ELSE ParentOf(from)

IsWalk(f, i, hops) ==
  f = [h \in 0 .. hops |-> IF h = 0 THEN Hop(i) ELSE Hop(f[h - 1])]

(* A walk can be made one hop longer. *)
LEMMA WalkGrows ==
  ASSUME NEW i, NEW f, NEW hops \in Nat, IsWalk(f, i, hops)
  PROVE  \E g : IsWalk(g, i, hops + 1)
<1> DEFINE g == [h \in 0 .. hops + 1 |-> IF h <= hops THEN f[h] ELSE Hop(f[hops])]
<1>0. \A h \in 0 .. hops : f[h] = IF h = 0 THEN Hop(i) ELSE Hop(f[h - 1])
  BY DEF IsWalk
<1>1. ASSUME NEW h \in 0 .. hops + 1
      PROVE  g[h] = IF h = 0 THEN Hop(i) ELSE Hop(g[h - 1])
  <2>1. CASE h = 0
    BY <1>0, <2>1
  <2>2. CASE h \in 1 .. hops
    <3>1. h - 1 \in 0 .. hops /\ h \in 0 .. hops
      BY <2>2
    <3> QED BY <1>0, <2>2, <3>1
  <2>3. CASE h = hops + 1
    BY <2>3
  <2> QED BY <2>1, <2>2, <2>3
<1>2. g = [h \in 0 .. hops + 1 |-> IF h = 0 THEN Hop(i) ELSE Hop(g[h - 1])]
  BY <1>1
<1> QED BY <1>2 DEF IsWalk

LEMMA WalkExists ==
  ASSUME NEW i, NEW hops \in Nat
  PROVE  \E f : IsWalk(f, i, hops)
<1> DEFINE Missing == {h \in Nat : ~\E f : IsWalk(f, i, h)}
<1>1. ASSUME Missing # {} PROVE FALSE
  <2>1. PICK m \in Missing : \A h \in Missing : m <= h
    BY <1>1, LeastNatural
  <2>2. m # 0
    <3> DEFINE f == [h \in 0 .. 0 |-> Hop(i)]
    <3>1. f = [h \in 0 .. 0 |-> IF h = 0 THEN Hop(i) ELSE Hop(f[h - 1])]
      OBVIOUS
    <3>2. IsWalk(f, i, 0)
      BY <3>1 DEF IsWalk
    <3> QED BY <3>2
  <2>3. m - 1 \in Nat /\ m - 1 \notin Missing
    BY <2>1, <2>2
  <2>4. PICK f : IsWalk(f, i, m - 1)
    BY <2>3
  <2>5. \E g : IsWalk(g, i, m - 1 + 1)
    BY <2>3, <2>4, WalkGrows
  <2> QED BY <2>3, <2>5
<1> QED BY <1>1

LEMMA ClimbIsWalk ==
  ASSUME NEW i, Len(assets) \in Nat
  PROVE  IsWalk(Climb(i), i, Len(assets) + 1)
<1>1. \E f : IsWalk(f, i, Len(assets) + 1)
  <2>1. Len(assets) + 1 \in Nat
    OBVIOUS
  <2> QED BY <2>1, WalkExists
<1>2. Climb(i) = CHOOSE f : IsWalk(f, i, Len(assets) + 1)
  BY DEF Climb, IsWalk, Hop
<1> QED BY <1>1, <1>2

LEMMA WellFormedParent ==
  ASSUME Tables, WellFormed, NEW i \in DOMAIN assets
  PROVE  ParentDeclared(i) /\ ParentOf(i) \in 0 .. i - 1
<1>1. CASE assets[i].parent \in {Empty, plant.id}
  BY <1>1, TableFacts DEF ParentDeclared, ParentOf, InvalidIndex
<1>2. CASE assets[i].parent \notin {Empty, plant.id}
  <2>1. PICK j \in 1 .. i - 1 : assets[j].id = assets[i].parent
    BY <1>2 DEF WellFormed
  <2>2. j \in DOMAIN assets
    BY <2>1, TableFacts
  <2>3. ParentOf(i) # InvalidIndex /\ ParentOf(i) <= j /\ ParentOf(i) \in DOMAIN assets
    BY <1>2, <2>1, <2>2, FindAsset DEF ParentOf
  <2> QED BY <2>3, TableFacts DEF ParentDeclared
<1> QED BY <1>1, <1>2

LEMMA WalkDescends ==
  ASSUME Tables, WellFormed, NEW i \in DOMAIN assets
  PROVE  \A h \in 0 .. Len(assets) + 1 :
           Climb(i)[h] = InvalidIndex \/ Climb(i)[h] \in 1 .. i - 1 - h
<1> DEFINE up == Climb(i)
           Good(h) == up[h] = InvalidIndex \/ up[h] \in 1 .. i - 1 - h
           Bad == {h \in 0 .. Len(assets) + 1 : ~Good(h)}
<1>0. /\ Len(assets) \in Nat /\ DOMAIN assets = 1 .. Len(assets) /\ i \in 1 .. Len(assets)
      /\ i # InvalidIndex
  BY TableFacts DEF InvalidIndex
<1>1. \A h \in 0 .. Len(assets) + 1 : up[h] = IF h = 0 THEN Hop(i) ELSE Hop(up[h - 1])
  BY <1>0, ClimbIsWalk DEF IsWalk
<1>2. ASSUME Bad # {} PROVE FALSE
  <2>1. Bad \subseteq Nat
    BY <1>0
  <2>2. PICK m \in Bad : \A h \in Bad : m <= h
    BY <1>2, <2>1, LeastNatural
  <2>3. m \in 0 .. Len(assets) + 1 /\ ~Good(m)
    BY <2>2
  <2> HIDE DEF up
  <2>4. CASE m = 0
    <3>1. up[m] = ParentOf(i)
      BY <1>0, <1>1, <2>3, <2>4 DEF Hop
    <3> QED BY <1>0, <2>3, <2>4, <3>1, WellFormedParent DEF InvalidIndex
  <2>5. CASE m # 0
    <3>1. m - 1 \in 0 .. Len(assets) + 1 /\ m - 1 \notin Bad
      BY <1>0, <2>2, <2>3, <2>5
    <3>2. Good(m - 1) /\ up[m] = Hop(up[m - 1])
      BY <1>1, <2>3, <2>5, <3>1
    <3>3. CASE up[m - 1] = InvalidIndex
      BY <2>3, <3>2, <3>3 DEF Hop
    <3>4. CASE up[m - 1] \in 1 .. i - 1 - (m - 1)
      <4>1. up[m - 1] \in DOMAIN assets /\ up[m - 1] # InvalidIndex
        BY <1>0, <2>3, <3>4 DEF InvalidIndex
      <4>2. up[m] \in 0 .. up[m - 1] - 1
        BY <3>2, <4>1, WellFormedParent DEF Hop
      <4> QED BY <1>0, <2>3, <3>4, <4>2 DEF InvalidIndex
    <3> QED BY <3>2, <3>3, <3>4
  <2> QED BY <2>4, <2>5
<1> QED BY <1>2

LEMMA WellFormedChain ==
  ASSUME Tables, WellFormed, NEW i \in DOMAIN assets
  PROVE  ParentChainEnds(i)
<1>0. Len(assets) \in Nat /\ i \in 1 .. Len(assets)
  BY TableFacts
<1>1. DOMAIN Climb(i) = 0 .. Len(assets) + 1
  BY <1>0, ClimbIsWalk DEF IsWalk
<1>2. \A h \in 0 .. Len(assets) + 1 : Climb(i)[h] # i
  BY <1>0, WalkDescends DEF InvalidIndex
<1>3. Climb(i)[Len(assets) + 1] = InvalidIndex
  BY <1>0, WalkDescends
<1> QED BY <1>1, <1>2, <1>3 DEF ParentChainEnds

LEMMA WellFormedIsValid == Tables /\ WellFormed => TemplateValid
<1> SUFFICES ASSUME Tables, WellFormed PROVE TemplateValid
  OBVIOUS
<1> USE TableFacts
<1>0. Len(Empty) = 0
  BY DEF Empty
<1>1. \A n \in DOMAIN nodes : NodeResolves(n)
  <2> TAKE n \in DOMAIN nodes
  <2>1. PICK i \in DOMAIN assets : assets[i].id = nodes[n].asset
    BY DEF WellFormed
  <2> QED BY <2>1, FindAsset DEF NodeResolves
<1>2. \A e \in DOMAIN events : EventResolves(e)
  <2> TAKE e \in DOMAIN events
  <2>1. PICK n \in DOMAIN nodes :
          nodes[n].asset = events[e].asset /\ nodes[n].id = events[e].source_node
    BY DEF WellFormed
  <2>2. find_asset(events[e].asset) # InvalidIndex
    BY <1>1, <2>1 DEF NodeResolves
  <2>3. find_node_for_asset(find_asset(events[e].asset), events[e].source_node) # InvalidIndex
    BY <2>1, FindNode
  <2> QED BY <2>2, <2>3 DEF EventResolves
<1>3. ReferencesValid
  BY <1>1, <1>2, WellFormedParent, WellFormedChain DEF ReferencesValid
<1>4. validate_duplicates
  <2>1. \A i \in DOMAIN assets : \A j \in i + 1 .. Len(assets) : assets[i].id # assets[j].id
    <3> TAKE i \in DOMAIN assets
    <3> TAKE j \in i + 1 .. Len(assets)
    <3>1. j \in DOMAIN assets /\ i # j
      OBVIOUS
    <3> QED BY <3>1 DEF WellFormed
  <2>2. \A i \in DOMAIN nodes : \A j \in i + 1 .. Len(nodes) :
          nodes[i].asset # nodes[j].asset \/ nodes[i].id # nodes[j].id
    BY DEF WellFormed
  <2>3. \A i \in DOMAIN events : find_event(events[i].id) = i
    BY FindEvent DEF WellFormed
  <2> QED BY <2>1, <2>2, <2>3 DEF validate_duplicates
<1>5. validate_required_fields
  <2>1. \A i \in DOMAIN nodes : nodes[i].asset # Empty
    BY <1>0 DEF WellFormed, Named
  <2>2. \A i \in DOMAIN events : events[i].asset # Empty /\ events[i].source_node # Empty
    <3> TAKE i \in DOMAIN events
    <3>1. PICK n \in DOMAIN nodes :
            nodes[n].asset = events[i].asset /\ nodes[n].id = events[i].source_node
      BY DEF WellFormed
    <3>2. nodes[n].id # Empty
      BY <1>0 DEF WellFormed, Named
    <3> QED BY <2>1, <3>1, <3>2
  <2>3. Empty \notin {plant.id, plant.name}
    BY <1>0 DEF WellFormed, Named
  <2>4. \A i \in DOMAIN assets : Empty \notin {assets[i].id, assets[i].type, assets[i].name}
    BY <1>0 DEF WellFormed, Named
  <2>5. Empty \notin DataTypes /\ Empty \notin Conditions
    BY DEF Empty, DataTypes, Conditions
  <2>6. \A i \in DOMAIN nodes :
          /\ Empty \notin {nodes[i].id, nodes[i].name, nodes[i].data_type}
          /\ nodes[i].modbus_unit # 0 /\ nodes[i].modbus_register # 0
    BY <1>0, <2>5 DEF WellFormed, Named
  <2>7. \A i \in DOMAIN events :
          Empty \notin {events[i].id, events[i].condition} /\ events[i].severity # 0
    BY <1>0, <2>5 DEF WellFormed, Named
  <2> QED BY <2>1, <2>2, <2>3, <2>4, <2>6, <2>7 DEF validate_required_fields
<1> QED BY <1>3, <1>4, <1>5 DEF TemplateValid

-----------------------------------------------------------------------------
(* The inductive invariant: the tables are what readable sections give;    *)
(* the indexes of an accepted template point to what the texts name; and   *)
(* the address space holds the objects that the loops have passed.         *)

Resolved ==
  /\ parent_index \in [DOMAIN assets -> Indexes(assets)]
  /\ asset_index \in [DOMAIN nodes -> DOMAIN assets]
  /\ event_asset_index \in [DOMAIN events -> DOMAIN assets]
  /\ source_node_index \in [DOMAIN events -> DOMAIN nodes]
  /\ \A i \in DOMAIN assets :
       IF assets[i].parent \in {Empty, plant.id} THEN parent_index[i] = InvalidIndex
       ELSE parent_index[i] \in 1 .. i - 1 /\ assets[parent_index[i]].id = assets[i].parent
  /\ \A n \in DOMAIN nodes : assets[asset_index[n]].id = nodes[n].asset
  /\ \A e \in DOMAIN events :
       /\ nodes[source_node_index[e]].id = events[e].source_node
       /\ nodes[source_node_index[e]].asset = events[e].asset
       /\ asset_index[source_node_index[e]] = event_asset_index[e]

AssetId(i) == <<"asset", assets[i].id>>

VariableId(n) == <<"node", nodes[n].asset \o nodes[n].id>>

TemplateParent(i) ==
  IF assets[i].parent \in {Empty, plant.id} THEN <<"plant", plant.id>>
  ELSE <<"asset", assets[i].parent>>

(* The address space after the objects of a assets and n variables. *)
Placed(a, n) ==
  /\ DOMAIN space = {make_plant_nodeid} \cup {AssetId(i) : i \in 1 .. a}
                      \cup {VariableId(j) : j \in 1 .. n}
  /\ \A i \in 1 .. a : space[AssetId(i)] = TemplateParent(i)
  /\ \A j \in 1 .. n : space[VariableId(j)] = <<"asset", nodes[j].asset>>
  /\ IsFiniteSet(DOMAIN space)
  /\ Cardinality(DOMAIN space) = 1 + a + n

BeforeServing == {"reading", "loaded", "wired", "rejected", "invalid"}

Progress ==
  /\ stage \in BeforeServing => cursor = 1 /\ space = <<>>
  /\ stage = "assets" => cursor \in 1 .. Len(assets) + 1 /\ Placed(cursor - 1, 0)
  /\ stage = "nodes" => cursor \in 1 .. Len(nodes) + 1 /\ Placed(Len(assets), cursor - 1)
  /\ stage = "served" => cursor = 1 /\ Placed(Len(assets), Len(nodes))
  /\ stage = "unserved" => ~VariablesDistinct /\ cursor \in 1 .. Len(assets) + Len(nodes) + 1

ConfigInv ==
  /\ Tables
  /\ stage \in Stages
  /\ Accepted => WellFormed /\ Resolved
  /\ stage = "invalid" => ~WellFormed
  /\ Progress

LEMMA AcceptedResolves ==
  ASSUME Tables, LoadAccepts
  PROVE  Resolved'
<1> USE TableFacts
<1>1. UNCHANGED <<plant, assets, nodes, events>>
  BY DEF LoadAccepts, tableVars
<1>2. \A i \in DOMAIN assets :
        /\ parent_index'[i] = ParentOf(i)
        /\ IF assets[i].parent \in {Empty, plant.id} THEN ParentOf(i) = InvalidIndex
           ELSE ParentOf(i) \in 1 .. i - 1 /\ assets[ParentOf(i)].id = assets[i].parent
  BY ValidParent DEF LoadAccepts, TemplateValid, ReferencesValid
<1>3. \A i \in DOMAIN assets : ParentOf(i) \in Indexes(assets)
  BY <1>2 DEF Indexes
<1>4. parent_index' \in [DOMAIN assets -> Indexes(assets)]
  BY <1>3 DEF LoadAccepts
<1>5. \A n \in DOMAIN nodes :
        /\ asset_index'[n] = find_asset(nodes[n].asset)
        /\ asset_index'[n] \in DOMAIN assets /\ assets[asset_index'[n]].id = nodes[n].asset
  BY FindAsset DEF LoadAccepts, TemplateValid, ReferencesValid, NodeResolves
<1>6. asset_index' \in [DOMAIN nodes -> DOMAIN assets]
  BY <1>5 DEF LoadAccepts
<1>7. \A e \in DOMAIN events :
        /\ event_asset_index'[e] = find_asset(events[e].asset)
        /\ source_node_index'[e] =
             find_node_for_asset(find_asset(events[e].asset), events[e].source_node)
        /\ EventResolves(e)
  BY DEF LoadAccepts, TemplateValid, ReferencesValid
<1>8. \A e \in DOMAIN events :
        /\ event_asset_index'[e] \in DOMAIN assets
        /\ source_node_index'[e] \in DOMAIN nodes
        /\ nodes[source_node_index'[e]].id = events[e].source_node
        /\ nodes[source_node_index'[e]].asset = events[e].asset
        /\ find_asset(nodes[source_node_index'[e]].asset) = event_asset_index'[e]
  BY <1>7, ValidEvent
<1>9. /\ event_asset_index' \in [DOMAIN events -> DOMAIN assets]
      /\ source_node_index' \in [DOMAIN events -> DOMAIN nodes]
  BY <1>8 DEF LoadAccepts
<1>10. \A e \in DOMAIN events : asset_index'[source_node_index'[e]] = event_asset_index'[e]
  BY <1>5, <1>8
<1> QED BY <1>1, <1>2, <1>4, <1>5, <1>6, <1>8, <1>9, <1>10 DEF Resolved, Indexes

Reads == ReadPlant \/ ReadAsset \/ ReadNode \/ ReadEvent

LEMMA ReadsTables ==
  ASSUME Tables, Reads
  PROVE  Tables' /\ stage = "reading" /\ UNCHANGED <<stage, cursor, space>>
<1>1. CASE ReadPlant
  <2>1. PICK s \in PlantSections :
          /\ \A n \in DOMAIN s : parse_plant_key(s[n])
          /\ plant' = [id |-> TextOf(s, "id", plant.id), name |-> TextOf(s, "name", plant.name)]
    BY <1>1 DEF ReadPlant
  <2>2. s \in Sections /\ \A n \in DOMAIN s : copy_value(s[n].text)
    BY <2>1 DEF Sections, parse_plant_key
  <2>3. Stored(plant'.id) /\ Stored(plant'.name)
    BY <2>1, <2>2, StoredText DEF Tables
  <2> QED BY <1>1, <2>3 DEF ReadPlant, Tables, Stored
<1>2. CASE ReadAsset
  <2>1. PICK s \in AssetSections :
          /\ \A n \in DOMAIN s : parse_asset_key(s[n])
          /\ assets' = Append(assets, begin_asset(s))
    BY <1>2 DEF ReadAsset
  <2>2. begin_asset(s) \in ReadableAssets
    BY <2>1 DEF ReadableAssets
  <2>3. assets' \in Seq(ReadableAssets) /\ Len(assets') = Len(assets) + 1 /\ Len(assets) \in Nat
    BY <2>1, <2>2 DEF Tables
  <2> QED BY <1>2, <2>3, ConfigAssumption DEF ReadAsset, Tables, Stored
<1>3. CASE ReadNode
  <2>1. PICK s \in NodeSections :
          /\ \A n \in DOMAIN s : parse_node_key(s[n])
          /\ nodes' = Append(nodes, begin_node(s))
    BY <1>3 DEF ReadNode
  <2>2. begin_node(s) \in ReadableNodes
    BY <2>1 DEF ReadableNodes
  <2>3. nodes' \in Seq(ReadableNodes) /\ Len(nodes') = Len(nodes) + 1 /\ Len(nodes) \in Nat
    BY <2>1, <2>2 DEF Tables
  <2> QED BY <1>3, <2>3, ConfigAssumption DEF ReadNode, Tables, Stored
<1>4. CASE ReadEvent
  <2>1. PICK s \in EventSections :
          /\ \A n \in DOMAIN s : parse_event_key(s[n])
          /\ events' = Append(events, begin_event(s))
    BY <1>4 DEF ReadEvent
  <2>2. begin_event(s) \in ReadableEvents
    BY <2>1 DEF ReadableEvents
  <2>3. events' \in Seq(ReadableEvents) /\ Len(events') = Len(events) + 1 /\ Len(events) \in Nat
    BY <2>1, <2>2 DEF Tables
  <2> QED BY <1>4, <2>3, ConfigAssumption DEF ReadEvent, Tables, Stored
<1> QED BY <1>1, <1>2, <1>3, <1>4 DEF Reads

-----------------------------------------------------------------------------
(* Serving: what one call of UA_Server_addNode does to the address space,  *)
(* and why it can be refused only for two variables of one NodeId.         *)

LEMMA NodeAdded ==
  ASSUME NEW id, NEW parent, IsFiniteSet(DOMAIN space), UA_Server_addNode(id, parent)
  PROVE  /\ DOMAIN space' = DOMAIN space \cup {id}
         /\ space'[id] = parent
         /\ \A x \in DOMAIN space : space'[x] = space[x]
         /\ IsFiniteSet(DOMAIN space')
         /\ Cardinality(DOMAIN space') = Cardinality(DOMAIN space) + 1
<1>1. id \notin DOMAIN space /\ DOMAIN space' = DOMAIN space \cup {id}
  BY DEF UA_Server_addNode, Addable
<1>2. /\ IsFiniteSet(DOMAIN space \cup {id})
      /\ Cardinality(DOMAIN space \cup {id}) = Cardinality(DOMAIN space) + 1
  BY <1>1, FS_AddElement
<1> QED BY <1>1, <1>2 DEF UA_Server_addNode, Addable

LEMMA UpcomingAsset ==
  ASSUME Tables, Resolved, NEW i \in DOMAIN assets
  PROVE  make_asset_nodeid(i) = AssetId(i) /\ ParentNodeId(i) = TemplateParent(i)
<1>1. CASE assets[i].parent \in {Empty, plant.id}
  BY <1>1 DEF Resolved, make_asset_nodeid, AssetId, ParentNodeId, TemplateParent, make_plant_nodeid
<1>2. CASE assets[i].parent \notin {Empty, plant.id}
  <2>1. parent_index[i] \in 1 .. i - 1 /\ assets[parent_index[i]].id = assets[i].parent
    BY <1>2 DEF Resolved
  <2>2. parent_index[i] # InvalidIndex
    BY <2>1, TableFacts DEF InvalidIndex
  <2> QED BY <1>2, <2>1, <2>2 DEF make_asset_nodeid, AssetId, ParentNodeId, TemplateParent
<1> QED BY <1>1, <1>2

LEMMA UpcomingVariable ==
  ASSUME Tables, Resolved, NEW n \in DOMAIN nodes
  PROVE  /\ make_variable_nodeid(n) = VariableId(n)
         /\ make_asset_nodeid(asset_index[n]) = <<"asset", nodes[n].asset>>
  BY DEF Resolved, make_variable_nodeid, VariableId, make_asset_nodeid

(* An asset is always addable: its id is new and its parent is there. *)
LEMMA AssetAddable ==
  ASSUME Tables, WellFormed, Resolved, NEW i \in DOMAIN assets, Placed(i - 1, 0)
  PROVE  Addable(AssetId(i), TemplateParent(i))
<1>0. i \in 1 .. Len(assets) /\ DOMAIN assets = 1 .. Len(assets) /\ Len(assets) \in Nat
  BY TableFacts
<1>1. DOMAIN space = {make_plant_nodeid} \cup {AssetId(j) : j \in 1 .. i - 1}
  BY DEF Placed
<1>2. AssetId(i) # make_plant_nodeid
  BY DEF AssetId, make_plant_nodeid
<1>3. \A j \in 1 .. i - 1 : AssetId(j) # AssetId(i)
  <2> TAKE j \in 1 .. i - 1
  <2>1. j \in DOMAIN assets /\ j # i
    BY <1>0
  <2>2. assets[j].id # assets[i].id
    BY <2>1 DEF WellFormed
  <2> QED BY <2>2 DEF AssetId
<1>4. TemplateParent(i) \in DOMAIN space
  <2>1. CASE assets[i].parent \in {Empty, plant.id}
    BY <1>1, <2>1 DEF TemplateParent, make_plant_nodeid
  <2>2. CASE assets[i].parent \notin {Empty, plant.id}
    <3>1. parent_index[i] \in 1 .. i - 1 /\ assets[parent_index[i]].id = assets[i].parent
      BY <2>2 DEF Resolved
    <3>2. TemplateParent(i) = AssetId(parent_index[i])
      BY <2>2, <3>1 DEF TemplateParent, AssetId
    <3> QED BY <1>1, <3>1, <3>2
  <2> QED BY <2>1, <2>2
<1> QED BY <1>1, <1>2, <1>3, <1>4 DEF Addable

(* A variable is addable unless an earlier one has its NodeId. *)
LEMMA VariableAddable ==
  ASSUME Tables, WellFormed, Resolved, VariablesDistinct,
         NEW n \in DOMAIN nodes, Placed(Len(assets), n - 1)
  PROVE  Addable(VariableId(n), <<"asset", nodes[n].asset>>)
<1>0. /\ n \in 1 .. Len(nodes) /\ DOMAIN nodes = 1 .. Len(nodes) /\ Len(nodes) \in Nat
      /\ DOMAIN assets = 1 .. Len(assets)
  BY TableFacts
<1>1. DOMAIN space = {make_plant_nodeid} \cup {AssetId(i) : i \in 1 .. Len(assets)}
                       \cup {VariableId(j) : j \in 1 .. n - 1}
  BY DEF Placed
<1>2. VariableId(n) # make_plant_nodeid /\ \A i : VariableId(n) # AssetId(i)
  BY DEF VariableId, AssetId, make_plant_nodeid
<1>3. \A j \in 1 .. n - 1 : VariableId(j) # VariableId(n)
  <2> TAKE j \in 1 .. n - 1
  <2>1. j \in DOMAIN nodes /\ j # n
    BY <1>0
  <2>2. nodes[j].asset \o nodes[j].id # nodes[n].asset \o nodes[n].id
    BY <2>1 DEF VariablesDistinct
  <2> QED BY <2>2 DEF VariableId
<1>4. <<"asset", nodes[n].asset>> \in DOMAIN space
  <2>1. asset_index[n] \in 1 .. Len(assets) /\ assets[asset_index[n]].id = nodes[n].asset
    BY <1>0 DEF Resolved
  <2>2. AssetId(asset_index[n]) = <<"asset", nodes[n].asset>>
    BY <2>1 DEF AssetId
  <2> QED BY <1>1, <2>1, <2>2
<1> QED BY <1>1, <1>2, <1>3, <1>4 DEF Addable

LEMMA AssetPlaced ==
  ASSUME Tables, WellFormed, Resolved, stage = "assets",
         Placed(cursor - 1, 0), add_asset_object
  PROVE  Placed(cursor - 1, 0)'
<1>0. /\ cursor \in DOMAIN assets /\ cursor' = cursor + 1
      /\ UNCHANGED <<plant, assets, nodes>>
  BY DEF add_asset_object, tableVars
<1>1. cursor \in Nat \ {0} /\ 1 .. cursor' - 1 = (1 .. cursor - 1) \cup {cursor}
  BY <1>0, TableFacts
<1>2. UA_Server_addNode(AssetId(cursor), TemplateParent(cursor))
  BY <1>0, UpcomingAsset DEF add_asset_object
<1>3. /\ DOMAIN space' = DOMAIN space \cup {AssetId(cursor)}
      /\ space'[AssetId(cursor)] = TemplateParent(cursor)
      /\ \A x \in DOMAIN space : space'[x] = space[x]
      /\ IsFiniteSet(DOMAIN space')
      /\ Cardinality(DOMAIN space') = Cardinality(DOMAIN space) + 1
  BY <1>2, NodeAdded DEF Placed
<1>4. /\ \A i : AssetId(i)' = AssetId(i) /\ TemplateParent(i)' = TemplateParent(i)
      /\ make_plant_nodeid' = make_plant_nodeid
  BY <1>0 DEF AssetId, TemplateParent, make_plant_nodeid
<1>5. DOMAIN space' = {make_plant_nodeid} \cup {AssetId(i) : i \in 1 .. cursor' - 1}
                        \cup {VariableId(j) : j \in 1 .. 0}
  BY <1>1, <1>3 DEF Placed
<1>6. \A i \in 1 .. cursor' - 1 : space'[AssetId(i)] = TemplateParent(i)
  BY <1>1, <1>3 DEF Placed
<1>7. Cardinality(DOMAIN space') = 1 + (cursor' - 1) + 0
  BY <1>0, <1>1, <1>3 DEF Placed
<1>8. \A n : VariableId(n)' = VariableId(n)
  BY <1>0 DEF VariableId
<1> QED BY <1>3, <1>4, <1>8, <1>5, <1>6, <1>7 DEF Placed

LEMMA VariablePlaced ==
  ASSUME Tables, WellFormed, Resolved, stage = "nodes",
         Placed(Len(assets), cursor - 1), add_variable_node
  PROVE  Placed(Len(assets), cursor - 1)'
<1>0. /\ cursor \in DOMAIN nodes /\ cursor' = cursor + 1 /\ Len(assets) \in Nat
      /\ UNCHANGED <<plant, assets, nodes>>
  BY TableFacts DEF add_variable_node, tableVars
<1>1. cursor \in Nat \ {0} /\ 1 .. cursor' - 1 = (1 .. cursor - 1) \cup {cursor}
  BY <1>0, TableFacts
<1>2. UA_Server_addNode(VariableId(cursor), <<"asset", nodes[cursor].asset>>)
  BY <1>0, UpcomingVariable DEF add_variable_node
<1>3. /\ DOMAIN space' = DOMAIN space \cup {VariableId(cursor)}
      /\ space'[VariableId(cursor)] = <<"asset", nodes[cursor].asset>>
      /\ \A x \in DOMAIN space : space'[x] = space[x]
      /\ IsFiniteSet(DOMAIN space')
      /\ Cardinality(DOMAIN space') = Cardinality(DOMAIN space) + 1
  BY <1>2, NodeAdded DEF Placed
<1>4. /\ \A i : AssetId(i)' = AssetId(i) /\ TemplateParent(i)' = TemplateParent(i)
      /\ \A n : VariableId(n)' = VariableId(n)
      /\ make_plant_nodeid' = make_plant_nodeid
  BY <1>0 DEF AssetId, TemplateParent, VariableId, make_plant_nodeid
<1>5. DOMAIN space' = {make_plant_nodeid} \cup {AssetId(i) : i \in 1 .. Len(assets)}
                        \cup {VariableId(j) : j \in 1 .. cursor' - 1}
  BY <1>1, <1>3 DEF Placed
<1>6. \A i \in 1 .. Len(assets) : space'[AssetId(i)] = TemplateParent(i)
  BY <1>3 DEF Placed
<1>7. \A j \in 1 .. cursor' - 1 : space'[VariableId(j)] = <<"asset", nodes[j].asset>>
  BY <1>1, <1>3 DEF Placed
<1>8. Cardinality(DOMAIN space') = 1 + Len(assets) + (cursor' - 1)
  BY <1>0, <1>1, <1>3 DEF Placed
<1> QED BY <1>0, <1>3, <1>4, <1>5, <1>6, <1>7, <1>8 DEF Placed

-----------------------------------------------------------------------------
(* The invariant is inductive. *)

LEMMA TemplateStays ==
  ASSUME UNCHANGED tableVars
  PROVE  /\ Tables => Tables'
         /\ WellFormed' <=> WellFormed
         /\ VariablesDistinct' <=> VariablesDistinct
         /\ UNCHANGED indexVars /\ Resolved => Resolved'
         /\ UNCHANGED space => \A a, n : Placed(a, n) => Placed(a, n)'
<1>1. UNCHANGED <<plant, assets, nodes, events>>
  BY DEF tableVars
<1>2. Tables => Tables'
  BY <1>1 DEF Tables, Stored
<1>3. WellFormed' <=> WellFormed
  BY <1>1 DEF WellFormed, Named
<1>4. VariablesDistinct' <=> VariablesDistinct
  BY <1>1 DEF VariablesDistinct
<1>5. UNCHANGED indexVars /\ Resolved => Resolved'
  BY <1>1 DEF indexVars, Resolved, Indexes
<1>6. ASSUME UNCHANGED space, NEW a, NEW n, Placed(a, n) PROVE Placed(a, n)'
  BY <1>1, <1>6 DEF Placed, AssetId, VariableId, TemplateParent, make_plant_nodeid
<1> QED BY <1>2, <1>3, <1>4, <1>5, <1>6

(* A refused call means that two variables have one NodeId. *)
LEMMA RefusedOnlyForVariables ==
  ASSUME ConfigInv, AddRefused
  PROVE  ~VariablesDistinct /\ stage = "nodes"
<1> SUFFICES ASSUME VariablesDistinct \/ stage # "nodes" PROVE FALSE
  OBVIOUS
<1>0. /\ Tables /\ Progress /\ stage \in {"wired", "assets", "nodes"}
      /\ WellFormed /\ Resolved
  BY DEF ConfigInv, AddRefused, Accepted
<1>1. CASE stage = "wired"
  <2>1. Upcoming = <<make_plant_nodeid, ObjectsFolder>> /\ DOMAIN space = {}
    BY <1>0, <1>1 DEF Upcoming, Progress, BeforeServing
  <2> QED BY <2>1 DEF AddRefused, Addable
<1>2. CASE stage = "assets"
  <2>1. cursor \in DOMAIN assets
    BY <1>2 DEF AddRefused
  <2>2. Upcoming = <<AssetId(cursor), TemplateParent(cursor)>>
    BY <1>0, <1>2, <2>1, UpcomingAsset DEF Upcoming
  <2>3. Addable(AssetId(cursor), TemplateParent(cursor))
    BY <1>0, <1>2, <2>1, AssetAddable DEF Progress
  <2> QED BY <2>2, <2>3 DEF AddRefused
<1>3. CASE stage = "nodes"
  <2>1. cursor \in DOMAIN nodes
    BY <1>3 DEF AddRefused
  <2>2. Upcoming = <<VariableId(cursor), <<"asset", nodes[cursor].asset>>>>
    BY <1>0, <1>3, <2>1, UpcomingVariable DEF Upcoming
  <2>3. Addable(VariableId(cursor), <<"asset", nodes[cursor].asset>>)
    BY <1>0, <1>3, <2>1, VariableAddable DEF Progress
  <2> QED BY <2>2, <2>3 DEF AddRefused
<1> QED BY <1>0, <1>1, <1>2, <1>3

LEMMA LoadKeepsInv == ConfigInv /\ edge_config_load => ConfigInv'
<1> SUFFICES ASSUME ConfigInv, edge_config_load PROVE ConfigInv'
  OBVIOUS
<1>0. Tables /\ Progress
  BY DEF ConfigInv
<1>1. CASE Reads
  <2>1. Tables' /\ stage = "reading" /\ UNCHANGED <<stage, cursor, space>>
    BY <1>0, <1>1, ReadsTables
  <2> QED BY <1>0, <2>1 DEF ConfigInv, Stages, Accepted, Progress, BeforeServing
<1>2. CASE FileMissing \/ LineRejected \/ TableFull
  <2>1. stage = "reading" /\ Ends("rejected")
    BY <1>2 DEF FileMissing, Init, LineRejected, TableFull
  <2>2. /\ stage' = "rejected" /\ UNCHANGED <<cursor, space>> /\ UNCHANGED tableVars
    BY <2>1 DEF Ends
  <2> QED
    BY <1>0, <2>1, <2>2, TemplateStays
       DEF ConfigInv, Stages, Refused, Accepted, Progress, BeforeServing
<1>3. CASE LoadAccepts
  <2>1. stage = "reading" /\ stage' = "loaded" /\ UNCHANGED <<cursor, space>> /\ UNCHANGED tableVars
    BY <1>3 DEF LoadAccepts
  <2>2. WellFormed' /\ Resolved'
    BY <1>0, <1>3, <2>1, ValidIsWellFormed, AcceptedResolves, TemplateStays DEF LoadAccepts
  <2> QED
    BY <1>0, <2>1, <2>2, TemplateStays DEF ConfigInv, Stages, Progress, BeforeServing
<1>4. CASE LoadRefuses
  <2>1. stage = "reading" /\ stage' = "invalid" /\ UNCHANGED <<cursor, space>> /\ UNCHANGED tableVars
    BY <1>4 DEF LoadRefuses, Ends
  <2>2. ~WellFormed'
    BY <1>0, <1>4, <2>1, WellFormedIsValid, TemplateStays DEF LoadRefuses
  <2> QED
    BY <1>0, <2>1, <2>2, TemplateStays
       DEF ConfigInv, Stages, Refused, Accepted, Progress, BeforeServing
<1> QED BY <1>1, <1>2, <1>3, <1>4 DEF edge_config_load, Reads

LEMMA WireKeepsInv == ConfigInv /\ edge_config_wire_runtime => ConfigInv'
<1> SUFFICES ASSUME ConfigInv, edge_config_wire_runtime PROVE ConfigInv'
  OBVIOUS
<1>1. /\ stage = "loaded" /\ Tables /\ WellFormed /\ Resolved /\ Progress
      /\ UNCHANGED <<cursor, space>> /\ UNCHANGED tableVars /\ UNCHANGED indexVars
  BY DEF edge_config_wire_runtime, ConfigInv, Accepted
<1>2. IndexesValid
  BY <1>1, TableFacts DEF IndexesValid, Resolved, InvalidIndex
<1>3. stage' = "wired"
  BY <1>2 DEF edge_config_wire_runtime
<1> QED
  BY <1>1, <1>3, TemplateStays DEF ConfigInv, Stages, Progress, BeforeServing

LEMMA PlantPlaced ==
  ASSUME ConfigInv, add_plant_object
  PROVE  stage' = "assets" /\ cursor' = 1 /\ Placed(cursor - 1, 0)'
<1>1. /\ stage = "wired" /\ cursor = 1 /\ cursor' = 1 /\ stage' = "assets" /\ DOMAIN space = {}
      /\ UNCHANGED <<plant, assets, nodes>>
  BY DEF add_plant_object, ConfigInv, Progress, BeforeServing, tableVars
<1>2. IsFiniteSet(DOMAIN space) /\ Cardinality(DOMAIN space) = 0
  BY <1>1, FS_EmptySet
<1>3. /\ DOMAIN space' = DOMAIN space \cup {make_plant_nodeid}
      /\ IsFiniteSet(DOMAIN space')
      /\ Cardinality(DOMAIN space') = Cardinality(DOMAIN space) + 1
  BY <1>2, NodeAdded DEF add_plant_object
<1>4. /\ DOMAIN space' = {make_plant_nodeid'} \cup {AssetId(i)' : i \in 1 .. cursor' - 1}
                           \cup {VariableId(j)' : j \in 1 .. 0}
      /\ Cardinality(DOMAIN space') = 1 + (cursor' - 1) + 0
  BY <1>1, <1>2, <1>3 DEF make_plant_nodeid
<1> QED BY <1>1, <1>3, <1>4 DEF Placed

LEMMA ServeKeepsInv == ConfigInv /\ edge_address_space_load => ConfigInv'
<1> SUFFICES ASSUME ConfigInv, edge_address_space_load PROVE ConfigInv'
  OBVIOUS
<1> USE TableFacts
<1>0. /\ stage \in {"wired", "assets", "nodes"} /\ Tables /\ Progress
      /\ WellFormed /\ Resolved
      /\ UNCHANGED tableVars /\ UNCHANGED indexVars
  BY DEF edge_address_space_load, add_plant_object, add_asset_object, add_variable_node, LoopDone,
     AddRefused, Ends, ConfigInv, Accepted
<1>1. Tables' /\ WellFormed' /\ Resolved' /\ (VariablesDistinct' <=> VariablesDistinct)
  BY <1>0, TemplateStays
<1>2. UNCHANGED <<assets, nodes>>
  BY <1>0 DEF tableVars
<1>3. CASE add_plant_object
  <2>1. stage' = "assets" /\ cursor' = 1 /\ Placed(cursor - 1, 0)'
    BY <1>3, PlantPlaced
  <2>2. Progress'
    BY <1>0, <1>2, <2>1 DEF Progress, BeforeServing
  <2> QED BY <1>1, <2>1, <2>2 DEF ConfigInv, Stages
<1>4. CASE add_asset_object
  <2>1. stage = "assets" /\ stage' = "assets" /\ cursor \in DOMAIN assets /\ cursor' = cursor + 1
    BY <1>4 DEF add_asset_object
  <2>2. Placed(cursor - 1, 0)'
    BY <1>0, <1>4, <2>1, AssetPlaced DEF Progress
  <2>3. Progress'
    BY <1>0, <1>2, <2>1, <2>2 DEF Progress, BeforeServing
  <2> QED BY <1>1, <2>1, <2>3 DEF ConfigInv, Stages
<1>5. CASE LoopDone(assets, "assets", "nodes")
  <2>1. /\ stage = "assets" /\ stage' = "nodes" /\ cursor = Len(assets) + 1 /\ cursor' = 1
        /\ UNCHANGED space
    BY <1>5 DEF LoopDone
  <2>2. Placed(Len(assets), 0)
    BY <1>0, <2>1 DEF Progress
  <2>3. Placed(Len(assets), cursor - 1)'
    BY <1>0, <1>2, <2>1, <2>2, TemplateStays
  <2>4. Progress'
    BY <1>0, <1>2, <2>1, <2>3 DEF Progress, BeforeServing
  <2> QED BY <1>1, <2>1, <2>4 DEF ConfigInv, Stages
<1>6. CASE add_variable_node
  <2>1. stage = "nodes" /\ stage' = "nodes" /\ cursor \in DOMAIN nodes /\ cursor' = cursor + 1
    BY <1>6 DEF add_variable_node
  <2>2. Placed(Len(assets), cursor - 1)'
    BY <1>0, <1>6, <2>1, VariablePlaced DEF Progress
  <2>3. Progress'
    BY <1>0, <1>2, <2>1, <2>2 DEF Progress, BeforeServing
  <2> QED BY <1>1, <2>1, <2>3 DEF ConfigInv, Stages
<1>7. CASE LoopDone(nodes, "nodes", "served")
  <2>1. /\ stage = "nodes" /\ stage' = "served" /\ cursor = Len(nodes) + 1 /\ cursor' = 1
        /\ UNCHANGED space
    BY <1>7 DEF LoopDone
  <2>2. Placed(Len(assets), Len(nodes))
    BY <1>0, <2>1 DEF Progress
  <2>3. Placed(Len(assets), Len(nodes))'
    BY <1>0, <1>2, <2>1, <2>2, TemplateStays
  <2>4. Progress'
    BY <1>0, <1>2, <2>1, <2>3 DEF Progress, BeforeServing
  <2> QED BY <1>1, <2>1, <2>4 DEF ConfigInv, Stages
<1>8. CASE AddRefused
  <2>1. ~VariablesDistinct /\ stage = "nodes"
    BY <1>8, RefusedOnlyForVariables
  <2>2. stage' = "unserved" /\ cursor' = cursor /\ cursor \in 1 .. Len(nodes) + 1
    BY <1>0, <1>8, <2>1 DEF AddRefused, Ends, Progress
  <2>3. Progress'
    BY <1>0, <1>1, <1>2, <2>1, <2>2 DEF Progress, BeforeServing
  <2> QED BY <1>1, <2>2, <2>3 DEF ConfigInv, Stages, Refused
<1> QED BY <1>3, <1>4, <1>5, <1>6, <1>7, <1>8 DEF edge_address_space_load

LEMMA ConfigInvNext == ConfigInv /\ [Next]_vars => ConfigInv'
<1> SUFFICES ASSUME ConfigInv, UNCHANGED vars PROVE ConfigInv'
  BY LoadKeepsInv, WireKeepsInv, ServeKeepsInv DEF Next
<1>1. UNCHANGED <<stage, cursor, assets, nodes, space>> /\ UNCHANGED tableVars /\ UNCHANGED indexVars
  BY DEF vars, tableVars
<1>2. /\ Placed(cursor - 1, 0) => Placed(cursor - 1, 0)'
      /\ Placed(Len(assets), cursor - 1) => Placed(Len(assets), cursor - 1)'
      /\ Placed(Len(assets), Len(nodes)) => Placed(Len(assets), Len(nodes))'
  BY <1>1, TemplateStays
<1>3. Progress'
  BY <1>1, <1>2, TemplateStays DEF ConfigInv, Progress, BeforeServing
<1> QED BY <1>1, <1>3, TemplateStays DEF ConfigInv, Accepted

(* The invariant from which all the properties of loading and serving      *)
(* follow: what edge_config_load has read, resolved and refused, and what  *)
(* edge_address_space_load has added so far.                               *)
THEOREM ConfigInvariant == Spec => []ConfigInv
<1>1. Init => ConfigInv
  <2> SUFFICES ASSUME Init PROVE ConfigInv
    OBVIOUS
  <2>1. Tables
    BY ConfigAssumption DEF Init, Tables, Stored, Empty
  <2> QED BY <2>1 DEF Init, ConfigInv, Stages, Accepted, Progress, BeforeServing
<1> QED BY <1>1, ConfigInvNext, PTL DEF Spec

-----------------------------------------------------------------------------

(* Within the limits, for every template: the tables and fields stay in    *)
(* bounds, and an accepted template has no dangling index.                 *)
THEOREM ConfigTypeCorrect == Spec => []ConfigTypeOK
<1>1. ASSUME ConfigInv PROVE ConfigTypeOK
  <2>0. Tables /\ stage \in Stages /\ Progress
    BY <1>1 DEF ConfigInv
  <2>1. cursor \in 1 .. Len(assets) + Len(nodes) + 1
    BY <2>0, TableFacts DEF Progress, Stages, Refused, BeforeServing
  <2>2. /\ \A i \in DOMAIN nodes : nodes[i].modbus_unit \in 0 .. UShortMax
                                   /\ nodes[i].modbus_register \in 0 .. UIntMax
        /\ \A i \in DOMAIN events : events[i].severity \in 0 .. UShortMax
    BY <2>0, TableFacts, ConfigAssumption DEF NodeStored, EventStored
  <2> QED BY <1>1, <2>0, <2>1, <2>2 DEF ConfigInv, Tables, Resolved, ConfigTypeOK
<1> QED BY <1>1, ConfigInvariant, PTL

(* edge_config_load accepts exactly the well-formed templates: no rule is  *)
(* missed, and none refuses a template that keeps the format; in           *)
(* particular the walk up to the plant never misjudges a parent chain.     *)
THEOREM LoaderAlwaysExact == Spec => []LoaderIsExact
<1>1. ConfigInv => LoaderIsExact
  BY DEF ConfigInv, LoaderIsExact
<1> QED BY <1>1, ConfigInvariant, PTL

(* An event never watches a node of another asset. *)
THEOREM EventAlwaysWatchesOwnAsset == Spec => []EventWatchesOwnAsset
<1>1. ConfigInv => EventWatchesOwnAsset
  BY DEF ConfigInv, Resolved, EventWatchesOwnAsset
<1> QED BY <1>1, ConfigInvariant, PTL

(* A gateway whose template was accepted fails to serve it only when dots  *)
(* in ids give two variables one NodeId.                                   *)
THEOREM AcceptedAlwaysServed == Spec => []AcceptedIsServed
<1>1. ConfigInv => AcceptedIsServed
  BY DEF ConfigInv, Progress, AcceptedIsServed
<1> QED BY <1>1, ConfigInvariant, PTL

(* Clients browse the tree of the template, complete and without extras.   *)
THEOREM TreeAlwaysAsWritten == Spec => []TreeAsWritten
<1>1. ASSUME ConfigInv PROVE TreeAsWritten
  <2> SUFFICES ASSUME stage = "served" PROVE TreeAsWritten
    BY DEF TreeAsWritten
  <2>1. Tables /\ Placed(Len(assets), Len(nodes))
    BY <1>1 DEF ConfigInv, Progress
  <2> QED BY <2>1, TableFacts DEF Placed, AssetId, VariableId, TemplateParent, TreeAsWritten
<1> QED BY <1>1, ConfigInvariant, PTL
=============================================================================
