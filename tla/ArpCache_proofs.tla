-------------------------- MODULE ArpCache_proofs --------------------------
(***************************************************************************)
(* What the operations of the cache preserve, for any number of rows and   *)
(* any hosts.  A refresh writes into the cell of a row, which others may   *)
(* share: as long as there is a row that is not valid, it is the cell of   *)
(* the same address, the row's own, or the one shared from the start.      *)
(***************************************************************************)
EXTENDS ArpCache, WellFoundedInduction, TLAPS

(* Rows, cells and ages                                                    *)
Shaped(c) ==
  /\ c \in Caches
  /\ \A i \in Rows :
        /\ c.row[i].cell \in {NullCell, i, OwnCell}
        /\ c.row[i].ucValid <=> c.row[i].ucAge # 0
        /\ ~c.row[i].ucValid => c.row[i].cell # OwnCell

(* What Agrees says of a cache that is not full; and only the node's names *)
(* are on its own cell.                                                    *)
Good(c) ==
  \A i \in Rows \ Invalid(c) :
    /\ c.row[i].cell # NullCell => MacAt(c, i) \in MacsOf(c.row[i].gpa)
    /\ c.row[i].cell = OwnCell => c.row[i].gpa \in {App, Daf}

(* Rows that the lookup considers are those of hosts that have answered.   *)
FromReplies(c, hosts) ==
  \A i \in Rows : c.row[i].ucAge = 3 => c.row[i].cell = i /\ c.row[i].gpa \in hosts

Strange(c) == \A i \in Rows : c.row[i].gpa # App

-----------------------------------------------------------------------------
LEMMA First ==
  ASSUME NEW S \in SUBSET Nat, S # {}
  PROVE  FirstOf(S) \in S /\ \A j \in S : FirstOf(S) <= j
<1> DEFINE R == OpToRel(<, Nat)
<1>0. IsWellFoundedOn(R, Nat)  BY NatLessThanWellFounded
<1>1. \E i \in S : \A j \in S : ~(<<j, i>> \in R)
  <2> HIDE DEF R
  <2> QED BY <1>0, WFMin, Zenon
<1>2. \E i \in S : \A j \in S : ~(j < i)
  BY <1>1, Zenon DEF OpToRel
<1>3. \E i \in S : \A j \in S : i <= j
  BY <1>2
<1> QED BY <1>3, Zenon DEF FirstOf

LEMMA Last ==
  ASSUME NEW S \in SUBSET Rows, S # {}
  PROVE  LastOf(S) \in S
<1> DEFINE T == {ArpRows - j : j \in S}
<1>1. T \in SUBSET Nat /\ T # {}  BY ArpAssumption DEF Rows
<1>2. FirstOf(T) \in T /\ \A t \in T : FirstOf(T) <= t
  <2> HIDE DEF T
  <2> QED BY <1>1, First
<1>3. PICK i \in S : FirstOf(T) = ArpRows - i  BY <1>2
<1>4. ASSUME NEW j \in S PROVE j <= i
  <2>1. ArpRows - i <= ArpRows - j  BY <1>2, <1>3
  <2> QED BY <2>1, ArpAssumption DEF Rows
<1> QED BY <1>3, <1>4 DEF LastOf

LEMMA Cell == /\ Rows \in SUBSET Nat /\ NullCell \in Cells /\ OwnCell \in Cells
              /\ NullCell \notin Rows /\ OwnCell \notin Rows /\ NullCell # OwnCell
              /\ Rows \subseteq Cells
BY ArpAssumption DEF Rows, NullCell, OwnCell, Cells

LEMMA Name ==
  /\ App \in Names /\ Daf \in Names /\ NoName \in Names /\ App # NoName
  /\ \A h \in Hosts : h \in Names /\ h # App /\ h # Daf
  /\ OwnMac \in Macs /\ Unknown \in Macs
  /\ \A h \in Hosts, k \in {1, 2} : <<h, k>> \in Macs /\ <<h, k>> \in MacsOf(h)
  /\ OwnMac \in MacsOf(App) /\ OwnMac \in MacsOf(Daf)
  /\ \A h \in Hosts, k \in {1, 2} : <<h, k>> \notin MacsOf(App) /\ <<h, k>> \notin MacsOf(Daf)
<1>1. App # NoName
  <2>1. DOMAIN App = 1 .. 4  BY DEF App, NameToGPA, NameToString, Fields
  <2>2. DOMAIN NoName = {}  BY DEF NoName, NoText
  <2> QED BY <2>1, <2>2
<1>2. App \in Names /\ Daf \in Names /\ NoName \in Names  BY DEF Names
<1>3. \A h \in Hosts : h \in Names /\ h # App /\ h # Daf  BY HostsAssumption DEF Names
<1> HIDE DEF App, Daf, NoName, Names
<1>4. OwnMac \in Macs /\ Unknown \in Macs  BY <1>2 DEF OwnMac, Unknown, Macs
<1>5. \A h \in Hosts, k \in {1, 2} : <<h, k>> \in Macs /\ <<h, k>> \in MacsOf(h)
  BY <1>3 DEF Macs, MacsOf
<1>6. OwnMac \in MacsOf(App) /\ OwnMac \in MacsOf(Daf)  BY DEF OwnMac, MacsOf
<1>7. \A h \in Hosts, k \in {1, 2} : <<h, k>> \notin MacsOf(App) /\ <<h, k>> \notin MacsOf(Daf)
  BY <1>3 DEF OwnMac, MacsOf
<1> QED BY <1>1, <1>2, <1>3, <1>4, <1>5, <1>6, <1>7

LEMMA Row ==
  ASSUME NEW c \in Caches, NEW i \in Rows
  PROVE  c.row[i] \in Entries /\ c.row[i].cell \in Cells /\ MacAt(c, i) \in Macs
BY DEF Caches, Entries, MacAt

LEMMA InitShaped ==
  ASSUME NEW hosts
  PROVE  /\ Shaped(InitCache) /\ Good(InitCache) /\ FromReplies(InitCache, hosts)
         /\ Strange(InitCache)
<1>1. Entry(NoName, NullCell, 0, FALSE) \in Entries
  BY Cell, Name DEF Entry, Entries, MAX_ARP_AGE
<1>2. InitCache \in Caches  BY <1>1, Name DEF InitCache, Caches
<1>3. \A i \in Rows : InitCache.row[i] = Entry(NoName, NullCell, 0, FALSE)  BY DEF InitCache
<1>4. Invalid(InitCache) = Rows  BY <1>3 DEF Invalid, Entry
<1>5. Shaped(InitCache)  BY <1>2, <1>3, Cell DEF Shaped, Entry
<1> QED BY <1>3, <1>4, <1>5, Name DEF Good, FromReplies, Strange, Entry

LEMMA ReplyAdded ==
  ASSUME NEW c, Shaped(c), NEW g \in Hosts, NEW k, k \in {1, 2},
         NEW r, r = AddCacheEntry(c, g, NullCell, <<g, k>>, 3)
  PROVE  /\ Shaped(r)
         /\ Invalid(r) \subseteq Invalid(c)
         /\ Good(c) => Good(r)
         /\ \A hosts : FromReplies(c, hosts) => FromReplies(r, hosts \cup {g})
         /\ Strange(c) => Strange(r)
         /\ Invalid(c) # {} => \E i \in Rows : r.row[i].ucAge = 3
<1>1. CASE Invalid(c) = {}
  <2>1. r = c  BY <1>1 DEF AddCacheEntry
  <2> QED BY <1>1, <2>1 DEF FromReplies
<1>2. CASE Invalid(c) # {}
  <2>1. PICK i \in Invalid(c) : i = FirstOf(Invalid(c))
    BY <1>2, Cell, First DEF Invalid
  <2>2. i \in Rows /\ i \in Cells /\ i # OwnCell /\ i # NullCell /\ c \in Caches
    BY Cell DEF Invalid, Shaped
  <2> DEFINE e == Entry(g, i, 3, TRUE)
  <2>3. r = [row |-> [c.row EXCEPT ![i] = e], mac |-> [c.mac EXCEPT ![i] = <<g, k>>]]
    BY <1>2, <2>1, Cell DEF AddCacheEntry
  <2>0. g \in Names /\ <<g, k>> \in Macs /\ <<g, k>> \in MacsOf(g)  BY Name
  <2>4. e \in Entries /\ <<g, k>> \in Macs
    BY <2>0, <2>2 DEF Entry, Entries, MAX_ARP_AGE
  <2>5. e.gpa = g /\ e.cell = i /\ e.ucAge = 3 /\ e.ucValid  BY DEF Entry
  <2> HIDE DEF e
  <2>6. /\ r \in Caches
        /\ r.row[i] = e /\ \A j \in Rows \ {i} : r.row[j] = c.row[j]
        /\ r.mac[i] = <<g, k>> /\ \A l \in Cells \ {i} : r.mac[l] = c.mac[l]
    BY <2>2, <2>3, <2>4 DEF Caches
  <2>7. Shaped(r)  BY <2>2, <2>5, <2>6 DEF Shaped
  <2>8. Invalid(r) \subseteq Invalid(c)  BY <2>5, <2>6 DEF Invalid
  <2>9. ASSUME Good(c) PROVE Good(r)
    <3> SUFFICES ASSUME NEW j \in Rows \ Invalid(r)
                 PROVE  /\ r.row[j].cell # NullCell => MacAt(r, j) \in MacsOf(r.row[j].gpa)
                        /\ r.row[j].cell = OwnCell => r.row[j].gpa \in {App, Daf}
      BY DEF Good
    <3>1. CASE j = i  BY <2>0, <2>2, <2>5, <2>6, <3>1 DEF MacAt
    <3>2. CASE j # i
      <4>1. r.row[j] = c.row[j] /\ j \in Rows \ Invalid(c)  BY <2>6, <3>2 DEF Invalid
      <4>2. c.row[j].cell # i /\ c.row[j].cell \in Cells
        BY <2>2, <3>2, Cell, Row DEF Shaped
      <4>3. MacAt(r, j) = MacAt(c, j)  BY <2>6, <4>1, <4>2 DEF MacAt
      <4> QED BY <2>9, <4>1, <4>3 DEF Good
    <3> QED BY <3>1, <3>2
  <2>10. \A hosts : FromReplies(c, hosts) => FromReplies(r, hosts \cup {g})
    BY <2>5, <2>6 DEF FromReplies
  <2>11. Strange(c) => Strange(r)  BY <2>5, <2>6, Name DEF Strange
  <2> QED BY <2>2, <2>5, <2>6, <2>7, <2>8, <2>9, <2>10, <2>11
<1> QED BY <1>1, <1>2

LEMMA OwnAdded ==
  ASSUME NEW c, Shaped(c), NEW hosts, NEW g \in {App, Daf}, NEW r, r = ARPAdd(c, g)
  PROVE  /\ Shaped(r)
         /\ Invalid(r) \subseteq Invalid(c)
         /\ Good(c) => Good(r)
         /\ FromReplies(c, hosts) => FromReplies(r, hosts)
         /\ Invalid(c) = {} => r = c
<1>1. CASE Invalid(c) = {}
  <2>1. r = c  BY <1>1 DEF ARPAdd, AddCacheEntry
  <2> QED BY <1>1, <2>1
<1>2. CASE Invalid(c) # {}
  <2>1. PICK i \in Invalid(c) : i = FirstOf(Invalid(c))
    BY <1>2, Cell, First DEF Invalid
  <2>2. i \in Rows /\ OwnCell \in Cells /\ c \in Caches
    BY Cell DEF Invalid, Shaped
  <2> DEFINE e == Entry(g, OwnCell, 1, TRUE)
  <2>3. r = [row |-> [c.row EXCEPT ![i] = e], mac |-> [c.mac EXCEPT ![OwnCell] = OwnMac]]
    BY <1>2, <2>1 DEF ARPAdd, AddCacheEntry
  <2>4. e \in Entries /\ OwnMac \in Macs
    BY <2>2, Name DEF Entry, Entries, MAX_ARP_AGE
  <2>5. e.gpa = g /\ e.cell = OwnCell /\ e.ucAge = 1 /\ e.ucValid  BY DEF Entry
  <2> HIDE DEF e
  <2>6. /\ r \in Caches
        /\ r.row[i] = e /\ \A j \in Rows \ {i} : r.row[j] = c.row[j]
        /\ r.mac[OwnCell] = OwnMac /\ \A l \in Cells \ {OwnCell} : r.mac[l] = c.mac[l]
    BY <2>2, <2>3, <2>4 DEF Caches
  <2>7. Shaped(r)  BY <2>2, <2>5, <2>6 DEF Shaped
  <2>8. Invalid(r) \subseteq Invalid(c)  BY <2>5, <2>6 DEF Invalid
  <2>9. ASSUME Good(c) PROVE Good(r)
    <3> SUFFICES ASSUME NEW j \in Rows \ Invalid(r)
                 PROVE  /\ r.row[j].cell # NullCell => MacAt(r, j) \in MacsOf(r.row[j].gpa)
                        /\ r.row[j].cell = OwnCell => r.row[j].gpa \in {App, Daf}
      BY DEF Good
    <3>1. CASE j = i  BY <2>5, <2>6, <3>1, Name DEF MacAt
    <3>2. CASE j # i
      <4>1. r.row[j] = c.row[j] /\ j \in Rows \ Invalid(c)  BY <2>6, <3>2 DEF Invalid
      <4>2. CASE c.row[j].cell = OwnCell
        <5>1. c.row[j].gpa \in {App, Daf}  BY <2>9, <4>1, <4>2 DEF Good
        <5>2. MacAt(r, j) = OwnMac  BY <2>6, <4>1, <4>2 DEF MacAt
        <5> QED BY <4>1, <5>1, <5>2, Name
      <4>3. CASE c.row[j].cell # OwnCell
        <5>1. c.row[j].cell \in Cells  BY <2>2, Row
        <5>2. MacAt(r, j) = MacAt(c, j)  BY <2>6, <4>1, <4>3, <5>1 DEF MacAt
        <5> QED BY <2>9, <4>1, <5>2 DEF Good
      <4> QED BY <4>2, <4>3
    <3> QED BY <3>1, <3>2
  <2>10. FromReplies(c, hosts) => FromReplies(r, hosts)
    BY <2>5, <2>6 DEF FromReplies
  <2> QED BY <1>2, <2>7, <2>8, <2>9, <2>10
<1> QED BY <1>1, <1>2

LEMMA AppRemoved ==
  ASSUME NEW c, Shaped(c), NEW hosts, NEW r, r = ARPRemove(c, App)
  PROVE  /\ Shaped(r)
         /\ Good(c) => Good(r)
         /\ FromReplies(c, hosts) => FromReplies(r, hosts)
         /\ Strange(c) => r = c
<1>0. Strange(c) => r = c  BY DEF Strange, ARPRemove, LookupGPA, Named
<1>1. CASE r = c  BY <1>0, <1>1
<1>2. CASE r # c
  <2>1. Named(c, App) # {} /\ r = RemoveCacheEntry(c, App)
    BY <1>2 DEF ARPRemove, RemoveCacheEntry
  <2>2. PICK i \in Named(c, App) : i = FirstOf(Named(c, App))
    BY <2>1, Cell, First DEF Named
  <2>3. i \in Rows /\ i \in Cells /\ i # OwnCell /\ i # NullCell /\ c \in Caches
    BY Cell DEF Named, Shaped
  <2> DEFINE e == Entry(NoName, i, 0, FALSE)
  <2>4. r = [row |-> [c.row EXCEPT ![i] = e], mac |-> [c.mac EXCEPT ![i] = Unknown]]
    BY <2>1, <2>2 DEF RemoveCacheEntry
  <2>5. e \in Entries /\ Unknown \in Macs
    BY <2>3, Name DEF Entry, Entries, MAX_ARP_AGE
  <2>6. e.gpa = NoName /\ e.cell = i /\ e.ucAge = 0 /\ ~e.ucValid  BY DEF Entry
  <2> HIDE DEF e
  <2>7. /\ r \in Caches
        /\ r.row[i] = e /\ \A j \in Rows \ {i} : r.row[j] = c.row[j]
        /\ r.mac[i] = Unknown /\ \A l \in Cells \ {i} : r.mac[l] = c.mac[l]
    BY <2>3, <2>4, <2>5 DEF Caches
  <2>8. Shaped(r)  BY <2>3, <2>6, <2>7 DEF Shaped
  <2>9. ASSUME Good(c) PROVE Good(r)
    <3> SUFFICES ASSUME NEW j \in Rows \ Invalid(r)
                 PROVE  /\ r.row[j].cell # NullCell => MacAt(r, j) \in MacsOf(r.row[j].gpa)
                        /\ r.row[j].cell = OwnCell => r.row[j].gpa \in {App, Daf}
      BY DEF Good
    <3>1. j # i  BY <2>6, <2>7 DEF Invalid
    <3>2. r.row[j] = c.row[j] /\ j \in Rows \ Invalid(c)  BY <2>7, <3>1 DEF Invalid
    <3>3. c.row[j].cell # i /\ c.row[j].cell \in Cells
      BY <2>3, <3>1, Cell, Row DEF Shaped
    <3>4. MacAt(r, j) = MacAt(c, j)  BY <2>7, <3>2, <3>3 DEF MacAt
    <3> QED BY <2>9, <3>2, <3>4 DEF Good
  <2>10. FromReplies(c, hosts) => FromReplies(r, hosts)  BY <2>6, <2>7 DEF FromReplies
  <2> QED BY <1>0, <2>8, <2>9, <2>10
<1> QED BY <1>1, <1>2

LEMMA Refreshed ==
  ASSUME NEW c \in Caches, NEW m
  PROVE  LET i == RefreshRow(c, m) IN
         /\ i \in Rows
         /\ MacAt(c, i) = m \/ \A j \in Rows : c.row[i].ucAge <= c.row[j].ucAge
<1> DEFINE i == RefreshRow(c, m)
           matching == {j \in Rows : MacAt(c, j) = m}
           lowest == {j \in Rows : \A l \in Rows : c.row[j].ucAge <= c.row[l].ucAge}
           ages == {c.row[j].ucAge : j \in Rows}
<1>1. CASE matching # {}
  <2>1. i = LastOf(matching)  BY <1>1 DEF RefreshRow
  <2>2. LastOf(matching) \in matching
    <3>1. matching \in SUBSET Rows  OBVIOUS
    <3> HIDE DEF matching
    <3> QED BY <1>1, <3>1, Last
  <2> QED BY <2>1, <2>2
<1>2. CASE matching = {}
  <2>1. i = FirstOf(lowest)  BY <1>2 DEF RefreshRow
  <2>2. \A j \in Rows : c.row[j].ucAge \in Nat  BY DEF Caches, Entries, MAX_ARP_AGE
  <2>3. ages \in SUBSET Nat /\ ages # {}  BY <2>2, ArpAssumption DEF Rows
  <2>4. FirstOf(ages) \in ages /\ \A a \in ages : FirstOf(ages) <= a
    <3> HIDE DEF ages
    <3> QED BY <2>3, First
  <2>5. lowest # {} /\ lowest \in SUBSET Nat
    <3>1. PICK j \in Rows : FirstOf(ages) = c.row[j].ucAge  BY <2>4
    <3>2. \A l \in Rows : c.row[j].ucAge <= c.row[l].ucAge  BY <2>4, <3>1
    <3>3. j \in lowest  BY <3>2
    <3> QED BY <3>3, Cell
  <2>6. FirstOf(lowest) \in lowest
    <3> HIDE DEF lowest
    <3> QED BY <2>5, First
  <2> QED BY <2>1, <2>6
<1> QED BY <1>1, <1>2

LEMMA RefreshKept ==
  ASSUME NEW c, Shaped(c), NEW hosts, NEW g \in Hosts, NEW k \in {1, 2},
         NEW r, r = RefreshCacheEntry(c, g, <<g, k>>)
  PROVE  /\ Shaped(r)
         /\ Invalid(r) \subseteq Invalid(c)
         /\ Good(c) /\ Invalid(c) # {} => Good(r)
         /\ FromReplies(c, hosts) => FromReplies(r, hosts)
         /\ Strange(c) => Strange(r)
<1> DEFINE m == <<g, k>>
<1>1. c \in Caches /\ g \in Names /\ m \in Macs /\ m \in MacsOf(g)  BY Name DEF Shaped
<1>2. PICK i : i = RefreshRow(c, m)  OBVIOUS
<1>3. /\ i \in Rows
      /\ MacAt(c, i) = m \/ \A j \in Rows : c.row[i].ucAge <= c.row[j].ucAge
  BY <1>1, <1>2, Refreshed
<1>4. PICK cell \in Cells : cell = c.row[i].cell  BY <1>1, <1>3, Row
<1> DEFINE e == Entry(g, cell, MAX_ARP_AGE, TRUE)
<1>5. r = [row |-> [c.row EXCEPT ![i] = e], mac |-> [c.mac EXCEPT ![cell] = m]]
  BY <1>2, <1>4 DEF RefreshCacheEntry
<1>6. e \in Entries  BY <1>1, <1>4 DEF Entry, Entries, MAX_ARP_AGE
<1>7. e.gpa = g /\ e.cell = cell /\ e.ucAge = 5 /\ e.ucValid  BY DEF Entry, MAX_ARP_AGE
<1> HIDE DEF e, m
<1>8. /\ r \in Caches
      /\ r.row[i] = e /\ \A j \in Rows \ {i} : r.row[j] = c.row[j]
      /\ r.mac[cell] = m /\ \A l \in Cells \ {cell} : r.mac[l] = c.mac[l]
  BY <1>1, <1>3, <1>4, <1>5, <1>6 DEF Caches
<1>9. Shaped(r)  BY <1>3, <1>4, <1>7, <1>8 DEF Shaped
<1>10. Invalid(r) \subseteq Invalid(c)  BY <1>7, <1>8 DEF Invalid
<1>11. ASSUME Good(c), Invalid(c) # {} PROVE Good(r)
  <2>1. ASSUME NEW j \in Rows \ Invalid(c), j # i, c.row[j].cell # NullCell
        PROVE  MacAt(r, j) = MacAt(c, j)
    <3>1. r.row[j] = c.row[j] /\ c.row[j].cell \in Cells  BY <1>1, <1>8, <2>1, Row
    <3>2. CASE MacAt(c, i) = m  BY <1>4, <1>8, <3>1, <3>2 DEF MacAt
    <3>3. CASE \A l \in Rows : c.row[i].ucAge <= c.row[l].ucAge
      <4>1. PICK l \in Rows : ~c.row[l].ucValid  BY <1>11 DEF Invalid
      <4>2. c.row[l].ucAge = 0  BY <4>1 DEF Shaped
      <4>3. c.row[i].ucAge \in Nat /\ c.row[i].ucAge <= 0
        BY <1>1, <1>3, <3>3, <4>2 DEF Caches, Entries, MAX_ARP_AGE
      <4>4. c.row[i].ucAge = 0  BY <4>3
      <4>5. cell \in {NullCell, i}  BY <1>3, <1>4, <4>4 DEF Shaped
      <4>6. c.row[j].cell \in {j, OwnCell}  BY <2>1 DEF Shaped
      <4>7. c.row[j].cell # cell  BY <1>3, <2>1, <4>5, <4>6, Cell
      <4> QED BY <1>8, <3>1, <4>7 DEF MacAt
    <3> QED BY <1>3, <3>2, <3>3
  <2>2. cell # OwnCell
    <3> SUFFICES ASSUME cell = OwnCell PROVE FALSE  OBVIOUS
    <3>1. c.row[i].ucValid /\ c.row[i].ucAge # 0  BY <1>3, <1>4 DEF Shaped
    <3>2. i \in Rows \ Invalid(c) /\ cell # NullCell  BY <1>3, <3>1, Cell DEF Invalid
    <3>3. c.row[i].gpa \in {App, Daf} /\ MacAt(c, i) \in MacsOf(c.row[i].gpa)
      BY <1>4, <1>11, <3>2 DEF Good
    <3>4. m \notin MacsOf(App) /\ m \notin MacsOf(Daf)  BY Name DEF m
    <3>5. MacAt(c, i) # m  BY <3>3, <3>4
    <3>6. PICK l \in Rows : ~c.row[l].ucValid  BY <1>11 DEF Invalid
    <3>7. c.row[l].ucAge = 0  BY <3>6 DEF Shaped
    <3>8. c.row[i].ucAge \in Nat /\ c.row[i].ucAge <= 0
      BY <1>1, <1>3, <3>5, <3>7 DEF Caches, Entries, MAX_ARP_AGE
    <3> QED BY <3>1, <3>8
  <2>3. ASSUME NEW j \in Rows \ Invalid(r)
        PROVE  /\ r.row[j].cell # NullCell => MacAt(r, j) \in MacsOf(r.row[j].gpa)
               /\ r.row[j].cell = OwnCell => r.row[j].gpa \in {App, Daf}
    <3>1. CASE j = i  BY <1>1, <1>7, <1>8, <2>2, <3>1 DEF MacAt
    <3>2. CASE j # i
      <4>1. r.row[j] = c.row[j] /\ j \in Rows \ Invalid(c)  BY <1>8, <3>2 DEF Invalid
      <4> QED BY <1>11, <2>1, <3>2, <4>1 DEF Good
    <3> QED BY <3>1, <3>2
  <2> QED BY <2>3 DEF Good
<1>12. FromReplies(c, hosts) => FromReplies(r, hosts)  BY <1>7, <1>8 DEF FromReplies
<1>13. Strange(c) => Strange(r)  BY <1>7, <1>8, Name DEF Strange
<1> QED BY <1>9, <1>10, <1>11, <1>12, <1>13

(* The address that is looked up is of a host that has answered. *)
LEMMA LookedUp ==
  ASSUME NEW c, Shaped(c), NEW hosts, FromReplies(c, hosts)
  PROVE  /\ LookupGHA(c) \in Macs \cup {NoMac}
         /\ Good(c) /\ (\E i \in Rows : c.row[i].ucAge = 3) =>
              \E h \in hosts : LookupGHA(c) \in MacsOf(h)
<1> DEFINE found == {i \in Rows : c.row[i].ucAge = 3}
<1>1. CASE found = {}  BY <1>1 DEF LookupGHA
<1>2. CASE found # {}
  <2>1. PICK i \in found : i = FirstOf(found)
    <3>1. found \in SUBSET Nat  BY Cell
    <3> HIDE DEF found
    <3> QED BY <1>2, <3>1, First
  <2>2. LookupGHA(c) = MacAt(c, i)  BY <1>2, <2>1 DEF LookupGHA
  <2>3. c \in Caches /\ MacAt(c, i) \in Macs  BY Row DEF Shaped
  <2>4. c.row[i].cell = i /\ c.row[i].gpa \in hosts /\ c.row[i].ucValid
    BY DEF Shaped, FromReplies
  <2>5. Good(c) => MacAt(c, i) \in MacsOf(c.row[i].gpa)
    BY <2>4, Cell DEF Good, Invalid
  <2> QED BY <2>2, <2>3, <2>4, <2>5
<1> QED BY <1>1, <1>2

=============================================================================
