------------------------------ MODULE ArpCache ------------------------------
(***************************************************************************)
(* The cache of RINA's address resolution (Arp826.c): a table from names   *)
(* (gpa_t, rina_gpha.c) to hardware addresses (gha_t), filled by replies   *)
(* and by the registration of the node's own names, refreshed by requests. *)
(*                                                                         *)
(* A row does not hold a hardware address but a pointer to one, and rows   *)
(* may share what they point to; a cache is therefore its rows together    *)
(* with the contents of the cells that they point to.                      *)
(***************************************************************************)
EXTENDS RinaName

CONSTANTS Hosts,     \* names of the other hosts
          Peer,      \* the host with which the node shares its DIF
          ArpRows    \* ARP_CACHE_ENTRIES

ASSUME ArpAssumption == Peer \in Hosts /\ ArpRows \in Nat \ {0}

(* What the node registers: its process and its DIF *)
AppName == <<"st1.slice1", "1", "", "">>
DafName == <<"slice1.DIF", "", "", "">>

(* pxNameToGPA: the protocol address is the text of a name, without its    *)
(* end.                                                                    *)
NameToGPA(name) == NameToString(name)

App == NameToGPA(AppName)
Daf == NameToGPA(DafName)
NoName == NoText
Names == Hosts \cup {App, Daf, NoName}

(* No other host bears a name of the node. *)
ASSUME HostsAssumption == Hosts \cap {App, Daf, NoName} = {}

(* A host that is replaced comes back with a second hardware address. *)
Macs == Names \X {1, 2}
OwnMac == <<App, 1>>
Unknown == <<NoName, 1>>            \* ff:ff:ff:ff:ff:ff
NoMac == <<>>                       \* NULL
MacsOf(g) == IF g = Daf THEN {OwnMac} ELSE {g} \X {1, 2}

Rows == 1 .. ArpRows
NullCell == 0                       \* the cell of every row at the start
OwnCell == ArpRows + 1              \* the cell of the node's own names
Cells == 0 .. ArpRows + 1           \* a row that a reply fills has its own

MAX_ARP_AGE == 5

Entries == [gpa : Names, cell : Cells, ucAge : 0 .. MAX_ARP_AGE, ucValid : BOOLEAN]
Entry(g, c, a, v) == [gpa |-> g, cell |-> c, ucAge |-> a, ucValid |-> v]

Caches == [row : [Rows -> Entries], mac : [Cells -> Macs]]

MacAt(c, i) == c.mac[c.row[i].cell]

FirstOf(S) == CHOOSE i \in S : \A j \in S : i <= j
LastOf(S) == CHOOSE i \in S : \A j \in S : j <= i

Invalid(c) == {i \in Rows : ~c.row[i].ucValid}
Named(c, g) == {i \in Rows : c.row[i].gpa = g}

-----------------------------------------------------------------------------
(* vARPInitCache: every row points to the same unknown address. *)
InitCache == [row |-> [i \in Rows |-> Entry(NoName, NullCell, 0, FALSE)],
              mac |-> [k \in Cells |-> Unknown]]

(* vARPAddCacheEntry: the first row that is not valid takes the name and   *)
(* the cell; with none the entry is dropped.  The cell is the node's own   *)
(* (k = OwnCell), or a new one.                                            *)
AddCacheEntry(c, g, k, m, age) ==
  IF Invalid(c) = {} THEN c
  ELSE LET i == FirstOf(Invalid(c))
           cell == IF k = OwnCell THEN OwnCell ELSE i IN
       [row |-> [c.row EXCEPT ![i] = Entry(g, cell, age, TRUE)],
        mac |-> [c.mac EXCEPT ![cell] = m]]

(* pxARPAdd, for a name of the node itself *)
ARPAdd(c, g) == AddCacheEntry(c, g, OwnCell, OwnMac, 1)

(* Mutant of RefreshRow: rows that were never filled are skipped. *)
RefreshRowFilled(c, m) ==
  LET matching == {i \in Rows : MacAt(c, i) = m}
      filled == {i \in Rows : c.row[i].ucAge # 0} IN
  IF matching # {} THEN LastOf(matching)
  ELSE FirstOf({i \in filled : \A j \in filled : c.row[i].ucAge <= c.row[j].ucAge})

(* The row that vARPRefreshCacheEntry uses: names are compared as          *)
(* pointers, so that none matches; the last row with the hardware address, *)
(* or else the first of the lowest age.                                    *)
RefreshRow(c, m) ==
  LET matching == {i \in Rows : MacAt(c, i) = m} IN
  IF matching # {} THEN LastOf(matching)
  ELSE FirstOf({i \in Rows : \A j \in Rows : c.row[i].ucAge <= c.row[j].ucAge})

(* vARPRefreshCacheEntry: the address is copied into the row's cell. *)
RefreshCacheEntry(c, g, m) ==
  LET i == RefreshRow(c, m) IN
  [row |-> [c.row EXCEPT ![i] = Entry(g, @.cell, MAX_ARP_AGE, TRUE)],
   mac |-> [c.mac EXCEPT ![c.row[i].cell] = m]]

(* vARPRemoveCacheEntry: the first row with the name becomes a null entry, *)
(* with a cell of its own.                                                 *)
RemoveCacheEntry(c, g) ==
  IF Named(c, g) = {} THEN c
  ELSE LET i == FirstOf(Named(c, g)) IN
       [row |-> [c.row EXCEPT ![i] = Entry(NoName, i, 0, FALSE)],
        mac |-> [c.mac EXCEPT ![i] = Unknown]]

(* eARPLookupGPA *)
LookupGPA(c, g) ==
  LET found == {i \in Named(c, g) : c.row[i].ucAge # 0} IN
  IF found = {} THEN "eARPCacheMiss"
  ELSE IF c.row[FirstOf(found)].ucValid THEN "eARPCacheHit" ELSE "eCantSendPacket"

(* pxARPLookupGHA: the name to look up is not read; the first row that a   *)
(* reply has filled, and that no request has refreshed, gives the address. *)
LookupGHA(c) == LET found == {i \in Rows : c.row[i].ucAge = 3} IN
                IF found = {} THEN NoMac ELSE MacAt(c, FirstOf(found))

(* xARPRemove *)
ARPRemove(c, g) == IF LookupGPA(c, g) = "eARPCacheMiss" THEN c
                   ELSE RemoveCacheEntry(c, g)

(* eARPProcessPacket: what a packet from a host does to the cache.  Only a *)
(* request of a host that is known refreshes its row; its buffer goes with *)
(* eReturnEthernetFrame and no reply is sent.                              *)
ProcessPacket(c, op, g, m) ==
  IF op = "ARP_REPLY" THEN AddCacheEntry(c, g, NullCell, m, 3)
  ELSE IF LookupGPA(c, g) = "eARPCacheMiss" THEN c
  ELSE RefreshCacheEntry(c, g, m)

-----------------------------------------------------------------------------
(* A row with a cell of its own that a reply or a registration has filled  *)
(* bears an address that its host has used.  Rows that a refresh has put   *)
(* on the cell shared from the start need not, nor any once the table is   *)
(* full: a refresh then takes the place of another host.                   *)
Agrees(c) == Invalid(c) # {} =>
               \A i \in Rows \ Invalid(c) :
                  c.row[i].cell # NullCell => MacAt(c, i) \in MacsOf(c.row[i].gpa)
=============================================================================
