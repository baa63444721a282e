---------------------------- MODULE InventoryProofs ----------------------------
(***************************************************************************)
(* Lemmas about Inventory, for any labs, files, directories and environments: *)
(* what the loader returns, and that the command line's short names undo the   *)
(* names containerlab gives.                                                 *)
(***************************************************************************)
EXTENDS Inventory, SequenceTheorems, WellFoundedInduction, TLAPS

-----------------------------------------------------------------------------
(* Names.                                                                  *)

\* The relation < as a set.
Before == {p \in Nat \X Nat : p[1] < p[2]}

\* A set of numbers that is not empty has a least one.
LEMMA LeastNumber ==
  ASSUME NEW T \in SUBSET Nat, T # {}
  PROVE  \E x \in T : \A y \in T : x <= y
<1>1. IsWellFoundedOn(Before, Nat)
  BY NatLessThanWellFounded, Zenon DEF OpToRel, Before
<1>2. PICK x \in T : \A y \in T : ~ (<<y, x>> \in Before)
  BY <1>1, WFMin
<1>3. \A y \in T : ~ (y < x)
  BY <1>2 DEF Before
<1>4. QED
  BY <1>3

\* The words of the names that containerlab makes.
LEMMA NameWords ==
  /\ DefaultPrefix \in Names /\ Len(DefaultPrefix) = 1 /\ DefaultPrefix[1] = "clab"
  /\ LabName # <<>> /\ DefaultPrefix # <<>> /\ DefaultPrefix # LabName
<1>1. "clab" \in Tokens
  BY InventoryAssumption
<1>2. <<"clab">>[1] # <<"__lab-name">>[1]
  OBVIOUS
<1>3. QED
  BY <1>1, <1>2 DEF DefaultPrefix, LabName, Names

\* The names of a lab and its nodes.
LEMMA LabNames ==
  ASSUME NEW t \in Topologies
  PROVE  /\ t.lab \in Names /\ t.lab # <<>> /\ t.prefix \in Names
         /\ \A n \in DOMAIN t.nodes : n \in Names /\ n # <<>> /\ t.nodes[n] \in STRING
  BY InventoryAssumption

\* Two names joined.
LEMMA Joined ==
  ASSUME NEW a \in Names, NEW b \in Names
  PROVE  /\ a \o b \in Names /\ Len(a \o b) = Len(a) + Len(b)
         /\ Len(a) \in Nat /\ Len(b) \in Nat
         /\ \A i \in 1..(Len(a) + Len(b)) : i <= Len(a) => (a \o b)[i] = a[i]
         /\ \A i \in 1..(Len(a) + Len(b)) : i > Len(a) => (a \o b)[i] = b[i - Len(a)]
<1>1. a \in Seq(Tokens) /\ b \in Seq(Tokens) /\ Len(a) \in Nat /\ Len(b) \in Nat
  BY LenProperties DEF Names
<1>2. /\ a \o b \in Seq(Tokens)
      /\ Len(a \o b) = Len(a) + Len(b)
      /\ \A i \in 1..Len(a) + Len(b) : (a \o b)[i] = IF i <= Len(a) THEN a[i] ELSE b[i - Len(a)]
  BY <1>1, ConcatProperties
<1>3. ASSUME NEW i \in 1..(Len(a) + Len(b)), i > Len(a) PROVE (a \o b)[i] = b[i - Len(a)]
  <2>1. ~(i <= Len(a))
    BY <1>1, <1>3
  <2>2. QED
    BY <1>2, <2>1
<1>4. QED
  BY <1>1, <1>2, <1>3 DEF Names

\* A host name is a name, whoever makes it.
LEMMA HostNames ==
  ASSUME NEW t \in Topologies, NEW n \in DOMAIN t.nodes
  PROVE  /\ Container(t, n) \in Names
         /\ (IF t.prefix = LabName THEN <<>> ELSE <<"clab">>) \o t.lab \o n \in Names
<1>1. t.lab \in Names /\ n \in Names /\ t.prefix \in Names
  BY LabNames
<1>2. \A a, b \in Names : a \o b \in Names
  BY Joined
<1>3. <<>> \in Names /\ <<"clab">> \in Names
  BY NameWords, EmptySeq DEF DefaultPrefix, Names
<1>4. QED
  BY <1>1, <1>2, <1>3 DEF Container

\* What is left of a name behind its first part.
LEMMA AfterConcat ==
  ASSUME NEW a \in Names, NEW n \in Names, n # <<>>
  PROVE  After(a \o n, Len(a)) = n
<1>1. /\ Len(a) \in Nat /\ Len(n) \in Nat \ {0}
      /\ Len(a \o n) = Len(a) + Len(n)
  BY ConcatProperties, EmptySeq, LenProperties DEF Names
<1>2. SubSeq(a \o n, Len(a) + 1, Len(a) + Len(n)) = SubSeq(n, Len(a) + 1 - Len(a), Len(a) + Len(n) - Len(a))
  <2>1. /\ Len(a) + 1 \in Len(a) + 1 .. Len(a) + Len(n)
        /\ Len(a) + Len(n) \in Len(a) + 1 .. Len(a) + Len(n)
    BY <1>1
  <2>2. QED
    BY <2>1, SubSeqOfConcat2 DEF Names
<1>3. Len(a) + 1 - Len(a) = 1 /\ Len(a) + Len(n) - Len(a) = Len(n)
  BY <1>1
<1>4. SubSeq(n, 1, Len(n)) = n
  BY SubSeqFull DEF Names
<1>5. QED
  BY <1>1, <1>2, <1>3, <1>4 DEF After

\* A name with the default prefix.
LEMMA DefaultName ==
  ASSUME NEW lab \in Names, NEW n \in Names
  PROVE  /\ DefaultPrefix \o lab \in Names
         /\ Len(DefaultPrefix \o lab) = 1 + Len(lab)
         /\ Len(DefaultPrefix \o lab \o n) = 1 + Len(lab) + Len(n)
         /\ (DefaultPrefix \o lab \o n)[1] = "clab"
         /\ \A i \in 1..Len(lab) : (DefaultPrefix \o lab \o n)[1 + i] = lab[i]
<1> DEFINE p == DefaultPrefix \o lab
<1>1. DefaultPrefix \in Names /\ Len(DefaultPrefix) = 1 /\ Len(lab) \in Nat /\ Len(n) \in Nat
  BY NameWords, LenProperties DEF Names
<1>2. p \in Names /\ Len(p) = 1 + Len(lab)
  <2>1. DefaultPrefix \o lab \in Names /\ Len(DefaultPrefix \o lab) = Len(DefaultPrefix) + Len(lab)
    BY <1>1, Joined, Zenon
  <2>2. QED
    BY <1>1, <2>1
<1>3. p[1] = "clab"
  <2>1. 1 \in 1..(Len(DefaultPrefix) + Len(lab)) /\ 1 <= Len(DefaultPrefix)
    BY <1>1
  <2>2. p[1] = DefaultPrefix[1]
    BY <1>1, <2>1, Joined
  <2>3. QED
    BY <2>2, NameWords
<1>4. ASSUME NEW i \in 1..Len(lab) PROVE p[1 + i] = lab[i]
  <2>1. /\ 1 + i \in 1..(Len(DefaultPrefix) + Len(lab)) /\ 1 + i > Len(DefaultPrefix)
        /\ (1 + i) - Len(DefaultPrefix) = i
    BY <1>1
  <2>2. p[1 + i] = lab[(1 + i) - Len(DefaultPrefix)]
    BY <1>1, <2>1, Joined, Zenon
  <2>3. QED
    BY <2>1, <2>2
<1>5. Len(p \o n) = 1 + Len(lab) + Len(n)
  <2>1. Len(p \o n) = Len(p) + Len(n)
    BY <1>2, Joined, Zenon
  <2>2. QED
    BY <1>2, <2>1
<1>6. ASSUME NEW i \in 1..(1 + Len(lab)) PROVE (p \o n)[i] = p[i]
  <2>1. i \in 1..(Len(p) + Len(n)) /\ i <= Len(p)
    BY <1>1, <1>2
  <2>2. QED
    BY <1>1, <1>2, <2>1, Joined
<1>7. (p \o n)[1] = "clab"
  <2>1. 1 \in 1..(1 + Len(lab))
    BY <1>1
  <2>2. QED
    BY <1>3, <1>6, <2>1
<1>8. ASSUME NEW i \in 1..Len(lab) PROVE (p \o n)[1 + i] = lab[i]
  <2>1. 1 + i \in 1..(1 + Len(lab))
    BY <1>1
  <2>2. QED
    BY <1>4, <1>6, <2>1
<1>9. QED
  BY <1>2, <1>5, <1>7, <1>8

\* If a name that is not all "clab" starts behind a "clab", the whole does not start with it.
LEMMA NotAtTheStart ==
  ASSUME NEW lab \in Names, NEW n \in Names, NEW c,
         c = DefaultPrefix \o lab \o n,
         \E i \in DOMAIN lab : lab[i] # "clab"
  PROVE  ~StartsWith(c, lab)
<1> SUFFICES ASSUME StartsWith(c, lab) PROVE FALSE
  OBVIOUS
<1>1. Len(lab) \in Nat /\ DOMAIN lab = 1..Len(lab)
  BY LenProperties DEF Names
<1>2. c[1] = "clab" /\ \A i \in 1..Len(lab) : c[1 + i] = lab[i]
  BY DefaultName
<1> DEFINE Others == {i \in 1..Len(lab) : lab[i] # "clab"}
<1>3. PICK m \in Others : \A i \in Others : m <= i
  <2>1. Others \in SUBSET Nat /\ Others # {}
    BY <1>1
  <2>2. QED
    BY <2>1, LeastNumber
<1>4. m \in 1..Len(lab) /\ lab[m] = c[m]
  BY <1>3 DEF StartsWith
<1>5. CASE m = 1
  BY <1>2, <1>3, <1>4, <1>5
<1>6. CASE m # 1
  <2>1. m - 1 \in 1..Len(lab) /\ 1 + (m - 1) = m /\ ~(m <= m - 1)
    BY <1>1, <1>4, <1>6
  <2>2. lab[m - 1] = "clab"
    BY <1>3, <2>1
  <2>3. c[m] = lab[m - 1]
    BY <1>2, <2>1
  <2>4. QED
    BY <1>3, <1>4, <2>2, <2>3
<1>7. QED
  BY <1>5, <1>6

\* The lab at the start of the name, and behind the default prefix, is cut off.
LEMMA CutAtTheStart ==
  ASSUME NEW lab \in Names, NEW n \in Names, n # <<>>
  PROVE  ShortName(lab \o n, lab) = n
<1>1. Len(lab) \in Nat /\ Len(n) \in Nat \ {0}
  BY EmptySeq, LenProperties DEF Names
<1>2. /\ Len(lab \o n) = Len(lab) + Len(n)
      /\ \A i \in 1..(Len(lab) + Len(n)) : i <= Len(lab) => (lab \o n)[i] = lab[i]
  BY Joined, Zenon
<1>3. Len(lab) < Len(lab \o n) /\ \A i \in 1..Len(lab) : (lab \o n)[i] = lab[i]
  BY <1>1, <1>2
<1>4. StartsWith(lab \o n, lab)
  BY <1>3, Zenon DEF StartsWith
<1>5. QED
  BY <1>4, AfterConcat, Zenon DEF ShortName

LEMMA CutBehindPrefix ==
  ASSUME NEW lab \in Names, NEW n \in Names, lab # <<>>, n # <<>>,
         \E i \in DOMAIN lab : lab[i] # "clab"
  PROVE  ShortName(DefaultPrefix \o lab \o n, lab) = n
<1> DEFINE p == DefaultPrefix \o lab
<1> DEFINE c == p \o n
<1>1. Len(lab) \in Nat \ {0} /\ Len(n) \in Nat \ {0}
  BY EmptySeq DEF Names
<1>2. ~StartsWith(c, lab)
  BY NotAtTheStart
<1>3. /\ p \in Names /\ Len(p) = 1 + Len(lab) /\ Len(c) = 1 + Len(lab) + Len(n)
      /\ \A i \in 1..Len(lab) : c[1 + i] = lab[i]
  BY DefaultName, Zenon
<1> HIDE DEF c
<1>4. 1 + Len(lab) < Len(c)
  BY <1>1, <1>3
<1>5. HasAt(c, lab, 1)
  BY <1>3, <1>4 DEF HasAt
<1>6. FirstAt(c, lab) = {1}
  <2>1. 1 \in 1..Len(c) /\ 1..(1 - 1) = {}
    BY <1>1, <1>3
  <2>2. ASSUME NEW i \in 1..Len(c), i # 1 PROVE 1 \in 1..(i - 1)
    BY <1>1, <1>3, <2>2
  <2>3. QED
    BY <1>5, <2>1, <2>2 DEF FirstAt
<1>7. FirstAt(c, lab) # {} /\ (CHOOSE i \in FirstAt(c, lab) : TRUE) = 1
  BY <1>6
<1>8. ShortName(c, lab) = After(c, 1 + Len(lab))
  BY <1>2, <1>7 DEF ShortName
<1>9. After(c, Len(p)) = n
  BY <1>3, AfterConcat, Zenon DEF c
<1>10. QED
  BY <1>3, <1>8, <1>9 DEF c

\* _clab_short_name gives back the name a node has in the topology, whatever the names of
\* lab and node: with the prefix `__lab-name`, or with the default one unless the lab's name
\* is made of that prefix alone (Supported).
THEOREM ShortNameIsName ==
  ASSUME NEW t \in Topologies, Supported(t), NEW n \in DOMAIN t.nodes
  PROVE  ShortName(Container(t, n), t.lab) = n
<1>1. t.lab \in Names /\ n \in Names /\ n # <<>> /\ t.lab # <<>>
  BY LabNames
<1>2. CASE t.prefix = LabName
  <2>1. Container(t, n) = t.lab \o n
    BY <1>2, NameWords DEF Container
  <2>2. QED
    BY <1>1, <2>1, CutAtTheStart
<1>3. CASE t.prefix = DefaultPrefix /\ \E i \in DOMAIN t.lab : t.lab[i] # "clab"
  <2>1. Container(t, n) = DefaultPrefix \o t.lab \o n
    BY <1>3, NameWords DEF Container
  <2>2. QED
    BY <1>1, <1>3, <2>1, CutBehindPrefix
<1>4. QED
  BY <1>2, <1>3 DEF Supported

-----------------------------------------------------------------------------
(* Loading.                                                                *)

\* A server's nodes have their types, and those of a lab are that lab's.
NodesOK(i) ==
  /\ DOMAIN i.table \subseteq Names /\ \A n \in DOMAIN i.table : i.table[n] \in NodeInfo
  /\ i.lab \subseteq Topologies
NodesMatch(i) == \A t \in i.lab : Supported(t) => i.table = NodesOf(t)

\* The files the command line made are still as it made them.
YmlMade ==
  \A d \in Dirs : yml[d] \in YmlFile => \A t \in yml[d].lab : yml[d] = InspectToYml(t)

\* What a NodeInfo is made of.
LEMMA KindsAreKnown == \A k \in DOMAIN KindToNos : KindToNos[k] \in Texts
  BY InventoryAssumption DEF KindToNos

LEMMA InfoType ==
  ASSUME NEW fqdn \in Names, NEW nos \in Texts, NEW login \in Login \cup {None}
  PROVE  Info(fqdn, nos, login) \in NodeInfo
<1>1. DefaultLogin(nos) \in Login
  BY InventoryAssumption DEF DefaultLogin, Login
<1>2. QED
  BY <1>1 DEF Info, NodeInfo

\* What an entry without a login says.
LEMMA InfoOfEntry ==
  ASSUME NEW n, NEW fqdn, NEW nos, NEW e, e = [name |-> n, fqdn |-> fqdn, nos |-> nos, login |-> None]
  PROVE  Info(e.fqdn, e.nos, e.login) = [fqdn |-> fqdn, nos |-> nos, login |-> DefaultLogin(nos)]
<1>1. e.fqdn = fqdn /\ e.nos = nos /\ e.login = None
  OBVIOUS
<1>2. QED
  BY <1>1 DEF Info

\* The nodes of a topology file.
LEMMA FromClabOK ==
  ASSUME NEW t \in Topologies
  PROVE  NodesOK(FromClab(t)) /\ NodesMatch(FromClab(t))
<1> DEFINE fqdn(n) == (IF t.prefix = LabName THEN <<>> ELSE <<"clab">>) \o t.lab \o n
<1>1. /\ FromClab(t).table = [n \in Routers(t) |-> Info(fqdn(n), KindToNos[t.nodes[n]], None)]
      /\ FromClab(t).lab = {t}
  BY DEF FromClab
<1>2. ASSUME NEW n \in Routers(t)
      PROVE  n \in Names /\ Info(fqdn(n), KindToNos[t.nodes[n]], None) \in NodeInfo
  <2>1. n \in DOMAIN t.nodes /\ t.nodes[n] \in DOMAIN KindToNos
    BY DEF Routers
  <2>2. fqdn(n) \in Names /\ n \in Names
    BY <2>1, HostNames, LabNames
  <2>3. QED
    BY <2>1, <2>2, KindsAreKnown, InfoType
<1>3. NodesOK(FromClab(t))
  BY <1>1, <1>2 DEF NodesOK
<1>4. ASSUME Supported(t) PROVE FromClab(t).table = NodesOf(t)
  <2>1. ASSUME NEW n \in Routers(t)
        PROVE  Info(fqdn(n), KindToNos[t.nodes[n]], None)
                 = [fqdn |-> Container(t, n), nos |-> KindToNos[t.nodes[n]],
                    login |-> DefaultLogin(KindToNos[t.nodes[n]])]
    <3>1. t.lab \in Names /\ n \in Names
      BY LabNames DEF Routers
    <3>2. fqdn(n) = Container(t, n)
      <4>1. CASE t.prefix = LabName
        <5>1. <<>> \o t.lab = t.lab
          BY <3>1, ConcatEmptySeq DEF Names
        <5>2. QED
          BY <4>1, <5>1, NameWords DEF Container
      <4>2. CASE t.prefix = DefaultPrefix
        BY <4>2, NameWords DEF Container, DefaultPrefix
      <4>3. QED
        BY <1>4, <4>1, <4>2 DEF Supported
    <3>3. QED
      BY <3>2 DEF Info
  <2>2. QED
    BY <1>1, <2>1 DEF NodesOf
<1>5. QED
  BY <1>1, <1>3, <1>4 DEF NodesMatch

\* The nodes of a netmcp.yml.
LEMMA FromYmlOK ==
  ASSUME NEW file \in YmlFile, NEW i \in FromYml(file)
  PROVE  NodesOK(i)
<1> DEFINE names == {e.name : e \in file.nodes}
<1>1. PICK p \in [names -> file.nodes] :
        i = [table |-> [n \in names |-> Info(p[n].fqdn, p[n].nos, p[n].login)], lab |-> file.lab]
  BY DEF FromYml
<1>2. file.nodes \subseteq YmlEntry /\ file.lab \subseteq Topologies
  BY DEF YmlFile
<1>3. ASSUME NEW n \in names
      PROVE  n \in Names /\ Info(p[n].fqdn, p[n].nos, p[n].login) \in NodeInfo
  <2>1. p[n] \in YmlEntry /\ n \in Names
    BY <1>1, <1>2 DEF YmlEntry
  <2>2. p[n].fqdn \in Names /\ p[n].nos \in Texts /\ p[n].login \in Login \cup {None}
    BY <2>1 DEF YmlEntry
  <2>3. QED
    BY <2>1, <2>2, InfoType
<1>4. QED
  BY <1>1, <1>2, <1>3 DEF NodesOK

\* A netmcp.yml made of a lab gives the nodes the topology file gives: short names are
\* the nodes' names, so no two entries have one.
LEMMA FromInspectMatches ==
  ASSUME NEW t \in Topologies, Supported(t), NEW i \in FromYml(InspectToYml(t))
  PROVE  i.table = NodesOf(t)
<1> DEFINE file == InspectToYml(t)
<1> DEFINE names == {e.name : e \in file.nodes}
<1> DEFINE Made(n) == [name |-> n, fqdn |-> Container(t, n), nos |-> KindToNos[t.nodes[n]], login |-> None]
<1>1. file.nodes = {Made(n) : n \in Routers(t)}
  <2>1. ASSUME NEW n \in Routers(t) PROVE ShortName(Container(t, n), t.lab) = n
    BY ShortNameIsName DEF Routers
  <2>2. QED
    BY <2>1 DEF InspectToYml
<1>2. names = Routers(t)
  <2>1. ASSUME NEW n \in Routers(t) PROVE n \in names
    <3>1. Made(n) \in file.nodes /\ Made(n).name = n
      BY <1>1
    <3>2. QED
      BY <3>1
  <2>2. ASSUME NEW n \in names PROVE n \in Routers(t)
    <3>1. PICK e \in file.nodes : n = e.name
      OBVIOUS
    <3>2. PICK m \in Routers(t) : e = Made(m)
      BY <1>1, <3>1
    <3>3. QED
      BY <3>1, <3>2
  <2>3. QED
    BY <2>1, <2>2
<1>3. PICK p \in [names -> file.nodes] :
        /\ \A n \in names : p[n].name = n
        /\ i = [table |-> [n \in names |-> Info(p[n].fqdn, p[n].nos, p[n].login)], lab |-> file.lab]
  BY DEF FromYml
<1>4. ASSUME NEW n \in Routers(t) PROVE p[n] = Made(n)
  <2>1. p[n] \in file.nodes /\ p[n].name = n
    BY <1>2, <1>3
  <2>2. PICK m \in Routers(t) : p[n] = Made(m)
    BY <1>1, <2>1
  <2>3. QED
    BY <2>1, <2>2
<1>5. ASSUME NEW n \in Routers(t)
      PROVE  Info(p[n].fqdn, p[n].nos, p[n].login)
               = [fqdn |-> Container(t, n), nos |-> KindToNos[t.nodes[n]],
                  login |-> DefaultLogin(KindToNos[t.nodes[n]])]
  <2>1. p[n] = [name |-> n, fqdn |-> Container(t, n), nos |-> KindToNos[t.nodes[n]], login |-> None]
    BY <1>4
  <2>2. QED
    BY <2>1, InfoOfEntry
<1>6. QED
  BY <1>2, <1>3, <1>5 DEF NodesOf

\* There is one nearest directory with a file.
LEMMA OneFirst ==
  ASSUME NEW file, NEW cwd \in Dirs, NEW d \in FirstUp(file, cwd), NEW e \in FirstUp(file, cwd)
  PROVE  d = e
<1>1. d \in Nat /\ e \in Nat /\ cwd \in Nat
  BY InventoryAssumption DEF FirstUp, Dirs
<1>2. QED
  BY <1>1 DEF FirstUp

\* Where the nodes that load_nodes returns come from.
LEMMA LoadedFrom ==
  ASSUME yml \in YmlTable, NEW e \in Environments, NEW i \in LoadNodes(e)
  PROVE  \/ i = [table |-> <<>>, lab |-> {}]
         \/ i \in ClabNodes(e)
         \/ \E d \in FirstUp(yml, e.cwd) : yml[d] \in YmlFile /\ i \in FromYml(yml[d])
<1> DEFINE files == {yml[d] : d \in FirstUp(yml, e.cwd)}
<1>1. ASSUME files \ {Empty} # {}, i \in UNION {FromYml(f) : f \in files \ {Malformed}}
      PROVE  \E d \in FirstUp(yml, e.cwd) : yml[d] \in YmlFile /\ i \in FromYml(yml[d])
  <2>1. PICK d \in FirstUp(yml, e.cwd) : yml[d] # Malformed /\ i \in FromYml(yml[d])
    BY <1>1
  <2>2. d \in Dirs /\ yml[d] # None
    BY DEF FirstUp
  <2>3. yml[d] # Empty
    <3>1. PICK c \in FirstUp(yml, e.cwd) : yml[c] # Empty
      BY <1>1
    <3>2. e.cwd \in Dirs
      BY InventoryAssumption
    <3>3. c = d
      BY <3>1, <3>2, <2>1, OneFirst
    <3>4. QED
      BY <3>1, <3>3
  <2>4. yml[d] \in YmlFile
    BY <2>1, <2>2, <2>3 DEF YmlTable
  <2>5. QED
    BY <2>1, <2>4
<1>2. QED
  BY <1>1 DEF LoadNodes

\* Whatever load_nodes returns has its types, and matches the lab it was made of.
LEMMA LoadedOK ==
  ASSUME yml \in YmlTable, YmlMade, NEW e \in Environments, NEW i \in LoadNodes(e)
  PROVE  NodesOK(i) /\ NodesMatch(i)
<1>1. CASE i = [table |-> <<>>, lab |-> {}]
  <2>1. DOMAIN i.table = {} /\ i.lab = {}
    BY <1>1
  <2>2. QED
    BY <2>1 DEF NodesOK, NodesMatch
<1>2. CASE i \in ClabNodes(e)
  <2>1. PICK t \in Topologies : i = FromClab(t)
    BY <1>2 DEF ClabNodes
  <2>2. QED
    BY <2>1, FromClabOK
<1>3. CASE \E d \in FirstUp(yml, e.cwd) : yml[d] \in YmlFile /\ i \in FromYml(yml[d])
  <2>1. PICK d \in Dirs : yml[d] \in YmlFile /\ i \in FromYml(yml[d])
    BY <1>3 DEF FirstUp
  <2>2. NodesOK(i)
    BY <2>1, FromYmlOK
  <2>3. i.lab = yml[d].lab
    <3>1. \E a : i = [table |-> a, lab |-> yml[d].lab]
      BY <2>1 DEF FromYml
    <3>2. QED
      BY <3>1
  <2>4. ASSUME NEW t \in i.lab, Supported(t) PROVE i.table = NodesOf(t)
    <3>1. t \in Topologies /\ yml[d] = InspectToYml(t)
      BY <2>1, <2>2, <2>3, <2>4 DEF YmlMade, NodesOK
    <3>2. QED
      BY <2>1, <2>4, <3>1, FromInspectMatches
  <2>5. QED
    BY <2>2, <2>4 DEF NodesMatch
<1>4. QED
  BY <1>1, <1>2, <1>3, LoadedFrom

\* What the command line writes is a netmcp.yml.
LEMMA InspectType ==
  ASSUME NEW t \in Topologies
  PROVE  InspectToYml(t) \in YmlFile /\ InspectToYml(t).lab = {t}
<1>1. ASSUME NEW c \in Names, NEW k \in Nat PROVE After(c, k) \in Names
  <2>1. Len(c) \in Nat /\ \A j \in 1..Len(c) : c[j] \in Tokens
    BY LenProperties, ElementOfSeq DEF Names
  <2>2. k + 1 \in Int /\ Len(c) \in Int /\ \A j \in (k + 1)..Len(c) : c[j] \in Tokens
    BY <2>1
  <2>3. QED
    BY <2>2, SubSeqProperties DEF After, Names
<1>2. ASSUME NEW n \in DOMAIN t.nodes PROVE ShortName(Container(t, n), t.lab) \in Names
  <2> DEFINE c == Container(t, n)
  <2>1. c \in Names /\ Len(t.lab) \in Nat
    BY HostNames, LabNames, LenProperties DEF Names
  <2> HIDE DEF c
  <2>2. After(c, Len(t.lab)) \in Names
    BY <1>1, <2>1
  <2>3. ASSUME FirstAt(c, t.lab) # {}
        PROVE  After(c, (CHOOSE i \in FirstAt(c, t.lab) : TRUE) + Len(t.lab)) \in Names
    <3>1. (CHOOSE i \in FirstAt(c, t.lab) : TRUE) \in FirstAt(c, t.lab)
      BY <2>3
    <3>2. (CHOOSE i \in FirstAt(c, t.lab) : TRUE) \in Nat
      BY <3>1 DEF FirstAt
    <3>3. (CHOOSE i \in FirstAt(c, t.lab) : TRUE) + Len(t.lab) \in Nat
      BY <2>1, <3>2
    <3>4. QED
      BY <1>1, <2>1, <3>3
  <2>4. ShortName(c, t.lab) \in Names
    BY <2>1, <2>2, <2>3 DEF ShortName
  <2>5. QED
    BY <2>4 DEF c
<1>3. ASSUME NEW n \in Routers(t)
      PROVE  [name |-> ShortName(Container(t, n), t.lab), fqdn |-> Container(t, n),
              nos |-> KindToNos[t.nodes[n]], login |-> None] \in YmlEntry
  <2>1. n \in DOMAIN t.nodes /\ KindToNos[t.nodes[n]] \in Texts
    BY KindsAreKnown DEF Routers
  <2>2. QED
    BY <1>2, <2>1, HostNames DEF YmlEntry
<1>4. QED
  BY <1>3 DEF InspectToYml, YmlFile
=============================================================================
