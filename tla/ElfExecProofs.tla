---------------------------- MODULE ElfExecProofs ----------------------------
(***************************************************************************)
(* Address spaces for every number of pages, every size of a table and of  *)
(* a page, every set of executables and arguments: the spaces in use stay  *)
(* apart and allocated, no page is lost however an exec ends, and every    *)
(* buffer of an exec is given back.                                        *)
(***************************************************************************)
EXTENDS ElfExec, WellFoundedInduction, TLAPS

-----------------------------------------------------------------------------
(* Trees of tables.                                                        *)

\* No entry of a table in S leads out of S.
Closed(m, S) == \A p \in S : Children(m, p) \subseteq S

\* What the entries of the root that destroy_address_space visits lead to.
UserChildren(m, p) ==
  { m[p][i].page : i \in { j \in 0 .. UserEntries - 1 : m[p][j].page # 0 } }

\* The user half of a root is part of it.
LEMMA UserHalf ==
  /\ UserEntries \in Int /\ UserEntries <= ENTRIES
  /\ 0 .. UserEntries - 1 \subseteq 0 .. ENTRIES - 1
  /\ 0 .. ENTRIES - 1 \subseteq Slots
<1>1. UserEntries \in Int /\ UserEntries <= ENTRIES
  BY LayoutAssumption DEF UserEntries
<1>2. 0 .. UserEntries - 1 \subseteq 0 .. ENTRIES - 1
  BY <1>1, LayoutAssumption
<1>3. 0 .. ENTRIES - 1 \subseteq Slots
  BY LayoutAssumption DEF Slots
<1> QED
  BY <1>1, <1>2, <1>3, Zenon

\* An entry of the user half is an entry.
LEMMA UserChildrenAreChildren ==
  \A m, p : UserChildren(m, p) \subseteq Children(m, p)
BY UserHalf, Zenon DEF UserChildren, Children

\* The pages destroy_address_space frees, by the tables below the root.
LEMMA SpaceTrees ==
  ASSUME NEW m, NEW root, root # 0
  PROVE  SpacePages(m, root) = {root} \cup UNION { Tree3(m, q) : q \in UserChildren(m, root) }
BY Zenon DEF SpacePages, UserChildren

\* The pages of a tree are its table and those of the trees below.
LEMMA InTree ==
  \A m, p, x :
    /\ x \in Tree1(m, p) <=> x = p \/ x \in Children(m, p)
    /\ x \in Tree2(m, p) <=> x = p \/ \E q \in Children(m, p) : x \in Tree1(m, q)
    /\ x \in Tree3(m, p) <=> x = p \/ \E q \in Children(m, p) : x \in Tree2(m, q)
<1> SUFFICES ASSUME NEW m, NEW p, NEW x
             PROVE  /\ x \in Tree1(m, p) <=> x = p \/ x \in Children(m, p)
                    /\ x \in Tree2(m, p) <=> x = p \/ \E q \in Children(m, p) : x \in Tree1(m, q)
                    /\ x \in Tree3(m, p) <=> x = p \/ \E q \in Children(m, p) : x \in Tree2(m, q)
  OBVIOUS
<1>1. x \in Tree1(m, p) <=> x = p \/ x \in Children(m, p)
  BY Zenon DEF Tree1
<1>2. x \in Tree2(m, p) <=> x = p \/ \E q \in Children(m, p) : x \in Tree1(m, q)
  BY Zenon DEF Tree2
<1>3. x \in Tree3(m, p) <=> x = p \/ \E q \in Children(m, p) : x \in Tree2(m, q)
  BY Zenon DEF Tree3
<1> QED
  BY <1>1, <1>2, <1>3, Zenon

\* The same for a space.
LEMMA InSpace ==
  \A m, root, x :
    root # 0 => (x \in SpacePages(m, root)
                   <=> x = root \/ \E q \in UserChildren(m, root) : x \in Tree3(m, q))
<1> SUFFICES ASSUME NEW m, NEW root, NEW x, root # 0
             PROVE  x \in SpacePages(m, root)
                      <=> x = root \/ \E q \in UserChildren(m, root) : x \in Tree3(m, q)
  BY Zenon
<1>1. SpacePages(m, root) = {root} \cup UNION { Tree3(m, q) : q \in UserChildren(m, root) }
  BY SpaceTrees, Zenon
<1> QED
  BY <1>1, Zenon

\* The tree of a table in a closed set lies in it.
LEMMA TreesWithin ==
  ASSUME NEW m, NEW S, Closed(m, S), NEW p \in S
  PROVE  Tree1(m, p) \subseteq S /\ Tree2(m, p) \subseteq S /\ Tree3(m, p) \subseteq S
<1>1. \A q \in S : Children(m, q) \subseteq S
  BY Zenon DEF Closed
<1>2. \A q \in S : Tree1(m, q) \subseteq S
  BY <1>1, Zenon DEF Tree1
<1>3. \A q \in S : Tree2(m, q) \subseteq S
  BY <1>1, <1>2, Zenon DEF Tree2
<1>4. \A q \in S : Tree3(m, q) \subseteq S
  BY <1>1, <1>3, Zenon DEF Tree3
<1> QED
  BY <1>2, <1>3, <1>4, Zenon

\* The pages of a space: S, closed, with its root.
Owns(m, root, S) == S \subseteq Page /\ Closed(m, S) /\ (root # 0 => root \in S)

\* destroy_address_space frees pages of the space only.
LEMMA SpaceWithin ==
  ASSUME NEW m, NEW root, NEW S, Owns(m, root, S)
  PROVE  SpacePages(m, root) \subseteq S
<1>1. CASE root = 0
  BY <1>1, Zenon DEF SpacePages
<1>2. CASE root # 0
  <2>1. root \in S /\ Closed(m, S)
    BY <1>2, Zenon DEF Owns
  <2>2. UserChildren(m, root) \subseteq S
    BY <2>1, UserChildrenAreChildren, Zenon DEF Closed
  <2>3. \A q \in UserChildren(m, root) : Tree3(m, q) \subseteq S
    BY <2>1, <2>2, TreesWithin, Zenon
  <2> QED
    <3>1. SpacePages(m, root) = {root} \cup UNION { Tree3(m, q) : q \in UserChildren(m, root) }
      BY <1>2, SpaceTrees, Zenon
    <3>2. UNION { Tree3(m, q) : q \in UserChildren(m, root) } \subseteq S
      BY <2>3, Zenon
    <3> QED
      BY <2>1, <3>1, <3>2, Zenon
<1> QED
  BY <1>1, <1>2, Zenon

-----------------------------------------------------------------------------
(* Memory that changes elsewhere.                                          *)

\* The tables in S have the same entries, flags aside.
SameLinks(m, m2, S) == \A p \in S : \A i \in 0 .. ENTRIES - 1 : m2[p][i].page = m[p][i].page

\* Then they have the same children,
LEMMA SameChildren ==
  ASSUME NEW m, NEW m2, NEW S, SameLinks(m, m2, S)
  PROVE  \A p \in S : /\ Children(m2, p) = Children(m, p)
                      /\ UserChildren(m2, p) = UserChildren(m, p)
<1> SUFFICES ASSUME NEW p \in S
             PROVE  Children(m2, p) = Children(m, p) /\ UserChildren(m2, p) = UserChildren(m, p)
  BY Zenon
<1>1. \A i \in 0 .. ENTRIES - 1 : m2[p][i].page = m[p][i].page
  BY Zenon DEF SameLinks
<1>2. \A i \in 0 .. UserEntries - 1 : m2[p][i].page = m[p][i].page
  BY <1>1, UserHalf, Zenon
<1>3. Children(m2, p) = Children(m, p)
  BY <1>1, Zenon DEF Children
<1>4. UserChildren(m2, p) = UserChildren(m, p)
  BY <1>2, Zenon DEF UserChildren
<1> QED
  BY <1>3, <1>4, Zenon

\* S still is what it was,
LEMMA SameOwns ==
  ASSUME NEW m, NEW m2, NEW root, NEW S, Owns(m, root, S), SameLinks(m, m2, S)
  PROVE  Owns(m2, root, S)
<1>1. \A p \in S : Children(m2, p) = Children(m, p)
  BY SameChildren, Zenon
<1> QED
  BY <1>1, Zenon DEF Owns, Closed

\* and the pages of a space in it are the same.
LEMMA SameSpace ==
  ASSUME NEW m, NEW m2, NEW root, NEW S, Owns(m, root, S), SameLinks(m, m2, S)
  PROVE  SpacePages(m2, root) = SpacePages(m, root)
<1>1. CASE root = 0
  BY <1>1, Zenon DEF SpacePages
<1>2. CASE root # 0
  <2>1. root \in S /\ \A p \in S : Children(m, p) \subseteq S
    BY <1>2, Zenon DEF Owns, Closed
  <2>2. \A p \in S : Children(m2, p) = Children(m, p)
    BY SameChildren, Zenon
  <2>3. UserChildren(m2, root) = UserChildren(m, root)
    BY <2>1, SameChildren, Zenon
  <2>4. \A p \in S : Tree1(m2, p) = Tree1(m, p)
    BY <2>2, Zenon DEF Tree1
  <2>5. \A p \in S : Tree2(m2, p) = Tree2(m, p)
    <3> SUFFICES ASSUME NEW p \in S PROVE Tree2(m2, p) = Tree2(m, p)
      BY Zenon
    <3>1. \A q \in Children(m, p) : Tree1(m2, q) = Tree1(m, q)
      BY <2>1, <2>4, Zenon
    <3>2. { Tree1(m2, q) : q \in Children(m2, p) } = { Tree1(m, q) : q \in Children(m, p) }
      BY <2>2, <3>1, Zenon
    <3> QED
      BY <3>2, Zenon DEF Tree2
  <2>6. \A p \in S : Tree3(m2, p) = Tree3(m, p)
    <3> SUFFICES ASSUME NEW p \in S PROVE Tree3(m2, p) = Tree3(m, p)
      BY Zenon
    <3>1. \A q \in Children(m, p) : Tree2(m2, q) = Tree2(m, q)
      BY <2>1, <2>5, Zenon
    <3>2. { Tree2(m2, q) : q \in Children(m2, p) } = { Tree2(m, q) : q \in Children(m, p) }
      BY <2>2, <3>1, Zenon
    <3> QED
      BY <3>2, Zenon DEF Tree3
  <2>7. UserChildren(m, root) \subseteq S
    BY <2>1, UserChildrenAreChildren, Zenon
  <2>8. { Tree3(m2, q) : q \in UserChildren(m2, root) }
          = { Tree3(m, q) : q \in UserChildren(m, root) }
    BY <2>3, <2>6, <2>7, Zenon
  <2> QED
    BY <1>2, <2>8, SpaceTrees, Zenon
<1> QED
  BY <1>1, <1>2, Zenon

-----------------------------------------------------------------------------
(* A page that is linked into a table.                                     *)

\* The empty entry k of table t becomes a link to the page n, which is clear.
LinkAdded(m, m2, t, k, n) ==
  /\ t \in Page /\ n \in Page /\ t # n /\ k \in 0 .. ENTRIES - 1
  /\ m[t][k].page = 0 /\ m2[t][k].page = n
  /\ \A i \in 0 .. ENTRIES - 1 : m2[n][i].page = 0
  /\ \A p \in Page \ {n} : \A i \in 0 .. ENTRIES - 1 :
       ~(p = t /\ i = k) => m2[p][i].page = m[p][i].page

\* Pages have numbers from 1 on: 0 is no page.
LEMMA PageNotZero == 0 \notin Page /\ \A p \in Page : p # 0
BY LayoutAssumption DEF Page

\* Every table keeps its children, n is the only new one, and n has none.
Gains(m, m2, n) ==
  /\ n \in Page /\ Children(m2, n) = {}
  /\ \A p \in Page \ {n} : /\ Children(m, p) \subseteq Children(m2, p)
                           /\ Children(m2, p) \subseteq Children(m, p) \cup {n}
                           /\ UserChildren(m, p) \subseteq UserChildren(m2, p)
                           /\ UserChildren(m2, p) \subseteq UserChildren(m, p) \cup {n}

\* This is what a new link does, and n is the child of t.
LEMMA LinkChildren ==
  ASSUME NEW m, NEW m2, NEW t, NEW k, NEW n, LinkAdded(m, m2, t, k, n)
  PROVE  /\ Gains(m, m2, n)
         /\ n \in Children(m2, t)
         /\ k \in 0 .. UserEntries - 1 => n \in UserChildren(m2, t)
<1>1. Children(m2, n) = {}
  BY Zenon DEF LinkAdded, Children
<1>2. n # 0 /\ m2[t][k].page = n /\ m2[t][k].page # 0 /\ k \in 0 .. ENTRIES - 1
  BY PageNotZero, Zenon DEF LinkAdded
<1>3. n \in Children(m2, t)
  BY <1>2, Zenon DEF Children
<1>4. k \in 0 .. UserEntries - 1 => n \in UserChildren(m2, t)
  BY <1>2, Zenon DEF UserChildren
<1>5. ASSUME NEW p \in Page \ {n}, NEW i \in 0 .. ENTRIES - 1
      PROVE  /\ m[p][i].page # 0 => m2[p][i].page = m[p][i].page
             /\ m2[p][i].page # 0 => m2[p][i].page = n \/ m2[p][i].page = m[p][i].page
  <2>1. CASE p = t /\ i = k
    BY <2>1, Zenon DEF LinkAdded
  <2>2. CASE ~(p = t /\ i = k)
    BY <2>2, Zenon DEF LinkAdded
  <2> QED
    BY <2>1, <2>2, Zenon
<1>6. ASSUME NEW p \in Page \ {n}
      PROVE  /\ Children(m, p) \subseteq Children(m2, p)
             /\ Children(m2, p) \subseteq Children(m, p) \cup {n}
  <2>1. Children(m, p) \subseteq Children(m2, p)
    <3>1. SUFFICES ASSUME NEW q \in Children(m, p) PROVE q \in Children(m2, p)
      BY Zenon
    <3>2. PICK i \in 0 .. ENTRIES - 1 : m[p][i].page # 0 /\ q = m[p][i].page
      BY Zenon DEF Children
    <3>3. m2[p][i].page # 0 /\ q = m2[p][i].page
      BY <1>5, <3>2, Zenon
    <3> QED
      BY <3>3, Zenon DEF Children
  <2>2. Children(m2, p) \subseteq Children(m, p) \cup {n}
    <3>1. SUFFICES ASSUME NEW q \in Children(m2, p), q # n PROVE q \in Children(m, p)
      BY Zenon
    <3>2. PICK i \in 0 .. ENTRIES - 1 : m2[p][i].page # 0 /\ q = m2[p][i].page
      BY Zenon DEF Children
    <3>3. m[p][i].page # 0 /\ q = m[p][i].page
      BY <1>5, <3>1, <3>2, Zenon
    <3> QED
      BY <3>3, Zenon DEF Children
  <2> QED
    BY <2>1, <2>2, Zenon
<1>7. ASSUME NEW p \in Page \ {n}
      PROVE  /\ UserChildren(m, p) \subseteq UserChildren(m2, p)
             /\ UserChildren(m2, p) \subseteq UserChildren(m, p) \cup {n}
  <2>1. \A i \in 0 .. UserEntries - 1 :
           /\ m[p][i].page # 0 => m2[p][i].page = m[p][i].page
           /\ m2[p][i].page # 0 => m2[p][i].page = n \/ m2[p][i].page = m[p][i].page
    BY <1>5, UserHalf, Zenon
  <2>2. UserChildren(m, p) \subseteq UserChildren(m2, p)
    BY <2>1, Zenon DEF UserChildren
  <2>3. UserChildren(m2, p) \subseteq UserChildren(m, p) \cup {n}
    BY <2>1, Zenon DEF UserChildren
  <2> QED
    BY <2>2, <2>3, Zenon
<1>8. n \in Page
  BY Zenon DEF LinkAdded
<1> QED
  BY <1>1, <1>3, <1>4, <1>6, <1>7, <1>8, Zenon DEF Gains

\* The tree of a table loses nothing, and gains n at most.
LEMMA LinkTrees ==
  ASSUME NEW m, NEW m2, NEW n, Gains(m, m2, n),
         NEW S, Closed(m, S), S \subseteq Page, n \notin S
  PROVE  /\ Tree1(m2, n) = {n} /\ Tree2(m2, n) = {n} /\ Tree3(m2, n) = {n}
         /\ \A p \in S : /\ Tree1(m, p) \subseteq Tree1(m2, p)
                         /\ Tree2(m, p) \subseteq Tree2(m2, p)
                         /\ Tree3(m, p) \subseteq Tree3(m2, p)
                         /\ Tree3(m2, p) \subseteq Tree3(m, p) \cup {n}
<1>1. Children(m2, n) = {}
  BY Zenon DEF Gains
<1>2. Tree1(m2, n) = {n} /\ Tree2(m2, n) = {n} /\ Tree3(m2, n) = {n}
  BY <1>1, Zenon DEF Tree1, Tree2, Tree3
<1>3. \A p \in S : Children(m, p) \subseteq S
  BY Zenon DEF Closed
<1>4. \A p \in S : Children(m, p) \subseteq Children(m2, p)
  BY Zenon DEF Gains
<1>5. \A p \in S : Children(m2, p) \subseteq Children(m, p) \cup {n}
  BY Zenon DEF Gains
<1>6. \A p \in S : Tree1(m, p) \subseteq Tree1(m2, p)
  <2> SUFFICES ASSUME NEW p \in S, NEW x \in Tree1(m, p) PROVE x \in Tree1(m2, p)
    BY Zenon
  <2> QED
    BY <1>4, InTree, Zenon
<1>7. \A p \in S : Tree2(m, p) \subseteq Tree2(m2, p)
  <2> SUFFICES ASSUME NEW p \in S, NEW x \in Tree2(m, p) PROVE x \in Tree2(m2, p)
    BY Zenon
  <2>1. CASE x = p
    BY <2>1, InTree, Zenon
  <2>2. CASE \E q \in Children(m, p) : x \in Tree1(m, q)
    <3>1. PICK q \in Children(m, p) : x \in Tree1(m, q)
      BY <2>2, Zenon
    <3>2. q \in Children(m2, p) /\ x \in Tree1(m2, q)
      BY <1>3, <1>4, <1>6, <3>1, Zenon
    <3> QED
      BY <3>2, InTree, Zenon
  <2> QED
    BY <2>1, <2>2, InTree, Zenon
<1>8. \A p \in S : Tree3(m, p) \subseteq Tree3(m2, p)
  <2> SUFFICES ASSUME NEW p \in S, NEW x \in Tree3(m, p) PROVE x \in Tree3(m2, p)
    BY Zenon
  <2>1. CASE x = p
    BY <2>1, InTree, Zenon
  <2>2. CASE \E q \in Children(m, p) : x \in Tree2(m, q)
    <3>1. PICK q \in Children(m, p) : x \in Tree2(m, q)
      BY <2>2, Zenon
    <3>2. q \in Children(m2, p) /\ x \in Tree2(m2, q)
      BY <1>3, <1>4, <1>7, <3>1, Zenon
    <3> QED
      BY <3>2, InTree, Zenon
  <2> QED
    BY <2>1, <2>2, InTree, Zenon
<1>9. \A p \in S : Tree1(m2, p) \subseteq Tree1(m, p) \cup {n}
  <2> SUFFICES ASSUME NEW p \in S, NEW x \in Tree1(m2, p), x # n PROVE x \in Tree1(m, p)
    BY Zenon
  <2> QED
    BY <1>5, Zenon DEF Tree1
<1>10. \A p \in S : Tree2(m2, p) \subseteq Tree2(m, p) \cup {n}
  <2> SUFFICES ASSUME NEW p \in S, NEW x \in Tree2(m2, p), x # n PROVE x \in Tree2(m, p)
    BY Zenon
  <2>1. CASE x = p
    BY <2>1, InTree, Zenon
  <2>2. CASE \E q \in Children(m2, p) : x \in Tree1(m2, q)
    <3>1. PICK q \in Children(m2, p) : x \in Tree1(m2, q)
      BY <2>2, Zenon
    <3>2. q # n
      BY <1>2, <3>1
    <3>3. q \in Children(m, p) /\ q \in S
      BY <1>3, <1>5, <3>2, Zenon
    <3>4. x \in Tree1(m, q)
      BY <1>9, <3>1, <3>3, Zenon
    <3> QED
      BY <3>3, <3>4, InTree, Zenon
  <2> QED
    BY <2>1, <2>2, InTree, Zenon
<1>11. \A p \in S : Tree3(m2, p) \subseteq Tree3(m, p) \cup {n}
  <2> SUFFICES ASSUME NEW p \in S, NEW x \in Tree3(m2, p), x # n PROVE x \in Tree3(m, p)
    BY Zenon
  <2>1. CASE x = p
    BY <2>1, InTree, Zenon
  <2>2. CASE \E q \in Children(m2, p) : x \in Tree2(m2, q)
    <3>1. PICK q \in Children(m2, p) : x \in Tree2(m2, q)
      BY <2>2, Zenon
    <3>2. q # n
      BY <1>2, <3>1
    <3>3. q \in Children(m, p) /\ q \in S
      BY <1>3, <1>5, <3>2, Zenon
    <3>4. x \in Tree2(m, q)
      BY <1>10, <3>1, <3>3, Zenon
    <3> QED
      BY <3>3, <3>4, InTree, Zenon
  <2> QED
    BY <2>1, <2>2, InTree, Zenon
<1> QED
  BY <1>2, <1>6, <1>7, <1>8, <1>11, Zenon

\* So do the pages of a space,
LEMMA LinkSpace ==
  ASSUME NEW m, NEW m2, NEW n, Gains(m, m2, n),
         NEW root, root # 0, NEW S, Owns(m, root, S), n \notin S
  PROVE  /\ SpacePages(m, root) \subseteq SpacePages(m2, root)
         /\ SpacePages(m2, root) \subseteq SpacePages(m, root) \cup {n}
<1>1. root \in S /\ root \in Page \ {n} /\ Closed(m, S) /\ S \subseteq Page
  BY Zenon DEF Owns
<1>2. UserChildren(m, root) \subseteq S
  BY <1>1, UserChildrenAreChildren, Zenon DEF Closed
<1>3. /\ UserChildren(m, root) \subseteq UserChildren(m2, root)
      /\ UserChildren(m2, root) \subseteq UserChildren(m, root) \cup {n}
  BY <1>1, Zenon DEF Gains
<1>4. \A q \in S : Tree3(m, q) \subseteq Tree3(m2, q)
  BY <1>1, LinkTrees, Zenon
<1>5. \A q \in S : Tree3(m2, q) \subseteq Tree3(m, q) \cup {n}
  BY <1>1, LinkTrees, Zenon
<1>6. Tree3(m2, n) = {n}
  BY <1>1, LinkTrees, Zenon
<1>7. ASSUME NEW x \in SpacePages(m, root) PROVE x \in SpacePages(m2, root)
  <2>1. CASE x = root
    BY <2>1, InSpace, Zenon
  <2>2. CASE \E q \in UserChildren(m, root) : x \in Tree3(m, q)
    BY <1>2, <1>3, <1>4, <2>2, InSpace, Zenon
  <2> QED
    BY <1>7, <2>1, <2>2, InSpace, Zenon
<1>8. ASSUME NEW x \in SpacePages(m2, root), x # n PROVE x \in SpacePages(m, root)
  <2>1. CASE x = root
    BY <2>1, InSpace, Zenon
  <2>2. CASE \E q \in UserChildren(m2, root) : x \in Tree3(m2, q)
    <3>1. PICK q \in UserChildren(m2, root) : x \in Tree3(m2, q)
      BY <2>2, Zenon
    <3>2. q # n
      BY <1>6, <1>8, <3>1
    <3>3. q \in UserChildren(m, root) /\ q \in S
      BY <1>2, <1>3, <3>2, Zenon
    <3>4. x \in Tree3(m, q)
      BY <1>5, <1>8, <3>1, <3>3, Zenon
    <3> QED
      BY <3>3, <3>4, InSpace, Zenon
  <2> QED
    BY <1>8, <2>1, <2>2, InSpace, Zenon
<1> QED
  BY <1>7, <1>8, Zenon

\* which is closed again with n added.
LEMMA LinkOwns ==
  ASSUME NEW m, NEW m2, NEW n, Gains(m, m2, n),
         NEW root, NEW S, Owns(m, root, S), n \notin S
  PROVE  Owns(m2, root, S \cup {n})
<1>1. n \in Page /\ S \subseteq Page /\ \A p \in S : Children(m, p) \subseteq S
  BY Zenon DEF Gains, Owns, Closed
<1>2. Children(m2, n) = {}
  BY Zenon DEF Gains
<1>3. \A p \in S : Children(m2, p) \subseteq Children(m, p) \cup {n}
  BY <1>1, Zenon DEF Gains
<1> QED
  BY <1>1, <1>2, <1>3, Zenon DEF Owns, Closed

\* A space that t is no part of is not concerned.
LEMMA LinkElsewhere ==
  ASSUME NEW m, NEW m2, NEW t, NEW k, NEW n, LinkAdded(m, m2, t, k, n),
         NEW S, S \subseteq Page, n \notin S, t \notin S
  PROVE  SameLinks(m, m2, S)
BY Zenon DEF LinkAdded, SameLinks

-----------------------------------------------------------------------------
(* The walk from the root down.                                            *)

\* What physical memory holds, whoever owns it: pages of cells, whose links lead
\* to pages the allocator manages.
Cell(c) ==
  /\ c = [page |-> c.page, w |-> c.w, nx |-> c.nx, byte |-> c.byte]
  /\ c.page \in Page \cup {0}

Row(r) == r = [i \in Slots |-> r[i]] /\ \A i \in Slots : Cell(r[i])

Memory(m) == m = [p \in Page |-> m[p]] /\ \A p \in Page : Row(m[p])

\* A link leads to a page or nowhere.
LEMMA Links ==
  ASSUME NEW m, Memory(m), NEW p \in Page, NEW i \in 0 .. ENTRIES - 1
  PROVE  m[p][i].page \in Page \cup {0}
BY UserHalf, Zenon DEF Memory, Row, Cell

\* A link that is there leads to a child.
LEMMA LinkIsChild ==
  ASSUME NEW m, NEW p, NEW i \in 0 .. ENTRIES - 1, m[p][i].page # 0
  PROVE  /\ m[p][i].page \in Children(m, p)
         /\ i \in 0 .. UserEntries - 1 => m[p][i].page \in UserChildren(m, p)
BY Zenon DEF Children, UserChildren

\* What indexes a table is below its size.
LEMMA IndexRange ==
  ASSUME NEW a \in Int, NEW level \in 1 .. 4
  PROVE  /\ Index(a, level) \in 0 .. ENTRIES - 1
         /\ InUserHalf(a) /\ level = 4 => Index(a, level) \in 0 .. UserEntries - 1
<1>1. Span[level] \in Nat \ {0}
  <2> DEFINE e == ENTRIES
             p1 == PAGE_SIZE
             p2 == p1 * e
             p3 == p2 * e
             p4 == p3 * e
  <2>1. \A x, y \in Nat \ {0} : x * y \in Nat \ {0}
    OBVIOUS
  <2>2. e \in Nat \ {0} /\ p1 \in Nat \ {0}
    BY LayoutAssumption, Zenon
  <2> HIDE DEF e, p1
  <2>3. p2 \in Nat \ {0}
    BY <2>1, <2>2, Zenon
  <2> HIDE DEF p2
  <2>4. p3 \in Nat \ {0}
    BY <2>1, <2>2, <2>3, Zenon
  <2> HIDE DEF p3
  <2>5. p4 \in Nat \ {0}
    BY <2>1, <2>2, <2>4, Zenon
  <2> HIDE DEF p4
  <2>6. Span = << p1, p2, p3, p4 >>
    BY Zenon DEF Span, p1, p2, p3, p4, e
  <2>7. Span[level] = p1 \/ Span[level] = p2 \/ Span[level] = p3 \/ Span[level] = p4
    BY <2>6
  <2> QED
    BY <2>2, <2>3, <2>4, <2>5, <2>7, Zenon
<1> DEFINE d == Span[level]
<1> HIDE DEF d
<1>2. a \div d \in Int
  BY <1>1 DEF d
<1> DEFINE x == a \div d
<1>3. Index(a, level) = x % ENTRIES
  BY Zenon DEF Index, d
<1> HIDE DEF x
<1>4. x \in Int
  BY <1>2, Zenon DEF x
<1>5. x % ENTRIES \in 0 .. ENTRIES - 1
  BY <1>4, LayoutAssumption
<1>6. ASSUME InUserHalf(a), level = 4 PROVE Index(a, level) \in 0 .. UserEntries - 1
  <2>1. x % ENTRIES < UserEntries
    BY <1>3, <1>6, Zenon DEF InUserHalf
  <2> QED
    BY <1>3, <1>5, <2>1, UserHalf, LayoutAssumption
<1> QED
  BY <1>3, <1>5, <1>6, Zenon

\* The table at the given level that translates a, with the ones above it.
Upto(m, root, a, level, t) ==
  /\ level = 4 => t = root
  /\ level = 3 => t = Table3(m, root, a)
  /\ level = 2 => t = Table2(m, root, a) /\ Table3(m, root, a) # 0
  /\ level = 1 => t = Table1(m, root, a) /\ Table3(m, root, a) # 0 /\ Table2(m, root, a) # 0

\* Where map_user_page has to put an entry next: the first empty one on the way
\* to the leaf, or the leaf's own.
LEMMA MissingCases ==
  ASSUME NEW m, NEW root, NEW a
  PROVE  \E t, level :
           /\ Missing(m, root, a) = [table |-> t, level |-> level]
           /\ level \in 1 .. 4 /\ Upto(m, root, a, level, t)
           /\ level < 4 => t # 0
           /\ level > 1 => m[t][Index(a, level)].page = 0 /\ Table1(m, root, a) = 0
           /\ level = 1 => t = Table1(m, root, a)
<1> DEFINE t3 == Table3(m, root, a)
           t2 == Table2(m, root, a)
           t1 == Table1(m, root, a)
<1>1. /\ t3 = m[root][Index(a, 4)].page
      /\ t3 = 0 => t2 = 0
      /\ t3 # 0 => t2 = m[t3][Index(a, 3)].page
      /\ t2 = 0 => t1 = 0
      /\ t2 # 0 => t1 = m[t2][Index(a, 2)].page
  BY Zenon DEF Table3, Table2, Table1
<1>2. /\ t3 = 0 => Missing(m, root, a) = [table |-> root, level |-> 4]
      /\ t3 # 0 /\ t2 = 0 => Missing(m, root, a) = [table |-> t3, level |-> 3]
      /\ t2 # 0 /\ t1 = 0 => Missing(m, root, a) = [table |-> t2, level |-> 2]
      /\ t1 # 0 => Missing(m, root, a) = [table |-> t1, level |-> 1]
  BY <1>1 DEF Missing
<1>3. 1 \in 1 .. 4 /\ 2 \in 1 .. 4 /\ 3 \in 1 .. 4 /\ 4 \in 1 .. 4
  OBVIOUS
<1>4. CASE t3 = 0
  <2> WITNESS root, 4
  <2> QED
    BY <1>1, <1>2, <1>4 DEF Upto
<1>5. CASE t3 # 0 /\ t2 = 0
  <2> WITNESS t3, 3
  <2> QED
    BY <1>1, <1>2, <1>5 DEF Upto
<1>6. CASE t2 # 0 /\ t1 = 0
  <2> WITNESS t2, 2
  <2> QED
    BY <1>1, <1>2, <1>6 DEF Upto
<1>7. CASE t1 # 0
  <2> WITNESS t1, 1
  <2> QED
    BY <1>1, <1>2, <1>7 DEF Upto
<1> QED
  BY <1>4, <1>5, <1>6, <1>7, Zenon

\* The table found is a page of the space of root, whatever else that holds.
LEMMA UptoOwned ==
  ASSUME NEW m, Memory(m), NEW root \in Page, NEW a \in Int, NEW level \in 1 .. 4, NEW t,
         Upto(m, root, a, level, t), t # 0, NEW S, Owns(m, root, S)
  PROVE  t \in S /\ t \in Page
<1>1. root \in S /\ S \subseteq Page /\ \A p \in S : Children(m, p) \subseteq S
  BY PageNotZero, Zenon DEF Owns, Closed
<1>2. \A l \in 1 .. 4 : Index(a, l) \in 0 .. ENTRIES - 1
  BY IndexRange, Zenon
<1>3. 2 \in 1 .. 4 /\ 3 \in 1 .. 4 /\ 4 \in 1 .. 4
  OBVIOUS
<1>4. \A p \in S, l \in 1 .. 4 : m[p][Index(a, l)].page # 0 => m[p][Index(a, l)].page \in S
  BY <1>1, <1>2, LinkIsChild, Zenon
<1>5. Table3(m, root, a) # 0 => Table3(m, root, a) \in S
  BY <1>1, <1>3, <1>4, Zenon DEF Table3
<1>6. Table2(m, root, a) # 0 => Table2(m, root, a) \in S
  BY <1>3, <1>4, <1>5, Zenon DEF Table2
<1>7. Table1(m, root, a) # 0 => Table1(m, root, a) \in S
  BY <1>3, <1>4, <1>6, Zenon DEF Table1
<1>8. level = 1 \/ level = 2 \/ level = 3 \/ level = 4
  OBVIOUS
<1> QED
  BY <1>1, <1>5, <1>6, <1>7, <1>8, Zenon DEF Upto

\* A page linked there is one that destroy_address_space will find.
LEMMA LinkReached ==
  ASSUME NEW m, Memory(m), NEW m2, NEW root \in Page, NEW a \in Int, InUserHalf(a),
         NEW level \in 1 .. 4, NEW t, Upto(m, root, a, level, t), t # 0,
         NEW n, LinkAdded(m, m2, t, Index(a, level), n),
         NEW S, Owns(m, root, S), n \notin S
  PROVE  n \in SpacePages(m2, root)
<1> DEFINE t3 == Table3(m, root, a)
           t2 == Table2(m, root, a)
           t1 == Table1(m, root, a)
<1>1. root \in S /\ root # 0 /\ S \subseteq Page \ {n}
  BY PageNotZero, Zenon DEF Owns
<1>2. /\ Gains(m, m2, n) /\ n \in Children(m2, t)
      /\ Index(a, level) \in 0 .. UserEntries - 1 => n \in UserChildren(m2, t)
  BY LinkChildren, Zenon
<1>3. \A p \in S : /\ Children(m, p) \subseteq Children(m2, p)
                   /\ UserChildren(m, p) \subseteq UserChildren(m2, p)
  BY <1>1, <1>2, Zenon DEF Gains
<1>4. 1 \in 1 .. 4 /\ 2 \in 1 .. 4 /\ 3 \in 1 .. 4 /\ 4 \in 1 .. 4
  OBVIOUS
<1>5. Index(a, 4) \in 0 .. UserEntries - 1 /\ \A l \in 1 .. 4 : Index(a, l) \in 0 .. ENTRIES - 1
  BY <1>4, IndexRange, Zenon
<1>6. t3 # 0 => t3 \in UserChildren(m2, root) /\ t3 \in S
  <2>1. Upto(m, root, a, 3, t3)
    BY DEF Upto
  <2>2. t3 # 0 => t3 \in S
    BY <1>4, <2>1, UptoOwned, Zenon
  <2>3. t3 # 0 => t3 \in UserChildren(m, root)
    BY <1>4, <1>5, LinkIsChild, Zenon DEF Table3
  <2> QED
    BY <1>1, <1>3, <2>2, <2>3, Zenon
<1>7. t3 # 0 /\ t2 # 0 => t2 \in Children(m2, t3) /\ t2 \in S
  <2>1. t3 # 0 => Upto(m, root, a, 2, t2)
    BY DEF Upto
  <2>2. t3 # 0 /\ t2 # 0 => t2 \in S
    BY <1>4, <2>1, UptoOwned, Zenon
  <2>3. t3 # 0 /\ t2 # 0 => t2 \in Children(m, t3)
    BY <1>4, <1>5, LinkIsChild, Zenon DEF Table2
  <2> QED
    BY <1>3, <1>6, <2>2, <2>3, Zenon
<1>8. t3 # 0 /\ t2 # 0 /\ t1 # 0 => t1 \in Children(m2, t2)
  <2>1. t2 # 0 /\ t1 # 0 => t1 \in Children(m, t2)
    BY <1>4, <1>5, LinkIsChild, Zenon DEF Table1
  <2> QED
    BY <1>3, <1>7, <2>1, Zenon
<1> HIDE DEF t3, t2, t1
<1>9. n \in Tree1(m2, n) /\ n \in Tree2(m2, n) /\ n \in Tree3(m2, n)
  BY InTree, Zenon
<1>10. CASE level = 4
  <2>1. t = root /\ n \in UserChildren(m2, root)
    BY <1>2, <1>5, <1>10, Zenon DEF Upto
  <2> QED
    BY <1>1, <1>9, <2>1, InSpace, Zenon
<1>11. CASE level = 3
  <2>1. t = t3
    BY <1>11, Zenon DEF Upto, t3
  <2>2. n \in Tree3(m2, t)
    BY <1>2, <1>9, InTree, Zenon
  <2> QED
    BY <1>1, <1>6, <2>1, <2>2, InSpace, Zenon
<1>12. CASE level = 2
  <2>1. t = t2 /\ t3 # 0
    BY <1>12, Zenon DEF Upto, t2, t3
  <2>2. n \in Tree2(m2, t)
    BY <1>2, <1>9, InTree, Zenon
  <2>3. n \in Tree3(m2, t3)
    BY <1>7, <2>1, <2>2, InTree, Zenon
  <2> QED
    BY <1>1, <1>6, <2>1, <2>3, InSpace, Zenon
<1>13. CASE level = 1
  <2>1. t = t1 /\ t3 # 0 /\ t2 # 0
    BY <1>13, Zenon DEF Upto, t1, t2, t3
  <2>2. n \in Tree1(m2, t)
    BY <1>2, InTree, Zenon
  <2>3. n \in Tree2(m2, t2)
    BY <1>8, <2>1, <2>2, InTree, Zenon
  <2>4. n \in Tree3(m2, t3)
    BY <1>7, <2>1, <2>3, InTree, Zenon
  <2> QED
    BY <1>1, <1>6, <2>1, <2>4, InSpace, Zenon
<1>14. level = 1 \/ level = 2 \/ level = 3 \/ level = 4
  OBVIOUS
<1> QED
  BY <1>10, <1>11, <1>12, <1>13, <1>14, Zenon

-----------------------------------------------------------------------------
(* The space in use and the one being built or destroyed.                  *)

\* The spaces of the roots r and o share no page, and no page of theirs is free.
Apart(m, f, r, o) ==
  \E A, B \in SUBSET Page :
    Owns(m, r, A) /\ Owns(m, o, B) /\ A \cap B = {} /\ A \cap f = {} /\ B \cap f = {}

\* The pages that are free, or will be once both spaces are destroyed.
Accounted(m, f, r, o) == f \cup SpacePages(m, r) \cup SpacePages(m, o)

\* The parts are the same, the contents may differ.
Steady(m, f, r, o, m2, f2, r2, o2) ==
  Apart(m2, f2, r2, o2) /\ Accounted(m2, f2, r2, o2) = Accounted(m, f, r, o)

\* Nothing destroy_address_space would free is free or of the other space.
LEMMA ApartPages ==
  ASSUME NEW m, NEW f, NEW r, NEW o, Apart(m, f, r, o)
  PROVE  /\ SpacePages(m, r) \cap f = {} /\ SpacePages(m, o) \cap f = {}
         /\ SpacePages(m, r) \cap SpacePages(m, o) = {}
         /\ SpacePages(m, r) \subseteq Page /\ SpacePages(m, o) \subseteq Page
<1>1. PICK A, B \in SUBSET Page :
        Owns(m, r, A) /\ Owns(m, o, B) /\ A \cap B = {} /\ A \cap f = {} /\ B \cap f = {}
  BY Zenon DEF Apart
<1>2. SpacePages(m, r) \subseteq A /\ SpacePages(m, o) \subseteq B
  BY <1>1, SpaceWithin, Zenon
<1> QED
  BY <1>1, <1>2, Zenon

\* No root, no pages.
LEMMA NoSpace == \A m : SpacePages(m, 0) = {} /\ Owns(m, 0, {})
BY Zenon DEF SpacePages, Owns, Closed

\* Bytes and flags may change as they like.
LEMMA ContentsSteady ==
  ASSUME NEW m, NEW m2, NEW f, NEW r, NEW o, Apart(m, f, r, o), SameLinks(m, m2, Page)
  PROVE  Steady(m, f, r, o, m2, f, r, o)
<1>1. PICK A, B \in SUBSET Page :
        Owns(m, r, A) /\ Owns(m, o, B) /\ A \cap B = {} /\ A \cap f = {} /\ B \cap f = {}
  BY Zenon DEF Apart
<1>2. SameLinks(m, m2, A) /\ SameLinks(m, m2, B)
  BY Zenon DEF SameLinks
<1>3. Owns(m2, r, A) /\ Owns(m2, o, B)
  BY <1>1, <1>2, SameOwns, Zenon
<1>4. SpacePages(m2, r) = SpacePages(m, r) /\ SpacePages(m2, o) = SpacePages(m, o)
  BY <1>1, <1>2, SameSpace, Zenon
<1>5. Apart(m2, f, r, o)
  BY <1>1, <1>3, Zenon DEF Apart
<1> QED
  BY <1>4, <1>5, Zenon DEF Steady, Accounted

\* create_address_space: a free page, cleared, becomes a space of its own.
LEMMA CreateSteady ==
  ASSUME NEW m, NEW m2, NEW f, NEW r, Apart(m, f, r, 0), NEW n \in f, n \in Page,
         \A i \in 0 .. ENTRIES - 1 : m2[n][i].page = 0, SameLinks(m, m2, Page \ {n})
  PROVE  Steady(m, f, r, 0, m2, f \ {n}, r, n)
<1>1. PICK A, B \in SUBSET Page :
        Owns(m, r, A) /\ Owns(m, 0, B) /\ A \cap B = {} /\ A \cap f = {} /\ B \cap f = {}
  BY Zenon DEF Apart
<1>2. SameLinks(m, m2, A)
  BY <1>1, Zenon DEF SameLinks
<1>3. Owns(m2, r, A) /\ SpacePages(m2, r) = SpacePages(m, r)
  BY <1>1, <1>2, SameOwns, SameSpace, Zenon
<1>4. Children(m2, n) = {} /\ UserChildren(m2, n) = {}
  <2>1. Children(m2, n) = {}
    BY Zenon DEF Children
  <2> QED
    BY <2>1, UserChildrenAreChildren, Zenon
<1>5. Owns(m2, n, {n})
  BY <1>4, Zenon DEF Owns, Closed
<1>6. SpacePages(m2, n) = {n}
  <2>1. n # 0
    BY PageNotZero, Zenon
  <2>2. \A x : x \in SpacePages(m2, n) <=> x = n
    BY <1>4, <2>1, InSpace, Zenon
  <2> QED
    BY <2>2, Zenon
<1>7. Apart(m2, f \ {n}, r, n)
  <2>1. {n} \in SUBSET Page /\ A \cap {n} = {} /\ A \cap (f \ {n}) = {} /\ {n} \cap (f \ {n}) = {}
    BY <1>1, Zenon
  <2> QED
    BY <1>3, <1>5, <2>1, Zenon DEF Apart
<1>8. (f \ {n}) \cup SpacePages(m2, r) \cup {n} = f \cup SpacePages(m, r) \cup {}
  BY <1>3, Zenon
<1> QED
  BY <1>6, <1>7, <1>8, NoSpace, Zenon DEF Steady, Accounted

\* map_user_page: the page it takes becomes part of the space being built.
LEMMA LinkSteady ==
  ASSUME NEW m, Memory(m), NEW m2, NEW f, NEW r, NEW root \in Page, Apart(m, f, r, root),
         NEW a \in Int, InUserHalf(a), NEW level \in 1 .. 4, NEW t,
         Upto(m, root, a, level, t), t # 0,
         NEW n \in f, LinkAdded(m, m2, t, Index(a, level), n)
  PROVE  Steady(m, f, r, root, m2, f \ {n}, r, root)
<1>1. PICK A, B \in SUBSET Page :
        Owns(m, r, A) /\ Owns(m, root, B) /\ A \cap B = {} /\ A \cap f = {} /\ B \cap f = {}
  BY Zenon DEF Apart
<1>2. n \notin A /\ n \notin B /\ n \in Page /\ root # 0
  BY <1>1, PageNotZero, Zenon DEF LinkAdded
<1>3. t \in B /\ t \notin A
  BY <1>1, UptoOwned, Zenon
<1>4. SameLinks(m, m2, A)
  BY <1>2, <1>3, LinkElsewhere, Zenon
<1>5. Owns(m2, r, A) /\ SpacePages(m2, r) = SpacePages(m, r)
  BY <1>1, <1>4, SameOwns, SameSpace, Zenon
<1>6. Gains(m, m2, n)
  BY LinkChildren, Zenon
<1>7. Owns(m2, root, B \cup {n})
  BY <1>1, <1>2, <1>6, LinkOwns, Zenon
<1>8. /\ SpacePages(m, root) \subseteq SpacePages(m2, root)
      /\ SpacePages(m2, root) \subseteq SpacePages(m, root) \cup {n}
  BY <1>1, <1>2, <1>6, LinkSpace, Zenon
<1>9. n \in SpacePages(m2, root)
  BY <1>1, <1>2, LinkReached, Zenon
<1>10. Apart(m2, f \ {n}, r, root)
  <2>1. /\ B \cup {n} \in SUBSET Page /\ A \cap (B \cup {n}) = {}
        /\ A \cap (f \ {n}) = {} /\ (B \cup {n}) \cap (f \ {n}) = {}
    BY <1>1, <1>2, Zenon
  <2> QED
    BY <1>5, <1>7, <2>1, Zenon DEF Apart
<1>11. SpacePages(m2, root) = SpacePages(m, root) \cup {n}
  BY <1>8, <1>9, Zenon
<1>12. (f \ {n}) \cup SpacePages(m, r) \cup (SpacePages(m, root) \cup {n})
         = f \cup SpacePages(m, r) \cup SpacePages(m, root)
  BY Zenon
<1> QED
  BY <1>5, <1>10, <1>11, <1>12, Zenon DEF Steady, Accounted

\* destroy_address_space: what it frees is the whole of the space, and no more.
LEMMA ReleaseSteady ==
  ASSUME NEW m, NEW m2, NEW f, NEW r, NEW o, Apart(m, f, r, o),
         SameLinks(m, m2, Page \ SpacePages(m, o))
  PROVE  Steady(m, f, r, o, m2, f \cup SpacePages(m, o), r, 0)
<1>1. PICK A, B \in SUBSET Page :
        Owns(m, r, A) /\ Owns(m, o, B) /\ A \cap B = {} /\ A \cap f = {} /\ B \cap f = {}
  BY Zenon DEF Apart
<1>2. SpacePages(m, o) \subseteq B
  BY <1>1, SpaceWithin, Zenon
<1>3. SameLinks(m, m2, A)
  BY <1>1, <1>2, Zenon DEF SameLinks
<1>4. Owns(m2, r, A) /\ SpacePages(m2, r) = SpacePages(m, r)
  BY <1>1, <1>3, SameOwns, SameSpace, Zenon
<1>5. SpacePages(m2, 0) = {} /\ Owns(m2, 0, {})
  BY NoSpace, Zenon
<1>6. Apart(m2, f \cup SpacePages(m, o), r, 0)
  <2>1. /\ {} \in SUBSET Page /\ A \cap {} = {} /\ A \cap (f \cup SpacePages(m, o)) = {}
        /\ {} \cap (f \cup SpacePages(m, o)) = {}
    BY <1>1, <1>2, Zenon
  <2> QED
    BY <1>4, <1>5, <2>1, Zenon DEF Apart
<1>7. (f \cup SpacePages(m, o)) \cup SpacePages(m, r) \cup {} = f \cup SpacePages(m, r) \cup SpacePages(m, o)
  BY Zenon
<1> QED
  BY <1>4, <1>5, <1>6, <1>7, Zenon DEF Steady, Accounted

\* activate and terminate_current: the spaces change places.
LEMMA SwapSteady ==
  ASSUME NEW m, NEW f, NEW r, NEW o, Apart(m, f, r, o)
  PROVE  Steady(m, f, r, o, m, f, o, r)
<1>1. Apart(m, f, o, r)
  BY Zenon DEF Apart
<1>2. f \cup SpacePages(m, o) \cup SpacePages(m, r) = f \cup SpacePages(m, r) \cup SpacePages(m, o)
  BY Zenon
<1> QED
  BY <1>1, <1>2, Zenon DEF Steady, Accounted

-----------------------------------------------------------------------------
(* What the steps do to memory.                                            *)

\* pmm::allocPage returns a free page when there is one.
LEMMA LowestFreeIsFree ==
  ASSUME free \subseteq Page, free # {}
  PROVE  LowestFree \in free
<1>1. free \subseteq Nat
  BY LayoutAssumption DEF Page
<1>2. PICK p \in free : \A q \in free : ~(<< q, p >> \in OpToRel(<, Nat))
  BY <1>1, NatLessThanWellFounded, WFMin, Zenon
<1>3. \A x, y \in Nat : x < y => << x, y >> \in OpToRel(<, Nat)
  BY Zenon DEF OpToRel
<1>4. \A q \in free : ~(q < p)
  BY <1>1, <1>2, <1>3, Zenon
<1>5. \A q \in free : p <= q
  BY <1>1, <1>4
<1> QED
  BY <1>5, Zenon DEF LowestFree

\* A byte or a flag written into a cell leaves the link.
LEMMA CellWritten ==
  ASSUME NEW c, Cell(c)
  PROVE  /\ \A b : Cell([c EXCEPT !.byte = b]) /\ [c EXCEPT !.byte = b].page = c.page
         /\ \A v, x : /\ Cell([c EXCEPT !.w = v, !.nx = x])
                      /\ [c EXCEPT !.w = v, !.nx = x].page = c.page
<1>1. PICK p, w, nx, byte : c = [page |-> p, w |-> w, nx |-> nx, byte |-> byte]
  BY Zenon DEF Cell
<1>2. c.page = p /\ p \in Page \cup {0}
  BY <1>1, Zenon DEF Cell
<1>3. ASSUME NEW b
      PROVE  [c EXCEPT !.byte = b] = [page |-> p, w |-> w, nx |-> nx, byte |-> b]
  BY <1>1
<1>4. ASSUME NEW v, NEW x
      PROVE  [c EXCEPT !.w = v, !.nx = x] = [page |-> p, w |-> v, nx |-> x, byte |-> byte]
  <2> DEFINE d == [c EXCEPT !.w = v]
  <2>1. d = [page |-> p, w |-> v, nx |-> nx, byte |-> byte]
    BY <1>1
  <2>2. [c EXCEPT !.w = v, !.nx = x] = [d EXCEPT !.nx = x]
    OBVIOUS
  <2> HIDE DEF d
  <2> QED
    BY <2>1, <2>2
<1>5. \A v, x, b : Cell([page |-> p, w |-> v, nx |-> x, byte |-> b])
  BY <1>2, Zenon DEF Cell
<1>6. \A v, x, b : [page |-> p, w |-> v, nx |-> x, byte |-> b].page = p
  BY Zenon
<1>7. ASSUME NEW b PROVE Cell([c EXCEPT !.byte = b]) /\ [c EXCEPT !.byte = b].page = c.page
  <2> DEFINE d == [page |-> p, w |-> w, nx |-> nx, byte |-> b]
  <2>1. Cell(d) /\ d.page = c.page
    BY <1>2, <1>5, <1>6, Zenon
  <2> QED
    BY <1>3, <2>1
<1>8. ASSUME NEW v, NEW x
      PROVE  Cell([c EXCEPT !.w = v, !.nx = x]) /\ [c EXCEPT !.w = v, !.nx = x].page = c.page
  <2> DEFINE d == [page |-> p, w |-> v, nx |-> x, byte |-> byte]
  <2>1. Cell(d) /\ d.page = c.page
    BY <1>2, <1>5, <1>6, Zenon
  <2> QED
    BY <1>4, <2>1, Zenon
<1> QED
  BY <1>7, <1>8, Zenon

\* A page that is cleared, or given back, is a page of cells without links.
LEMMA CleanRows ==
  /\ Row(ZeroPage) /\ Row(JunkPage)
  /\ \A i \in Slots : ZeroPage[i].page = 0 /\ JunkPage[i].page = 0
<1>1. Cell(Zero) /\ Zero.page = 0
  BY Zenon DEF Cell, Zero
<1>2. Cell([Zero EXCEPT !.byte = 99]) /\ [Zero EXCEPT !.byte = 99].page = 0
  <2>1. \A b : Cell([Zero EXCEPT !.byte = b]) /\ [Zero EXCEPT !.byte = b].page = Zero.page
    BY <1>1, CellWritten, Zenon
  <2> QED
    BY <1>1, <2>1, Zenon
<1>3. \A i \in Slots : ZeroPage[i] = Zero /\ JunkPage[i] = [Zero EXCEPT !.byte = 99]
  BY Zenon DEF ZeroPage, JunkPage
<1>4. ZeroPage = [i \in Slots |-> ZeroPage[i]] /\ JunkPage = [i \in Slots |-> JunkPage[i]]
  BY Zenon DEF ZeroPage, JunkPage
<1> QED
  BY <1>1, <1>2, <1>3, <1>4, Zenon DEF Row

\* One page is cleared.
Cleared(m, m2, n) ==
  /\ Memory(m2) /\ SameLinks(m, m2, Page \ {n})
  /\ \A i \in 0 .. ENTRIES - 1 : m2[n][i].page = 0

\* allocate_zeroed_page clears one page and leaves the others alone.
LEMMA ClearedPage ==
  ASSUME NEW m, Memory(m), NEW n \in Page
  PROVE  Cleared(m, [m EXCEPT ![n] = ZeroPage], n)
<1> DEFINE m2 == [m EXCEPT ![n] = ZeroPage]
<1>1. m = [p \in Page |-> m[p]] /\ \A p \in Page : Row(m[p])
  BY Zenon DEF Memory
<1>2. m2 = [p \in Page |-> IF p = n THEN ZeroPage ELSE m[p]]
  BY <1>1
<1>3. m2[n] = ZeroPage /\ \A p \in Page \ {n} : m2[p] = m[p]
  BY <1>2, Zenon
<1> HIDE DEF m2
<1>4. m2 = [p \in Page |-> m2[p]]
  BY <1>2
<1>5. Memory(m2)
  BY <1>1, <1>3, <1>4, CleanRows, Zenon DEF Memory
<1>6. SameLinks(m, m2, Page \ {n})
  BY <1>3, Zenon DEF SameLinks
<1>7. \A i \in 0 .. ENTRIES - 1 : m2[n][i].page = 0
  BY <1>3, CleanRows, UserHalf, Zenon
<1> QED
  BY <1>5, <1>6, <1>7, Zenon DEF Cleared, m2

\* One cell is written.
Written(m, m2, t, k, c) ==
  /\ Memory(m2) /\ m2[t][k] = c
  /\ \A p \in Page, i \in Slots : ~(p = t /\ i = k) => m2[p][i] = m[p][i]

\* An assignment to a cell leaves the others alone.
LEMMA WrittenCell ==
  ASSUME NEW m, Memory(m), NEW t \in Page, NEW k \in Slots, NEW c, Cell(c)
  PROVE  Written(m, [m EXCEPT ![t][k] = c], t, k, c)
<1> DEFINE m2 == [m EXCEPT ![t][k] = c]
<1>1. m = [p \in Page |-> m[p]] /\ \A p \in Page : Row(m[p])
  BY Zenon DEF Memory
<1>2. m[t] = [i \in Slots |-> m[t][i]] /\ \A i \in Slots : Cell(m[t][i])
  BY <1>1, Zenon DEF Row
<1> DEFINE row == [i \in Slots |-> IF i = k THEN c ELSE m[t][i]]
<1>3. [m[t] EXCEPT ![k] = c] = row
  BY <1>2
<1>4. m2 = [p \in Page |-> IF p = t THEN row ELSE m[p]]
  BY <1>1, <1>3, Zenon
<1> HIDE DEF m2
<1>5. Row(row)
  <2>1. \A i \in Slots : row[i] = IF i = k THEN c ELSE m[t][i]
    BY Zenon
  <2>2. \A i \in Slots : Cell(row[i])
    BY <1>2, <2>1, Zenon
  <2>3. row = [i \in Slots |-> row[i]]
    BY Zenon
  <2> QED
    BY <2>2, <2>3, Zenon DEF Row
<1>6. m2[t] = row /\ \A p \in Page \ {t} : m2[p] = m[p]
  BY <1>4, Zenon
<1>7. m2 = [p \in Page |-> m2[p]]
  BY <1>4
<1>8. Memory(m2)
  BY <1>1, <1>5, <1>6, <1>7, Zenon DEF Memory
<1>9. m2[t][k] = c /\ \A i \in Slots \ {k} : m2[t][i] = m[t][i]
  BY <1>6, Zenon
<1> QED
  BY <1>6, <1>8, <1>9, Zenon DEF Written, m2

\* copy_to_space writes bytes, never a link.
LEMMA CopiedBytes ==
  ASSUME NEW m, Memory(m), NEW root, NEW first, NEW k, NEW bytes,
         NEW m2, m2 = copy_to_space(m, root, first, k, bytes)
  PROVE  Memory(m2) /\ SameLinks(m, m2, Page)
<1> DEFINE hit(p, i) == { a \in first .. first + k - 1 :
                            locate_pte(m, root, a).page = p /\ a % PAGE_SIZE = i }
           written(p, i) == bytes[(CHOOSE a \in hit(p, i) : TRUE) - first]
           cell(p, i) == IF hit(p, i) = {} THEN m[p][i] ELSE [m[p][i] EXCEPT !.byte = written(p, i)]
<1>1. m2 = [p \in Page |-> [i \in Slots |-> cell(p, i)]]
  BY Zenon DEF copy_to_space
<1> HIDE DEF hit, written
<1>2. ASSUME NEW p \in Page, NEW i \in Slots PROVE Cell(cell(p, i)) /\ cell(p, i).page = m[p][i].page
  <2>1. Cell(m[p][i])
    BY Zenon DEF Memory, Row
  <2>2. CASE hit(p, i) = {}
    BY <2>1, <2>2, Zenon
  <2>3. CASE hit(p, i) # {}
    BY <2>1, <2>3, CellWritten, Zenon
  <2> QED
    BY <2>2, <2>3, Zenon
<1> HIDE DEF cell
<1>3. \A p \in Page : m2[p] = [i \in Slots |-> cell(p, i)]
  BY <1>1, Zenon
<1>4. \A p \in Page, i \in Slots : m2[p][i] = cell(p, i)
  BY <1>3, Zenon
<1>5. \A p \in Page : Row(m2[p])
  <2> SUFFICES ASSUME NEW p \in Page PROVE Row(m2[p])
    BY Zenon
  <2>1. m2[p] = [i \in Slots |-> m2[p][i]]
    BY <1>3, Zenon
  <2>2. \A i \in Slots : Cell(m2[p][i])
    BY <1>2, <1>4
  <2> QED
    BY <2>1, <2>2, Zenon DEF Row
<1>6. m2 = [p \in Page |-> m2[p]]
  BY <1>1
<1>7. SameLinks(m, m2, Page)
  BY <1>2, <1>4, UserHalf DEF SameLinks
<1> QED
  BY <1>5, <1>6, <1>7, Zenon DEF Memory

\* destroy_address_space leaves the pages it does not free alone.
LEMMA ReleasedPages ==
  ASSUME NEW pages, Memory(mem), Release(pages)
  PROVE  Memory(mem') /\ SameLinks(mem, mem', Page \ pages)
<1>1. mem' = [p \in Page |-> IF p \in pages THEN JunkPage ELSE mem[p]]
  BY Zenon DEF Release
<1>2. \A p \in Page : mem'[p] = IF p \in pages THEN JunkPage ELSE mem[p]
  BY <1>1, Zenon
<1>3. \A p \in Page : Row(mem'[p])
  BY <1>2, CleanRows, Zenon DEF Memory
<1>4. mem' = [p \in Page |-> mem'[p]]
  BY <1>1
<1>5. SameLinks(mem, mem', Page \ pages)
  BY <1>2, Zenon DEF SameLinks
<1> QED
  BY <1>3, <1>4, <1>5, Zenon DEF Memory

-----------------------------------------------------------------------------
(* The inductive invariant.                                                *)

InLoad == {"map", "relocate", "stack", "finish", "switch"}
Vectors == Args \cup {[argv |-> << >>, envp |-> << >>]}
ExecPc == {"strings", "open", "check", "create", "retire"} \cup InLoad

\* The exec in progress, while there is one.
ExecCall ==
  [pc : ExecPc, img : Images, args : Vectors, root : Page \cup {0}, seg : Int, at : Int,
   ok : BOOLEAN]

\* The root that is neither in use nor given up: Building or Retiring, or none.
Other == IF call.pc \in InLoad THEN call.root ELSE IF call.pc \in {"retire", "exit"} THEN call.at ELSE 0

\* What the record of the call says at each place.
CallInv ==
  \/ call.pc \in ExecPc /\ call \in ExecCall
  \/ call.pc = "exit" /\ call.at \in Page \cup {0}
  \/ call.pc \in {"boot", "user", "panic", "halted"}

\* The fields the loops run on.
LoopInv ==
  /\ call.pc \in InLoad => call.root \in Page
  /\ call.pc \in {"strings", "open", "check", "create"} => call.seg = 1
  /\ call.pc = "create" => image_valid(call.img)
  /\ call.pc = "map" => call.seg \in 1 .. Len(call.img.segments)
  /\ call.pc = "retire" => call.at \in Page \cup {0}

\* The buffers that may be held at each place.
BufferInv ==
  /\ buffers \subseteq {"storage", "file_data"}
  /\ call.pc \in {"boot", "switch", "retire", "exit", "user", "panic", "halted"} => buffers = {}
  /\ call.pc \in {"strings", "open"} => "file_data" \notin buffers

RootInv == cr3 = active_root_phys /\ cr3 \in Page \cup {0}

SpaceInv == Memory(mem) /\ free \subseteq Page /\ Apart(mem, free, cr3, Other)

ExecInv == CallInv /\ LoopInv /\ BufferInv /\ RootInv /\ SpaceInv

-----------------------------------------------------------------------------
(* The calls before there is a space, and the ends of an exec.             *)

\* What every step keeps: the invariant, and the pages accounted for.
Keeps == ExecInv' /\ Steady(mem, free, cr3, Other, mem', free', cr3', Other')

\* Memory and roots as they were: the spaces are, too.
LEMMA SpacesUnchanged ==
  ASSUME SpaceInv, RootInv, UNCHANGED << memVars, rootVars >>, Other' = Other
  PROVE  RootInv' /\ SpaceInv' /\ Steady(mem, free, cr3, Other, mem', free', cr3', Other')
<1>1. mem' = mem /\ free' = free /\ cr3' = cr3 /\ active_root_phys' = active_root_phys
  BY Zenon DEF memVars, rootVars
<1>2. Apart(mem, free, cr3, Other)
  BY Zenon DEF SpaceInv
<1>3. Apart(mem', free', cr3', Other')
  BY <1>1, <1>2, Zenon
<1>4. Accounted(mem', free', cr3', Other') = Accounted(mem, free, cr3, Other)
  BY <1>1, Zenon
<1> QED
  BY <1>1, <1>3, <1>4, Zenon DEF RootInv, SpaceInv, Steady

\* Each place of a call has no root of its own, or names it.
LEMMA OtherRoot ==
  /\ call.pc \in {"boot", "strings", "open", "check", "create", "user", "panic", "halted"} => Other = 0
  /\ call.pc \in InLoad => Other = call.root
  /\ call.pc \in {"retire", "exit"} => Other = call.at
BY DEF Other, InLoad

\* The same after a step.
LEMMA OtherRootNext ==
  /\ call'.pc \in {"boot", "strings", "open", "check", "create", "user", "panic", "halted"} => Other' = 0
  /\ call'.pc \in InLoad => Other' = call'.root
  /\ call'.pc \in {"retire", "exit"} => Other' = call'.at
BY DEF Other, InLoad

\* A failed exec leaves nothing behind: no buffer, and the call is over.
LEMMA FailsEnds ==
  ASSUME NEW held, Fails(held), BufferInv, RootInv,
         "file_data" \in buffers => "file_data" \in held
  PROVE  /\ call'.pc \in {"panic", "user"} /\ buffers' = {} /\ Other' = 0
         /\ CallInv' /\ LoopInv' /\ BufferInv' /\ UNCHANGED rootVars
<1>1. call'.pc \in {"panic", "user"} /\ UNCHANGED rootVars
  BY DEF Fails
<1>2. buffers' = {}
  BY Zenon DEF Fails, BufferInv
<1>3. Other' = 0
  BY <1>1, OtherRootNext, Zenon
<1>4. CallInv' /\ LoopInv' /\ BufferInv'
  BY <1>1, <1>2 DEF CallInv, LoopInv, BufferInv, InLoad
<1> QED
  BY <1>1, <1>2, <1>3, <1>4, Zenon

\* A call that goes on before it has a space keeps what there is.
LEMMA EarlyMove ==
  ASSUME ExecInv, Other = 0, call' \in ExecCall, call'.seg = 1, UNCHANGED << memVars, rootVars >>,
         \/ call'.pc \in {"strings", "open"} /\ buffers' \subseteq {"storage"}
         \/ call'.pc = "check" /\ buffers' \subseteq {"storage", "file_data"}
         \/ /\ call'.pc = "create" /\ buffers' \subseteq {"storage", "file_data"}
            /\ image_valid(call'.img)
  PROVE  Keeps
<1>1. call'.pc \in {"strings", "open", "check", "create"}
  BY Zenon
<1>2. Other' = 0
  BY <1>1, OtherRootNext, Zenon
<1>3. RootInv' /\ SpaceInv' /\ Steady(mem, free, cr3, Other, mem', free', cr3', Other')
  BY <1>2, SpacesUnchanged, Zenon DEF ExecInv
<1>4. CallInv' /\ BufferInv'
  BY <1>1 DEF CallInv, BufferInv, ExecPc, InLoad
<1>5. LoopInv'
  BY <1>1 DEF LoopInv, InLoad
<1> QED
  BY <1>3, <1>4, <1>5, Zenon DEF Keeps, ExecInv

\* A new call is one of the calls.
LEMMA NewCallTyped ==
  ASSUME NEW pc \in ExecPc, NEW img \in Images, NEW args \in Vectors
  PROVE  /\ NewCall(pc, img, args) \in ExecCall
         /\ NewCall(pc, img, args).pc = pc /\ NewCall(pc, img, args).seg = 1
BY DEF NewCall, ExecCall

\* An exec that fails before it has a space changes none.
LEMMA EarlyFailure ==
  ASSUME ExecInv, NEW held, Fails(held), UNCHANGED memVars, Other = 0,
         "file_data" \in buffers => "file_data" \in held
  PROVE  Keeps
<1>1. Other' = 0 /\ CallInv' /\ LoopInv' /\ BufferInv' /\ UNCHANGED rootVars
  BY FailsEnds, Zenon DEF ExecInv
<1>2. RootInv' /\ SpaceInv' /\ Steady(mem, free, cr3, Other, mem', free', cr3', Other')
  BY <1>1, SpacesUnchanged, Zenon DEF ExecInv
<1> QED
  BY <1>1, <1>2, Zenon DEF Keeps, ExecInv

\* launch_static, sys_execve, and load_image up to the first page.
LEMMA EarlySteps ==
  ASSUME ExecInv,
         \/ \E img \in Images : launch_static(img)
         \/ \E img \in Images, args \in Args : sys_execve(img, args)
         \/ CopyVectors \/ ReadFile \/ CheckHeaders
  PROVE  Keeps
<1>1. CASE \E img \in Images : launch_static(img)
  <2>1. PICK img \in Images : launch_static(img)
    BY <1>1, Zenon
  <2>2. call.pc = "boot" /\ Other = 0 /\ buffers = {}
    BY <2>1, OtherRoot, Zenon DEF launch_static, Going, ExecInv, BufferInv
  <2>3. /\ call' = NewCall("open", img, [argv |-> << >>, envp |-> << >>])
        /\ UNCHANGED << memVars, rootVars >> /\ buffers' = buffers
    BY <2>1, Zenon DEF launch_static
  <2>4. "open" \in ExecPc /\ [argv |-> << >>, envp |-> << >>] \in Vectors
    BY Zenon DEF ExecPc, Vectors
  <2>5. call' \in ExecCall /\ call'.pc = "open" /\ call'.seg = 1
    BY <2>3, <2>4, NewCallTyped, Zenon
  <2> QED
    BY <2>2, <2>3, <2>5, EarlyMove, Zenon
<1>2. CASE \E img \in Images, args \in Args : sys_execve(img, args)
  <2>1. PICK img \in Images, args \in Args : sys_execve(img, args)
    BY <1>2, Zenon
  <2>2. call.pc = "user" /\ Other = 0 /\ buffers = {}
    BY <2>1, OtherRoot, Zenon DEF sys_execve, Going, ExecInv, BufferInv
  <2>3. /\ call' = NewCall("strings", img, args)
        /\ UNCHANGED << memVars, rootVars >> /\ buffers' = buffers \cup {"storage"}
    BY <2>1, Zenon DEF sys_execve
  <2>4. "strings" \in ExecPc /\ args \in Vectors
    BY Zenon DEF ExecPc, Vectors
  <2>5. call' \in ExecCall /\ call'.pc = "strings" /\ call'.seg = 1
    BY <2>3, <2>4, NewCallTyped, Zenon
  <2> QED
    BY <2>2, <2>3, <2>5, EarlyMove, Zenon
<1>3. ASSUME NEW pc \in {"open", "check", "create"}, Step(pc), call \in ExecCall
      PROVE  call' \in ExecCall /\ call'.pc = pc /\ call'.img = call.img /\ call'.seg = call.seg
  <2>1. pc \in ExecPc
    BY Zenon DEF ExecPc
  <2> QED
    BY <1>3, <2>1 DEF Step, ExecCall
<1>4. CASE CopyVectors
  <2>1. call.pc = "strings" /\ Other = 0 /\ call \in ExecCall /\ call.seg = 1 /\ buffers \subseteq {"storage"}
    BY <1>4, OtherRoot DEF CopyVectors, Going, ExecInv, BufferInv, CallInv, LoopInv
  <2>2. CASE Fails({})
    BY <1>4, <2>1, <2>2, EarlyFailure, Zenon DEF CopyVectors
  <2>3. CASE Step("open") /\ UNCHANGED << buffers, rootVars >>
    BY <1>3, <1>4, <2>1, <2>3, EarlyMove, Zenon DEF CopyVectors
  <2> QED
    BY <1>4, <2>2, <2>3, Zenon DEF CopyVectors
<1>5. CASE ReadFile
  <2>1. call.pc = "open" /\ Other = 0 /\ call \in ExecCall /\ call.seg = 1 /\ buffers \subseteq {"storage"}
    BY <1>5, OtherRoot DEF ReadFile, Going, ExecInv, BufferInv, CallInv, LoopInv
  <2>2. CASE Fails({})
    BY <1>5, <2>1, <2>2, EarlyFailure, Zenon DEF ReadFile
  <2>3. CASE Step("check") /\ buffers' = buffers \cup {"file_data"} /\ UNCHANGED rootVars
    BY <1>3, <1>5, <2>1, <2>3, EarlyMove, Zenon DEF ReadFile
  <2> QED
    BY <1>5, <2>2, <2>3, Zenon DEF ReadFile
<1>6. CASE CheckHeaders
  <2>1. /\ call.pc = "check" /\ Other = 0 /\ call \in ExecCall /\ call.seg = 1
        /\ buffers \subseteq {"storage", "file_data"}
    BY <1>6, OtherRoot DEF CheckHeaders, Going, ExecInv, BufferInv, CallInv, LoopInv
  <2>2. CASE ~image_valid(call.img)
    BY <1>6, <2>1, <2>2, EarlyFailure, Zenon DEF CheckHeaders
  <2>3. CASE image_valid(call.img)
    <3>1. Step("create") /\ UNCHANGED << buffers, rootVars, memVars >>
      BY <1>6, <2>3, Zenon DEF CheckHeaders
    <3> QED
      BY <1>3, <2>1, <2>3, <3>1, EarlyMove, Zenon
  <2> QED
    BY <2>2, <2>3, Zenon
<1> QED
  BY <1>1, <1>2, <1>4, <1>5, <1>6, Zenon

-----------------------------------------------------------------------------
(* Building a space.                                                       *)

\* load_image goes on with a space of its own.
LEMMA LoadMove ==
  ASSUME ExecInv, call' \in ExecCall, call'.pc \in {"map", "relocate", "stack", "finish"},
         call'.root \in Page, call'.pc = "map" => call'.seg \in 1 .. Len(call'.img.segments),
         UNCHANGED << rootVars, buffers >>, Memory(mem'), free' \subseteq Page,
         Steady(mem, free, cr3, Other, mem', free', cr3, call'.root)
  PROVE  Keeps
<1>1. call'.pc \in InLoad /\ call'.pc \in ExecPc
  BY Zenon DEF InLoad, ExecPc
<1>2. Other' = call'.root
  BY <1>1, OtherRootNext, Zenon
<1>3. cr3' = cr3 /\ active_root_phys' = active_root_phys /\ buffers' = buffers
  BY Zenon DEF rootVars
<1>4. Steady(mem, free, cr3, Other, mem', free', cr3', Other')
  BY <1>2, <1>3, Zenon
<1>5. SpaceInv' /\ RootInv'
  BY <1>3, <1>4, Zenon DEF SpaceInv, RootInv, Steady, ExecInv
<1>6. CallInv' /\ BufferInv'
  BY <1>1, <1>3 DEF CallInv, BufferInv, ExecInv
<1>7. LoopInv'
  BY <1>1 DEF LoopInv
<1> QED
  BY <1>4, <1>5, <1>6, <1>7, Zenon DEF Keeps, ExecInv

\* The page a segment starts in has an address.
LEMMA SegmentPage ==
  ASSUME NEW img \in Images, NEW i \in 1 .. Len(img.segments)
  PROVE  (Start(img, img.segments[i]) \div PAGE_SIZE) * PAGE_SIZE \in Int
<1>1. img.segments \in Seq(Segment)
  BY ImageAssumption, Zenon
<1>2. img.segments[i] \in Segment
  BY <1>1
<1>3. img.segments[i].vaddr \in Int
  BY <1>2 DEF Segment
<1>4. bias(img) \in Int
  BY LayoutAssumption DEF bias
<1> DEFINE a == Start(img, img.segments[i])
<1>5. a \in Int
  BY <1>3, <1>4 DEF Start
<1> HIDE DEF a
<1>6. PAGE_SIZE \in Nat \ {0}
  BY LayoutAssumption, Zenon
<1> DEFINE q == a \div PAGE_SIZE
<1>7. q \in Int
  BY <1>5, <1>6
<1> HIDE DEF q
<1>8. q * PAGE_SIZE \in Int
  BY <1>6, <1>7
<1> QED
  BY <1>8, Zenon DEF q, a

\* create_address_space takes the first page.
LEMMA CreateStep ==
  ASSUME ExecInv, create_address_space
  PROVE  Keeps
<1>1. /\ call.pc = "create" /\ Other = 0 /\ call \in ExecCall /\ call.seg = 1 /\ image_valid(call.img)
      /\ buffers \subseteq {"storage", "file_data"}
  BY OtherRoot DEF create_address_space, Going, ExecInv, BufferInv, CallInv, LoopInv
<1>2. CASE free = {}
  BY <1>1, <1>2, EarlyFailure, Zenon DEF create_address_space
<1>3. CASE free # {}
  <2> DEFINE n == LowestFree
             at == (Start(call.img, call.img.segments[1]) \div PAGE_SIZE) * PAGE_SIZE
  <2>1. Memory(mem) /\ free \subseteq Page /\ Apart(mem, free, cr3, 0)
    BY <1>1, Zenon DEF ExecInv, SpaceInv
  <2>2. n \in free /\ n \in Page
    BY <1>3, <2>1, LowestFreeIsFree, Zenon
  <2>3. mem' = [mem EXCEPT ![n] = ZeroPage] /\ free' = free \ {n}
    BY <1>3, Zenon DEF create_address_space, allocate_zeroed_page
  <2>4. /\ call' = [call EXCEPT !.pc = "map", !.root = n, !.at = at]
        /\ UNCHANGED << buffers, rootVars >>
    BY <1>3, Zenon DEF create_address_space
  <2>5. call.img \in Images /\ 1 \in 1 .. Len(call.img.segments)
    <3>1. call.img \in Images
      BY <1>1, Zenon DEF ExecCall
    <3>2. call.img.segments \in Seq(Segment) /\ call.img.segments # << >>
      BY <1>1, <3>1, ImageAssumption, Zenon DEF image_valid
    <3> QED
      BY <3>1, <3>2
  <2>6. at \in Int
    BY <2>5, SegmentPage, Zenon
  <2> HIDE DEF n, at
  <2>7. /\ call' \in ExecCall /\ call'.pc = "map" /\ call'.root = n
        /\ call'.seg = 1 /\ call'.img = call.img
    <3>1. "map" \in ExecPc /\ n \in Page \cup {0}
      BY <2>2, Zenon DEF ExecPc, InLoad
    <3> QED
      BY <1>1, <2>4, <2>6, <3>1, Zenon DEF ExecCall
  <2>8. /\ Memory(mem') /\ SameLinks(mem, mem', Page \ {n})
        /\ \A i \in 0 .. ENTRIES - 1 : mem'[n][i].page = 0
    BY <2>1, <2>2, <2>3, ClearedPage, Zenon DEF Cleared
  <2>9. Steady(mem, free, cr3, 0, mem', free \ {n}, cr3, n)
    BY <2>1, <2>2, <2>8, CreateSteady, Zenon
  <2>10. free' \subseteq Page
    BY <2>1, <2>3, Zenon
  <2>11. Steady(mem, free, cr3, Other, mem', free', cr3, call'.root)
    BY <1>1, <2>3, <2>7, <2>9, Zenon
  <2>12. call'.seg \in 1 .. Len(call'.img.segments)
    BY <2>5, <2>7, Zenon
  <2> QED
    BY <2>2, <2>4, <2>7, <2>8, <2>10, <2>11, <2>12, LoadMove, Zenon
<1> QED
  BY <1>2, <1>3, Zenon

\* A step of map_user_page for the space of root, while r is in use.
Builds(m, f, r, root, m2, f2) == Memory(m2) /\ Steady(m, f, r, root, m2, f2, r, root)

\* A new entry is a cell that leads to the page.
LEMMA EntryCell ==
  ASSUME NEW n \in Page, NEW v, NEW x
  PROVE  LET c == [page |-> n, byte |-> 0, w |-> v, nx |-> x] IN Cell(c) /\ c.page = n
BY DEF Cell

\* A leaf that is there only gains flags.
LEMMA LeafFlags ==
  ASSUME NEW m, Memory(m), NEW f, NEW r, NEW root \in Page, Apart(m, f, r, root),
         NEW a \in Int, NEW t, t # 0, Upto(m, root, a, 1, t),
         NEW v, NEW x, NEW m2,
         m2 = [m EXCEPT ![t][Index(a, 1)] = [m[t][Index(a, 1)] EXCEPT !.w = v, !.nx = x]]
  PROVE  Builds(m, f, r, root, m2, f)
<1> DEFINE k == Index(a, 1)
           d == m[t][k]
           c == [d EXCEPT !.w = v, !.nx = x]
<1>1. 1 \in 1 .. 4
  OBVIOUS
<1>2. k \in Slots
  BY <1>1, IndexRange, UserHalf, Zenon
<1>3. t \in Page
  BY <1>1, UptoOwned, Zenon DEF Apart
<1>4. Cell(m[t][k])
  BY <1>2, <1>3, Zenon DEF Memory, Row
<1>5. m2 = [m EXCEPT ![t][k] = c]
  BY Zenon
<1> HIDE DEF k, d
<1>6. Cell(c) /\ c.page = m[t][k].page
  <2>1. Cell(d)
    BY <1>4, Zenon DEF d
  <2>2. Cell(c) /\ c.page = d.page
    BY <2>1, CellWritten, Zenon
  <2> QED
    BY <2>2, Zenon DEF d
<1> HIDE DEF c
<1>7. /\ Memory(m2) /\ m2[t][k] = c
      /\ \A p \in Page, i \in Slots : ~(p = t /\ i = k) => m2[p][i] = m[p][i]
  <2>1. Written(m, [m EXCEPT ![t][k] = c], t, k, c)
    BY <1>2, <1>3, <1>6, WrittenCell, Zenon
  <2>2. Written(m, m2, t, k, c)
    BY <1>5, <2>1, Zenon
  <2> QED
    BY <2>2, Zenon DEF Written
<1>8. SameLinks(m, m2, Page)
  <2> SUFFICES ASSUME NEW p \in Page, NEW i \in 0 .. ENTRIES - 1
               PROVE  m2[p][i].page = m[p][i].page
    BY Zenon DEF SameLinks
  <2>1. i \in Slots
    BY UserHalf, Zenon
  <2>2. CASE p = t /\ i = k
    BY <1>6, <1>7, <2>2, Zenon
  <2>3. CASE ~(p = t /\ i = k)
    BY <1>7, <2>1, <2>3, Zenon
  <2> QED
    BY <2>2, <2>3, Zenon
<1> QED
  BY <1>7, <1>8, ContentsSteady, Zenon DEF Builds

\* A missing table or leaf is taken from the free pages, cleared and linked.
LEMMA EntryLinked ==
  ASSUME NEW m, Memory(m), NEW f, NEW r, NEW root \in Page, Apart(m, f, r, root),
         NEW a \in Int, InUserHalf(a), NEW level \in 1 .. 4, NEW t, t # 0,
         Upto(m, root, a, level, t), m[t][Index(a, level)].page = 0,
         NEW n \in f, n \in Page, NEW v, NEW x, NEW m2,
         m2 = [[m EXCEPT ![n] = ZeroPage] EXCEPT
                 ![t][Index(a, level)] = [page |-> n, byte |-> 0, w |-> v, nx |-> x]]
  PROVE  Builds(m, f, r, root, m2, f \ {n})
<1> DEFINE k == Index(a, level)
           c == [page |-> n, byte |-> 0, w |-> v, nx |-> x]
           m1 == [m EXCEPT ![n] = ZeroPage]
<1>1. k \in 0 .. ENTRIES - 1 /\ k \in Slots
  BY IndexRange, UserHalf, Zenon
<1>2. t \in Page /\ t # n
  BY UptoOwned, Zenon DEF Apart
<1>3. Cell(c) /\ c.page = n
  BY EntryCell, Zenon
<1>4. /\ Memory(m1) /\ SameLinks(m, m1, Page \ {n})
      /\ \A i \in 0 .. ENTRIES - 1 : m1[n][i].page = 0
  BY ClearedPage, Zenon DEF Cleared
<1>5. m2 = [m1 EXCEPT ![t][k] = c]
  BY Zenon
<1>6. m[t][k].page = 0
  BY Zenon
<1> HIDE DEF k, c, m1
<1>7. /\ Memory(m2) /\ m2[t][k] = c
      /\ \A p \in Page, i \in Slots : ~(p = t /\ i = k) => m2[p][i] = m1[p][i]
  <2>1. Written(m1, [m1 EXCEPT ![t][k] = c], t, k, c)
    BY <1>1, <1>2, <1>3, <1>4, WrittenCell, Zenon
  <2>2. Written(m1, m2, t, k, c)
    BY <1>5, <2>1, Zenon
  <2> QED
    BY <2>2, Zenon DEF Written
<1>8. LinkAdded(m, m2, t, k, n)
  <2>1. m2[t][k].page = n
    BY <1>3, <1>7, Zenon
  <2>2. ASSUME NEW i \in 0 .. ENTRIES - 1 PROVE m2[n][i].page = 0
    <3>1. i \in Slots /\ m1[n][i].page = 0
      BY <1>4, UserHalf, Zenon
    <3>2. m2[n][i] = m1[n][i]
      BY <1>2, <1>7, <3>1, Zenon
    <3> QED
      BY <3>1, <3>2, Zenon
  <2>3. ASSUME NEW p \in Page \ {n}, NEW i \in 0 .. ENTRIES - 1, ~(p = t /\ i = k)
        PROVE  m2[p][i].page = m[p][i].page
    <3>1. m2[p][i] = m1[p][i]
      BY <1>7, <2>3, UserHalf, Zenon
    <3>2. m1[p][i].page = m[p][i].page
      BY <1>4, Zenon DEF SameLinks
    <3> QED
      BY <3>1, <3>2, Zenon
  <2> QED
    BY <1>1, <1>2, <1>6, <2>1, <2>2, <2>3, Zenon DEF LinkAdded
<1>9. LinkAdded(m, m2, t, Index(a, level), n)
  BY <1>8, Zenon DEF k
<1> QED
  BY <1>7, <1>9, LinkSteady, Zenon DEF Builds

\* A memory that does not change is steady.
LEMMA NothingLinked ==
  ASSUME NEW m, NEW f, NEW r, NEW o, Apart(m, f, r, o)
  PROVE  Steady(m, f, r, o, m, f, r, o)
BY Zenon DEF Steady

\* The exec goes on at another place, or gives the image up.
LEMMA CallMoved ==
  ASSUME call \in ExecCall, NEW pc \in ExecPc
  PROVE  /\ \A at \in Int : LET c == [call EXCEPT !.pc = pc, !.at = at]
                            IN  /\ c \in ExecCall /\ c.pc = pc /\ c.root = call.root
                                /\ c.img = call.img /\ c.seg = call.seg
         /\ LET c == [call EXCEPT !.pc = pc, !.ok = FALSE]
            IN  c \in ExecCall /\ c.pc = pc /\ c.root = call.root
<1>1. ASSUME NEW at \in Int
      PROVE  LET c == [call EXCEPT !.pc = pc, !.at = at]
             IN  /\ c \in ExecCall /\ c.pc = pc /\ c.root = call.root
                 /\ c.img = call.img /\ c.seg = call.seg
  BY Zenon DEF ExecCall
<1>2. LET c == [call EXCEPT !.pc = pc, !.ok = FALSE]
      IN  c \in ExecCall /\ c.pc = pc /\ c.root = call.root
  BY Zenon DEF ExecCall
<1> QED
  BY <1>1, <1>2, Zenon

\* Where an exec that builds its space stands.
LEMMA Loading ==
  ASSUME ExecInv, call.pc \in {"map", "relocate", "stack", "finish"}
  PROVE  /\ call \in ExecCall /\ call.root \in Page /\ Other = call.root
         /\ Memory(mem) /\ free \subseteq Page /\ Apart(mem, free, cr3, call.root)
         /\ call.pc = "map" => call.seg \in 1 .. Len(call.img.segments)
<1>1. call.pc \in InLoad /\ call.pc \notin {"exit", "boot", "user", "panic", "halted"}
  BY Zenon DEF InLoad
<1>2. Other = call.root
  BY <1>1, OtherRoot, Zenon
<1>3. call \in ExecCall
  BY <1>1, Zenon DEF ExecInv, CallInv
<1> QED
  BY <1>1, <1>2, <1>3, Zenon DEF ExecInv, LoopInv, SpaceInv

\* map_user_page: one turn of its loop over the levels.
LEMMA MapStep ==
  ASSUME ExecInv, call.pc \in {"map", "stack"}, NEW a \in Int, NEW w, NEW nx,
         NEW next \in ExecCall, next.pc = call.pc, next.root = call.root,
         next.seg = call.seg, next.img = call.img,
         map_user_page(a, w, nx, next), UNCHANGED << rootVars, buffers >>
  PROVE  Keeps
<1> DEFINE root == call.root
           leaf == locate_pte(mem, root, a)
<1>1. /\ call \in ExecCall /\ root \in Page /\ Other = root
      /\ Memory(mem) /\ free \subseteq Page /\ Apart(mem, free, cr3, root)
      /\ call.pc = "map" => call.seg \in 1 .. Len(call.img.segments)
  BY Loading, Zenon
<1>2. PICK t, level :
        /\ Missing(mem, root, a) = [table |-> t, level |-> level]
        /\ level \in 1 .. 4 /\ Upto(mem, root, a, level, t)
        /\ level < 4 => t # 0
        /\ level > 1 => mem[t][Index(a, level)].page = 0 /\ Table1(mem, root, a) = 0
        /\ level = 1 => t = Table1(mem, root, a)
  BY MissingCases, Zenon
<1>3. Missing(mem, root, a).table = t /\ Missing(mem, root, a).level = level
  <2> DEFINE at == Missing(mem, root, a)
  <2>1. at = [table |-> t, level |-> level]
    BY <1>2, Zenon
  <2> HIDE DEF at
  <2>2. at.table = t /\ at.level = level
    BY <2>1
  <2> QED
    BY <2>2, Zenon DEF at
<1>4. t # 0
  <2>1. CASE level = 4
    BY <1>1, <1>2, <2>1, PageNotZero, Zenon DEF Upto
  <2>2. CASE level # 4
    BY <1>2, <2>2
  <2> QED
    BY <2>1, <2>2, Zenon
<1>5. level # 1 => mem[t][Index(a, level)].page = 0 /\ Table1(mem, root, a) = 0
  BY <1>2
<1>6. CASE leaf.page # 0
  <2>1. InUserHalf(a) /\ Table1(mem, root, a) # 0
    BY <1>6, Zenon DEF locate_pte, Zero
  <2>2. level = 1 /\ leaf = mem[t][Index(a, 1)]
    BY <1>2, <1>5, <2>1, Zenon DEF locate_pte
  <2>3. PICK v, x : mem' = [mem EXCEPT ![t][Index(a, 1)] =
                              [mem[t][Index(a, 1)] EXCEPT !.w = v, !.nx = x]]
    <3> DEFINE written(tt, l, c) == [mem EXCEPT ![tt][Index(a, l)] = c]
               flagged(c, v, x) == [c EXCEPT !.w = v, !.nx = x]
               at == Missing(mem, root, a)
    <3>1. mem' = written(at.table, at.level, flagged(leaf, leaf.w \/ w, leaf.nx /\ nx))
      BY <1>6, Zenon DEF map_user_page
    <3> HIDE DEF written, flagged
    <3>2. PICK v, x : mem' = written(at.table, at.level, flagged(leaf, v, x))
      BY <3>1, Zenon
    <3>3. mem' = written(t, 1, flagged(mem[t][Index(a, 1)], v, x))
      BY <1>3, <2>2, <3>2, Zenon
    <3> QED
      BY <3>3, Zenon DEF written, flagged
  <2>4. call' = next /\ free' = free
    BY <1>6, Zenon DEF map_user_page
  <2>5. Upto(mem, root, a, 1, t)
    BY <1>2, <2>2, Zenon
  <2>6. Builds(mem, free, cr3, root, mem', free)
    BY <1>1, <1>4, <2>3, <2>5, LeafFlags, Zenon
  <2> QED
    BY <1>1, <2>4, <2>6, LoadMove, Zenon DEF Builds
<1>7. CASE leaf.page = 0 /\ (~InUserHalf(a) \/ free = {})
  <2>1. call' = [call EXCEPT !.pc = "finish", !.ok = FALSE] /\ mem' = mem /\ free' = free
    BY <1>7, Zenon DEF map_user_page, memVars
  <2>2. "finish" \in ExecPc
    BY Zenon DEF ExecPc, InLoad
  <2>3. call' \in ExecCall /\ call'.pc = "finish" /\ call'.root = root
    BY <1>1, <2>1, <2>2, CallMoved, Zenon
  <2>4. Steady(mem, free, cr3, root, mem, free, cr3, root)
    BY <1>1, NothingLinked, Zenon
  <2> QED
    BY <1>1, <2>1, <2>3, <2>4, LoadMove, Zenon
<1>8. CASE leaf.page = 0 /\ InUserHalf(a) /\ free # {}
  <2> DEFINE n == LowestFree
  <2>1. n \in free /\ n \in Page
    BY <1>1, <1>8, LowestFreeIsFree, Zenon
  <2>2. mem[t][Index(a, level)].page = 0
    <3>1. CASE level # 1
      BY <1>5, <3>1, Zenon
    <3>2. CASE level = 1
      BY <1>2, <1>4, <1>8, <3>2, Zenon DEF locate_pte
    <3> QED
      BY <3>1, <3>2, Zenon
  <2>3. PICK v, x :
          mem' = [[mem EXCEPT ![n] = ZeroPage] EXCEPT
                    ![t][Index(a, level)] = [page |-> n, byte |-> 0, w |-> v, nx |-> x]]
    <3> DEFINE written(m, tt, l, v, x) ==
                 [m EXCEPT ![tt][Index(a, l)] = [page |-> n, byte |-> 0, w |-> v, nx |-> x]]
               at == Missing(mem, root, a)
    <3>1. mem' = written(allocate_zeroed_page(mem), at.table, at.level,
                         at.level > 1 \/ w, at.level = 1 /\ nx)
      BY <1>8, Zenon DEF map_user_page
    <3> HIDE DEF written
    <3>2. PICK v, x : mem' = written(allocate_zeroed_page(mem), t, level, v, x)
      BY <1>3, <3>1, Zenon
    <3> QED
      BY <3>2, Zenon DEF written, allocate_zeroed_page
  <2>4. free' = free \ {n} /\ (call' = next \/ call' = call)
    BY <1>8, Zenon DEF map_user_page
  <2> HIDE DEF n
  <2>5. Builds(mem, free, cr3, root, mem', free \ {n})
    BY <1>1, <1>2, <1>4, <1>8, <2>1, <2>2, <2>3, EntryLinked, Zenon
  <2>6. free' \subseteq Page
    BY <1>1, <2>4, Zenon
  <2>7. Steady(mem, free, cr3, Other, mem', free', cr3, root)
    BY <1>1, <2>4, <2>5, Zenon DEF Builds
  <2>8. Memory(mem')
    BY <2>5, Zenon DEF Builds
  <2> QED
    BY <1>1, <2>4, <2>6, <2>7, <2>8, LoadMove, Zenon
<1> QED
  BY <1>6, <1>7, <1>8, Zenon

\* The loops move to the next page, relocation, segment or part.
LEMMA CallAdvanced ==
  ASSUME call \in ExecCall, NEW at \in Int, NEW seg \in Int
  PROVE  /\ LET c == [call EXCEPT !.at = at]
            IN  /\ c \in ExecCall /\ c.pc = call.pc /\ c.root = call.root
                /\ c.img = call.img /\ c.seg = call.seg
         /\ LET c == [call EXCEPT !.seg = seg, !.at = at]
            IN  /\ c \in ExecCall /\ c.pc = call.pc /\ c.root = call.root
                /\ c.img = call.img /\ c.seg = seg
<1>1. LET c == [call EXCEPT !.at = at]
      IN  /\ c \in ExecCall /\ c.pc = call.pc /\ c.root = call.root
          /\ c.img = call.img /\ c.seg = call.seg
  BY DEF ExecCall
<1>2. LET c == [call EXCEPT !.seg = seg, !.at = at]
      IN  /\ c \in ExecCall /\ c.pc = call.pc /\ c.root = call.root
          /\ c.img = call.img /\ c.seg = seg
  BY Zenon DEF ExecCall
<1> QED
  BY <1>1, <1>2, Zenon

\* The page after the one an exec is at.
LEMMA NextPage ==
  ASSUME call \in ExecCall
  PROVE  call.at \in Int /\ call.at + PAGE_SIZE \in Int /\ call.at + 1 \in Int
<1>1. call.at \in Int
  BY Zenon DEF ExecCall
<1> QED
  BY <1>1, LayoutAssumption

\* map_segment and map_user_stack map one page, or a table on the way to it.
LEMMA MapSteps ==
  ASSUME ExecInv, MapSegment \/ MapStack
  PROVE  Keeps
<1>1. call.pc \in {"map", "stack"}
  BY Zenon DEF MapSegment, MapStack, Going
<1>2. call \in ExecCall
  BY <1>1, Loading, Zenon
<1>3. call.at \in Int /\ call.at + PAGE_SIZE \in Int
  BY <1>2, NextPage, Zenon
<1> DEFINE next == [call EXCEPT !.at = call.at + PAGE_SIZE]
<1>4. PICK w, nx : map_user_page(call.at, w, nx, next) /\ UNCHANGED << rootVars, buffers >>
  BY Zenon DEF MapSegment, MapStack
<1>5. /\ next \in ExecCall /\ next.pc = call.pc /\ next.root = call.root
      /\ next.img = call.img /\ next.seg = call.seg
  BY <1>2, <1>3, CallAdvanced, Zenon
<1> HIDE DEF next
<1> QED
  BY <1>1, <1>3, <1>4, <1>5, MapStep, Zenon

\* A step that gives the image up changes no memory.
LEMMA GivenUp ==
  ASSUME ExecInv, call.pc \in {"map", "relocate", "stack"},
         call' = [call EXCEPT !.pc = "finish", !.ok = FALSE],
         UNCHANGED << mem, free, rootVars, buffers >>
  PROVE  Keeps
<1>1. /\ call \in ExecCall /\ call.root \in Page /\ Other = call.root
      /\ Memory(mem) /\ free \subseteq Page /\ Apart(mem, free, cr3, call.root)
  BY Loading, Zenon
<1>2. "finish" \in ExecPc
  BY Zenon DEF ExecPc, InLoad
<1>3. call' \in ExecCall /\ call'.pc = "finish" /\ call'.root = call.root
  BY <1>1, <1>2, CallMoved, Zenon
<1>4. Steady(mem, free, cr3, call.root, mem, free, cr3, call.root)
  BY <1>1, NothingLinked, Zenon
<1> QED
  BY <1>1, <1>3, <1>4, LoadMove, Zenon

\* A step that writes bytes of the new space, or none, changes no link.
LEMMA BytesWritten ==
  ASSUME ExecInv, call.pc \in {"map", "relocate", "stack"},
         call' \in ExecCall, call'.pc \in {"map", "relocate", "stack", "finish"},
         call'.root = call.root, call'.pc = "map" => call'.seg \in 1 .. Len(call'.img.segments),
         \/ mem' = mem
         \/ \E first, k, bytes : mem' = copy_to_space(mem, call.root, first, k, bytes),
         UNCHANGED << free, rootVars, buffers >>
  PROVE  Keeps
<1>1. /\ call.root \in Page /\ Other = call.root
      /\ Memory(mem) /\ free \subseteq Page /\ Apart(mem, free, cr3, call.root)
  BY Loading, Zenon
<1>2. Memory(mem') /\ SameLinks(mem, mem', Page)
  <2>1. CASE mem' = mem
    BY <1>1, <2>1, Zenon DEF SameLinks
  <2>2. CASE \E first, k, bytes : mem' = copy_to_space(mem, call.root, first, k, bytes)
    BY <1>1, <2>2, CopiedBytes, Zenon
  <2> QED
    BY <2>1, <2>2, Zenon
<1>3. Steady(mem, free, cr3, call.root, mem', free, cr3, call.root)
  BY <1>1, <1>2, ContentsSteady, Zenon
<1> QED
  BY <1>1, <1>2, <1>3, LoadMove, Zenon

\* map_segment ends with the copy of the segment's bytes in the file.
LEMMA CopySegmentStep ==
  ASSUME ExecInv, CopySegment
  PROVE  Keeps
<1>1. call.pc = "map" /\ UNCHANGED << free, rootVars, buffers >>
  BY Zenon DEF CopySegment, Going
<1>2. call \in ExecCall /\ call.root \in Page /\ call.seg \in 1 .. Len(call.img.segments)
  BY <1>1, Loading, Zenon
<1>3. CASE /\ mem' = mem
           /\ call' = [call EXCEPT !.pc = "finish", !.ok = FALSE]
  BY <1>1, <1>3, GivenUp, Zenon
<1>4. CASE /\ \E first, k, bytes : mem' = copy_to_space(mem, call.root, first, k, bytes)
           /\ call' = NextSegment
  <2>1. CASE call.seg = Len(call.img.segments)
    <3>1. call' = [call EXCEPT !.pc = "relocate", !.at = 1]
      BY <1>4, <2>1, Zenon DEF NextSegment
    <3>2. "relocate" \in ExecPc /\ 1 \in Int
      BY DEF ExecPc, InLoad
    <3>3. call' \in ExecCall /\ call'.pc = "relocate" /\ call'.root = call.root
      BY <1>2, <3>1, <3>2, CallMoved, Zenon
    <3> QED
      BY <1>1, <1>4, <3>3, BytesWritten, Zenon
  <2>2. CASE call.seg # Len(call.img.segments)
    <3> DEFINE seg == call.seg + 1
               at == (Start(call.img, call.img.segments[call.seg + 1]) \div PAGE_SIZE) * PAGE_SIZE
    <3>1. call' = [call EXCEPT !.seg = seg, !.at = at]
      BY <1>4, <2>2, Zenon DEF NextSegment
    <3>2. call.img \in Images
      BY <1>2, Zenon DEF ExecCall
    <3>3. call.img.segments \in Seq(Segment)
      BY <3>2, ImageAssumption, Zenon
    <3>4. seg \in 1 .. Len(call.img.segments) /\ seg \in Int
      BY <1>2, <2>2, <3>3
    <3>5. at \in Int
      BY <3>2, <3>4, SegmentPage, Zenon
    <3> HIDE DEF seg, at
    <3>6. /\ call' \in ExecCall /\ call'.pc = call.pc /\ call'.root = call.root
          /\ call'.img = call.img /\ call'.seg = seg
      BY <1>2, <3>1, <3>4, <3>5, CallAdvanced, Zenon
    <3>7. call'.seg \in 1 .. Len(call'.img.segments)
      BY <3>4, <3>6, Zenon
    <3> QED
      BY <1>1, <1>4, <3>6, <3>7, BytesWritten, Zenon
  <2> QED
    BY <2>1, <2>2, Zenon
<1> QED
  BY <1>3, <1>4, Zenon DEF CopySegment

\* apply_relative_relocations writes a word, ends, or gives the image up.
LEMMA RelocationStep ==
  ASSUME ExecInv, apply_relative_relocations
  PROVE  Keeps
<1>1. call.pc = "relocate" /\ UNCHANGED << free, rootVars, buffers >>
  BY Zenon DEF apply_relative_relocations, Going
<1>2. call \in ExecCall /\ call.root \in Page /\ call.at + 1 \in Int
  BY <1>1, Loading, NextPage, Zenon
<1>3. CASE /\ mem' = mem
           /\ call' = [call EXCEPT !.pc = "finish", !.ok = FALSE]
  BY <1>1, <1>3, GivenUp, Zenon
<1>4. CASE /\ mem' = mem
           /\ call' = [call EXCEPT !.pc = "stack", !.at = StackBottom]
  <2>1. "stack" \in ExecPc
    BY Zenon DEF ExecPc, InLoad
  <2>2. StackBottom \in Int
    BY LayoutAssumption DEF StackBottom
  <2>3. call' \in ExecCall /\ call'.pc = "stack" /\ call'.root = call.root
    BY <1>2, <1>4, <2>1, <2>2, CallMoved, Zenon
  <2> QED
    BY <1>1, <1>4, <2>3, BytesWritten, Zenon
<1>5. CASE /\ \E first, k, bytes : mem' = copy_to_space(mem, call.root, first, k, bytes)
           /\ call' = [call EXCEPT !.at = call.at + 1]
  <2>1. call' \in ExecCall /\ call'.pc = call.pc /\ call'.root = call.root
    BY <1>2, <1>5, CallAdvanced, Zenon
  <2> QED
    BY <1>1, <1>5, <2>1, BytesWritten, Zenon
<1> QED
  BY <1>3, <1>4, <1>5, Zenon DEF apply_relative_relocations

\* build_user_stack writes the strings and the vectors, or gives the image up.
LEMMA FillStackStep ==
  ASSUME ExecInv, FillStack
  PROVE  Keeps
<1>1. call.pc = "stack" /\ UNCHANGED << free, rootVars, buffers >>
  BY Zenon DEF FillStack, Going
<1>2. call \in ExecCall /\ call.root \in Page
  BY <1>1, Loading, Zenon
<1>3. CASE /\ mem' = mem
           /\ call' = [call EXCEPT !.pc = "finish", !.ok = FALSE]
  BY <1>1, <1>3, GivenUp, Zenon
<1>4. CASE /\ \E first, k, bytes : mem' = copy_to_space(mem, call.root, first, k, bytes)
           /\ Step("finish")
  <2>1. "finish" \in ExecPc
    BY Zenon DEF ExecPc, InLoad
  <2>2. call' \in ExecCall /\ call'.pc = "finish" /\ call'.root = call.root
    BY <1>2, <1>4, <2>1 DEF Step, ExecCall
  <2> QED
    BY <1>1, <1>4, <2>2, BytesWritten, Zenon
<1> QED
  BY <1>3, <1>4, Zenon DEF FillStack

-----------------------------------------------------------------------------
(* The end of load_image, and switching.                                   *)

\* load_image succeeds, or frees all it built.
LEMMA FinishStep ==
  ASSUME ExecInv, Finish
  PROVE  Keeps
<1>1. call.pc = "finish"
  BY Zenon DEF Finish, Going
<1>2. /\ call \in ExecCall /\ call.root \in Page /\ Other = call.root
      /\ Memory(mem) /\ free \subseteq Page /\ Apart(mem, free, cr3, call.root)
  BY <1>1, Loading, Zenon
<1>3. buffers \subseteq {"storage", "file_data"}
  BY Zenon DEF ExecInv, BufferInv
<1>4. CASE call.ok
  <2>1. buffers' = {} /\ Step("switch") /\ UNCHANGED << memVars, rootVars >>
    BY <1>3, <1>4, Zenon DEF Finish
  <2>2. "switch" \in ExecPc /\ "switch" \in InLoad
    BY Zenon DEF ExecPc, InLoad
  <2>3. call' \in ExecCall /\ call'.pc = "switch" /\ call'.root = call.root
    BY <1>2, <2>1, <2>2 DEF Step, ExecCall
  <2>4. Other' = Other
    BY <1>2, <2>2, <2>3, OtherRootNext, Zenon
  <2>5. RootInv' /\ SpaceInv' /\ Steady(mem, free, cr3, Other, mem', free', cr3', Other')
    BY <2>1, <2>4, SpacesUnchanged, Zenon DEF ExecInv
  <2>6. CallInv' /\ BufferInv' /\ LoopInv'
    BY <1>2, <2>1, <2>2, <2>3 DEF CallInv, BufferInv, LoopInv
  <2> QED
    BY <2>5, <2>6, Zenon DEF Keeps, ExecInv
<1>5. CASE ~call.ok
  <2>1. Release(SpacePages(mem, call.root)) /\ Fails({"file_data"})
    BY <1>5, Zenon DEF Finish
  <2>2. Other' = 0 /\ CallInv' /\ LoopInv' /\ BufferInv' /\ UNCHANGED rootVars
    BY <2>1, FailsEnds, Zenon DEF ExecInv
  <2>3. Memory(mem') /\ SameLinks(mem, mem', Page \ SpacePages(mem, call.root))
    BY <1>2, <2>1, ReleasedPages, Zenon
  <2>4. free' = free \cup SpacePages(mem, call.root)
    BY <2>1, Zenon DEF Release
  <2>5. Steady(mem, free, cr3, call.root, mem', free \cup SpacePages(mem, call.root), cr3, 0)
    BY <1>2, <2>3, ReleaseSteady, Zenon
  <2>6. free' \subseteq Page
    BY <1>2, <2>4, ApartPages, Zenon
  <2>7. cr3' = cr3 /\ active_root_phys' = active_root_phys
    BY <2>2, Zenon DEF rootVars
  <2>8. Steady(mem, free, cr3, Other, mem', free', cr3', Other')
    BY <1>2, <2>2, <2>4, <2>5, <2>7, Zenon
  <2>9. RootInv' /\ SpaceInv'
    BY <2>3, <2>6, <2>7, <2>8, Zenon DEF ExecInv, RootInv, SpaceInv, Steady
  <2> QED
    BY <2>2, <2>8, <2>9, Zenon DEF Keeps, ExecInv
<1> QED
  BY <1>4, <1>5, Zenon

\* activate: the new space is in use, the old one about to be destroyed.
LEMMA ActivateStep ==
  ASSUME ExecInv, activate
  PROVE  Keeps
<1>1. call.pc = "switch" /\ call.pc \in InLoad
  BY Zenon DEF activate, Going, InLoad
<1>2. call \in ExecCall
  BY <1>1 DEF ExecInv, CallInv
<1>3. call.root \in Page /\ Other = call.root /\ buffers = {}
  BY <1>1, OtherRoot, Zenon DEF ExecInv, LoopInv, BufferInv
<1>4. /\ cr3' = call.root /\ active_root_phys' = call.root
      /\ call' = [call EXCEPT !.pc = "retire", !.at = cr3]
      /\ mem' = mem /\ free' = free /\ buffers' = buffers
  BY Zenon DEF activate, ExecInv, RootInv, memVars
<1>5. cr3 \in Page \cup {0} /\ cr3 \in Int
  <2>1. cr3 \in Page \cup {0}
    BY Zenon DEF ExecInv, RootInv
  <2> QED
    BY <2>1, LayoutAssumption DEF Page
<1>6. call' \in ExecCall /\ call'.pc = "retire" /\ call'.at = cr3
  <2>1. "retire" \in ExecPc
    BY Zenon DEF ExecPc
  <2> QED
    BY <1>2, <1>4, <1>5, <2>1, Zenon DEF ExecCall
<1>7. Other' = cr3
  BY <1>6, OtherRootNext, Zenon
<1>8. Apart(mem, free, cr3, call.root)
  BY <1>3, Zenon DEF ExecInv, SpaceInv
<1>9. Steady(mem, free, cr3, call.root, mem, free, call.root, cr3)
  BY <1>8, SwapSteady, Zenon
<1>10. Steady(mem, free, cr3, Other, mem', free', cr3', Other')
  BY <1>3, <1>4, <1>7, <1>9, Zenon
<1>11. RootInv' /\ SpaceInv'
  BY <1>3, <1>4, <1>10, Zenon DEF ExecInv, RootInv, SpaceInv, Steady
<1>12. CallInv' /\ BufferInv' /\ LoopInv'
  BY <1>3, <1>4, <1>5, <1>6 DEF CallInv, BufferInv, LoopInv, InLoad, ExecPc
<1> QED
  BY <1>10, <1>11, <1>12, Zenon DEF Keeps, ExecInv

\* terminate_current: the boot tables are in use, the space about to be destroyed.
LEMMA TerminateStep ==
  ASSUME ExecInv, terminate_current
  PROVE  Keeps
<1>1. call.pc = "user" /\ Other = 0 /\ buffers = {}
  BY OtherRoot, Zenon DEF terminate_current, Going, ExecInv, BufferInv
<1>2. /\ cr3' = 0 /\ active_root_phys' = 0
      /\ call' = [pc |-> "exit", at |-> cr3]
      /\ mem' = mem /\ free' = free /\ buffers' = buffers
  BY Zenon DEF terminate_current, ExecInv, RootInv, memVars, KernelRoot
<1>3. call'.pc = "exit" /\ call'.at = cr3
  BY <1>2
<1>4. cr3 \in Page \cup {0}
  BY Zenon DEF ExecInv, RootInv
<1>5. Other' = cr3
  BY <1>3, OtherRootNext, Zenon
<1>6. Apart(mem, free, cr3, 0)
  BY <1>1, Zenon DEF ExecInv, SpaceInv
<1>7. Steady(mem, free, cr3, 0, mem, free, 0, cr3)
  BY <1>6, SwapSteady, Zenon
<1>8. Steady(mem, free, cr3, Other, mem', free', cr3', Other')
  BY <1>1, <1>2, <1>5, <1>7, Zenon
<1>9. RootInv' /\ SpaceInv'
  BY <1>2, <1>8, Zenon DEF ExecInv, RootInv, SpaceInv, Steady
<1>10. CallInv' /\ BufferInv' /\ LoopInv'
  BY <1>1, <1>2, <1>3, <1>4 DEF CallInv, BufferInv, LoopInv, InLoad
<1> QED
  BY <1>8, <1>9, <1>10, Zenon DEF Keeps, ExecInv

\* destroy_address_space on the way back to user code, or to the end.
LEMMA RetireSteps ==
  ASSUME ExecInv, Retire \/ ExitRetires
  PROVE  Keeps
<1>1. call.pc \in {"retire", "exit"} /\ Release(SpacePages(mem, call.at))
  BY Zenon DEF Retire, ExitRetires, Going
<1>2. /\ call' = [pc |-> "user"] \/ call' = [pc |-> "halted"]
      /\ UNCHANGED << rootVars, buffers >>
  BY Zenon DEF Retire, ExitRetires
<1>3. call'.pc \in {"user", "halted"}
  BY <1>2
<1>4. Other = call.at /\ Other' = 0 /\ buffers = {}
  BY <1>1, <1>3, OtherRoot, OtherRootNext, Zenon DEF ExecInv, BufferInv
<1>5. Memory(mem) /\ free \subseteq Page /\ Apart(mem, free, cr3, call.at)
  BY <1>4, Zenon DEF ExecInv, SpaceInv
<1>6. Memory(mem') /\ SameLinks(mem, mem', Page \ SpacePages(mem, call.at))
  BY <1>1, <1>5, ReleasedPages, Zenon
<1>7. free' = free \cup SpacePages(mem, call.at)
  BY <1>1, Zenon DEF Release
<1>8. Steady(mem, free, cr3, call.at, mem', free \cup SpacePages(mem, call.at), cr3, 0)
  BY <1>5, <1>6, ReleaseSteady, Zenon
<1>9. free' \subseteq Page
  BY <1>5, <1>7, ApartPages, Zenon
<1>10. cr3' = cr3 /\ active_root_phys' = active_root_phys /\ buffers' = buffers
  BY <1>2, Zenon DEF rootVars
<1>11. Steady(mem, free, cr3, Other, mem', free', cr3', Other')
  BY <1>4, <1>7, <1>8, <1>10, Zenon
<1>12. RootInv' /\ SpaceInv'
  BY <1>6, <1>9, <1>10, <1>11, Zenon DEF ExecInv, RootInv, SpaceInv, Steady
<1>13. CallInv' /\ BufferInv' /\ LoopInv'
  BY <1>3, <1>4, <1>10 DEF CallInv, BufferInv, LoopInv, InLoad
<1> QED
  BY <1>11, <1>12, <1>13, Zenon DEF Keeps, ExecInv

-----------------------------------------------------------------------------
(* The theorems.                                                           *)

\* At boot no space exists and no table is in memory.
LEMMA InitExec == Init => ExecInv
<1> SUFFICES ASSUME Init PROVE ExecInv
  OBVIOUS
<1>1. call.pc = "boot" /\ Other = 0 /\ buffers = {} /\ cr3 = 0 /\ active_root_phys = 0
  BY OtherRoot DEF Init, KernelRoot
<1>2. Memory(mem)
  BY CleanRows, Zenon DEF Init, Memory
<1>3. free \subseteq Page
  BY LayoutAssumption DEF Init, Page
<1>4. {} \in SUBSET Page /\ {} \cap {} = {} /\ {} \cap free = {}
  BY Zenon
<1>5. Apart(mem, free, 0, 0)
  BY <1>4, NoSpace, Zenon DEF Apart
<1>6. SpaceInv
  BY <1>1, <1>2, <1>3, <1>5, Zenon DEF SpaceInv
<1>7. RootInv
  BY <1>1, Zenon DEF RootInv
<1>8. CallInv /\ BufferInv /\ LoopInv
  BY <1>1 DEF CallInv, BufferInv, LoopInv, InLoad
<1> QED
  BY <1>6, <1>7, <1>8, Zenon DEF ExecInv

\* A step that changes nothing.
LEMMA NoStep ==
  ASSUME ExecInv, UNCHANGED vars
  PROVE  Keeps
<1>1. /\ UNCHANGED << memVars, rootVars >> /\ call' = call /\ buffers' = buffers
  BY Zenon DEF vars, memVars, rootVars
<1>2. Other' = Other
  BY <1>1, Zenon DEF Other
<1>3. RootInv' /\ SpaceInv' /\ Steady(mem, free, cr3, Other, mem', free', cr3', Other')
  BY <1>1, <1>2, SpacesUnchanged, Zenon DEF ExecInv
<1>4. CallInv' /\ BufferInv' /\ LoopInv'
  BY <1>1, Zenon DEF ExecInv, CallInv, BufferInv, LoopInv
<1> QED
  BY <1>3, <1>4, Zenon DEF Keeps, ExecInv

\* Every step keeps the invariant and loses no page.
LEMMA StepKeeps == ExecInv /\ [Next]_vars => Keeps
<1> SUFFICES ASSUME ExecInv, [Next]_vars PROVE Keeps
  OBVIOUS
<1>1. CASE \/ \E img \in Images : launch_static(img)
           \/ \E img \in Images, args \in Args : sys_execve(img, args)
           \/ CopyVectors \/ ReadFile \/ CheckHeaders
  BY <1>1, EarlySteps, Zenon
<1>2. CASE create_address_space
  BY <1>2, CreateStep, Zenon
<1>3. CASE MapSegment \/ MapStack
  BY <1>3, MapSteps, Zenon
<1>4. CASE CopySegment
  BY <1>4, CopySegmentStep, Zenon
<1>5. CASE apply_relative_relocations
  BY <1>5, RelocationStep, Zenon
<1>6. CASE FillStack
  BY <1>6, FillStackStep, Zenon
<1>7. CASE Finish
  BY <1>7, FinishStep, Zenon
<1>8. CASE activate
  BY <1>8, ActivateStep, Zenon
<1>9. CASE terminate_current
  BY <1>9, TerminateStep, Zenon
<1>10. CASE Retire \/ ExitRetires
  BY <1>10, RetireSteps, Zenon
<1>11. CASE Stopped \/ UNCHANGED vars
  BY <1>11, NoStep, Zenon DEF Stopped
<1> QED
  BY <1>1, <1>2, <1>3, <1>4, <1>5, <1>6, <1>7, <1>8, <1>9, <1>10, <1>11, Zenon DEF Next

\* Of the space being built and the one about to be destroyed there is only one.
LEMMA OneOther ==
  \/ Building = Other /\ Retiring = 0
  \/ Building = 0 /\ Retiring = Other
BY DEF Building, Retiring, Other, InLoad

\* What the invariant says of the three spaces.
LEMMA IntactSpaces == ExecInv => SpacesIntact
<1> SUFFICES ASSUME ExecInv PROVE SpacesIntact
  OBVIOUS
<1> DEFINE C == SpacePages(mem, cr3)
           O == SpacePages(mem, Other)
           B == SpacePages(mem, Building)
           R == SpacePages(mem, Retiring)
<1>1. C \cap free = {} /\ O \cap free = {} /\ C \cap O = {}
  BY ApartPages, Zenon DEF ExecInv, SpaceInv
<1>2. (B = O /\ R = {}) \/ (B = {} /\ R = O)
  BY OneOther, NoSpace, Zenon
<1> HIDE DEF C, O, B, R
<1>3. SUFFICES \A i \in 1 .. 3 :
                 /\ << C, B, R >>[i] \cap free = {}
                 /\ \A j \in 1 .. 3 : i # j => << C, B, R >>[i] \cap << C, B, R >>[j] = {}
  BY Zenon DEF SpacesIntact, C, B, R
<1>4. /\ C \cap free = {} /\ B \cap free = {} /\ R \cap free = {}
      /\ C \cap B = {} /\ C \cap R = {} /\ B \cap R = {}
      /\ B \cap C = {} /\ R \cap C = {} /\ R \cap B = {}
  BY <1>1, <1>2, Zenon
<1> QED
  BY <1>4

\* What the invariant says of the end of a call.
LEMMA ReleasedAll == ExecInv => CallsReleaseAll
BY DEF ExecInv, BufferInv, CallsReleaseAll, Building, Retiring

\* The pages held are those of the two spaces.
LEMMA HeldPages ==
  /\ free \cup Held = Accounted(mem, free, cr3, Other)
  /\ (free \cup Held)' = Accounted(mem', free', cr3', Other')
<1>1. free \cup Held = Accounted(mem, free, cr3, Other)
  BY OneOther, NoSpace, Zenon DEF Held, Accounted
<1>2. \/ Building' = Other' /\ Retiring' = 0
      \/ Building' = 0 /\ Retiring' = Other'
  BY DEF Building, Retiring, Other, InLoad
<1>3. (free \cup Held)' = Accounted(mem', free', cr3', Other')
  BY <1>2, NoSpace, Zenon DEF Held, Accounted
<1> QED
  BY <1>1, <1>3, Zenon

\* destroy_address_space never frees what is still in use: whatever the images,
\* the sizes and where memory runs out, the space the CPU translates with, the one
\* load_image builds and the one about to be destroyed share no page with each
\* other or with the free list.
THEOREM SpacesStayApart == Spec => []SpacesIntact
<1>1. ExecInv /\ [Next]_vars => ExecInv'
  BY StepKeeps, Zenon DEF Keeps
<1> QED
  BY <1>1, InitExec, IntactSpaces, PTL DEF Spec

\* Every way out of sys_execve and launch_static gives the file's buffer and the
\* strings' back, and leaves no space half built or half retired.
THEOREM NothingHeldAfterACall == Spec => []CallsReleaseAll
<1>1. ExecInv /\ [Next]_vars => ExecInv'
  BY StepKeeps, Zenon DEF Keeps
<1> QED
  BY <1>1, InitExec, ReleasedAll, PTL DEF Spec

\* No step of an exec, a failed one's destroy_address_space included, loses a page
\* or makes one up: free or reachable from a root that will be destroyed.
THEOREM NoExecLosesAPage == Spec => NoPageLeaks
<1>1. ExecInv /\ [Next]_vars => ExecInv' /\ (free' \cup Held' = free \cup Held)
  BY StepKeeps, HeldPages, Zenon DEF Keeps, Steady
<1> QED
  BY <1>1, InitExec, PTL DEF Spec, NoPageLeaks
=============================================================================
