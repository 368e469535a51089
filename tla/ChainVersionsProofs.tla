-------------------------- MODULE ChainVersionsProofs --------------------------
(***************************************************************************)
(* Chains of one protocol version are alike, and none is stuck unless its  *)
(* own deadline passed: for every number of chains, every sequence of      *)
(* patches and deadlines, every facets and every artifact the verifier     *)
(* accepts.                                                                *)
(*                                                                         *)
(* Part 1, on Diamond alone.  Good(ds): the two maps and the list agree    *)
(* (it implies Consistent and is kept by each of the loops).  The loops of *)
(* diamondCut are recursive functions; their result is taken step by step  *)
(* from the sequence of results (Loops, Cuttings), by induction over the   *)
(* number of steps (UpTo).  Three results: a cut that does not revert      *)
(* keeps a diamond good and leads its selectors where it says              *)
(* (OneCutReroutes), the same cuts lead diamonds of the same routes to the *)
(* same routes (SameCutsSameRoutes), and what Removes followed by Adds     *)
(* lead to (RemovesThenAdds).                                              *)
(*                                                                         *)
(* Part 2, VersionsInv: the version of a live chain is the manager's or    *)
(* has a cut to a later version of that kind; both kinds have a deadline;  *)
(* a patch changes no facets; and a chain's upgrade transaction is in a    *)
(* batch only while a batch is in flight.                                  *)
(*                                                                         *)
(* Part 3, FacetsInv: only the cut that leads to v31 changes facets, it    *)
(* removes all a chain of an older version has and adds the expected       *)
(* facets, and a live chain's diamond is good and has the routes of its    *)
(* side of v31.                                                            *)
(***************************************************************************)
EXTENDS ChainVersions, WellFoundedInduction, TLAPS

(***************************************************************************)
(* Part 1: the diamond.                                                    *)
(***************************************************************************)

\* The types of a diamond's storage.
Infos == [facetAddress : Addresses \cup {Zero}, selectorPosition : Nat, isFreezable : BOOLEAN]

FacetData == [selectors : Seq(Selectors), facetPosition : Nat]

Diamonds ==
    [selectorToFacet : [Selectors -> Infos], facetToSelectors : [Addresses -> FacetData],
     facets : Seq(Addresses), isFrozen : BOOLEAN]

\* How the proofs read it: a selector's facet, a facet's selectors and its place.
At(ds, s) == ds.selectorToFacet[s]

List(ds, f) == ds.facetToSelectors[f].selectors

Place(ds, f) == ds.facetToSelectors[f].facetPosition

\* The parts of a diamond.
LEMMA Parts ==
    ASSUME NEW ds \in Diamonds
    PROVE  /\ \A s \in Selectors : /\ At(ds, s) \in Infos
                                   /\ At(ds, s).facetAddress \in Addresses \cup {Zero}
                                   /\ At(ds, s).selectorPosition \in Nat
                                   /\ At(ds, s).isFreezable \in BOOLEAN
           /\ \A f \in Addresses : List(ds, f) \in Seq(Selectors) /\ Place(ds, f) \in Nat
           /\ ds.facets \in Seq(Addresses)
<1>1. /\ ds.selectorToFacet \in [Selectors -> Infos] /\ ds.facetToSelectors \in [Addresses -> FacetData]
      /\ ds.facets \in Seq(Addresses)
  BY Zenon DEF Diamonds
<1>2. \A s \in Selectors : At(ds, s) \in Infos
  BY <1>1, Zenon DEF At
<1>3. \A x \in Infos : /\ x.facetAddress \in Addresses \cup {Zero} /\ x.selectorPosition \in Nat
                       /\ x.isFreezable \in BOOLEAN
  BY Zenon DEF Infos
<1>4. \A f \in Addresses : ds.facetToSelectors[f] \in FacetData
  BY <1>1, Zenon
<1>5. \A x \in FacetData : x.selectors \in Seq(Selectors) /\ x.facetPosition \in Nat
  BY Zenon DEF FacetData
<1>6. QED
  BY <1>1, <1>2, <1>3, <1>4, <1>5, Zenon DEF List, Place

\* The updates of a diamond, each with what it leaves alone in the lemmas below.
SetInfo(r, ds, s, info) == r = [ds EXCEPT !.selectorToFacet[s] = info]

SetFacetData(r, ds, f, d) == r = [ds EXCEPT !.facetToSelectors[f] = d]

SetList(r, ds, f, l) == r = [ds EXCEPT !.facetToSelectors[f].selectors = l]

SetPlace(r, ds, f, p) == r = [ds EXCEPT !.facetToSelectors[f].facetPosition = p]

SetFacets(r, ds, l) == r = [ds EXCEPT !.facets = l]

\* A selector's facet is set.
LEMMA InfoIsSet ==
    ASSUME NEW ds \in Diamonds, NEW s \in Selectors, NEW info \in Infos, NEW r, SetInfo(r, ds, s, info)
    PROVE  /\ r \in Diamonds /\ At(r, s) = info
           /\ \A t \in Selectors : t # s => At(r, t) = At(ds, t)
           /\ r.facetToSelectors = ds.facetToSelectors /\ r.facets = ds.facets
           /\ r.isFrozen = ds.isFrozen
  BY Zenon DEF Diamonds, At, SetInfo

\* A facet's data are set.
LEMMA FacetDataIsSet ==
    ASSUME NEW ds \in Diamonds, NEW f \in Addresses, NEW d \in FacetData, NEW r, SetFacetData(r, ds, f, d)
    PROVE  /\ r \in Diamonds /\ r.facetToSelectors[f] = d
           /\ \A g \in Addresses : g # f => r.facetToSelectors[g] = ds.facetToSelectors[g]
           /\ r.selectorToFacet = ds.selectorToFacet /\ r.facets = ds.facets
           /\ r.isFrozen = ds.isFrozen
  BY Zenon DEF Diamonds, SetFacetData

\* The list of facets is set.
LEMMA FacetsAreSet ==
    ASSUME NEW ds \in Diamonds, NEW l \in Seq(Addresses), NEW r, SetFacets(r, ds, l)
    PROVE  /\ r \in Diamonds /\ r.facets = l
           /\ r.facetToSelectors = ds.facetToSelectors
           /\ r.selectorToFacet = ds.selectorToFacet
           /\ r.isFrozen = ds.isFrozen
  BY Zenon DEF Diamonds, SetFacets

\* A facet's selectors are set.
LEMMA ListIsSet ==
    ASSUME NEW ds \in Diamonds, NEW f \in Addresses, NEW l \in Seq(Selectors), NEW r, SetList(r, ds, f, l)
    PROVE  /\ r \in Diamonds /\ List(r, f) = l
           /\ \A g \in Addresses : g # f => List(r, g) = List(ds, g)
           /\ \A g \in Addresses : Place(r, g) = Place(ds, g)
           /\ r.selectorToFacet = ds.selectorToFacet /\ r.facets = ds.facets
           /\ r.isFrozen = ds.isFrozen
<1>1. PICK d : d = [ds.facetToSelectors[f] EXCEPT !.selectors = l]
  BY Zenon
<1>2. ds.facetToSelectors[f] \in FacetData
  BY Zenon DEF Diamonds
<1>3. d \in FacetData /\ d.selectors = l /\ d.facetPosition = Place(ds, f)
  BY <1>1, <1>2, Zenon DEF FacetData, Place
<1>4. SetFacetData(r, ds, f, d)
  BY <1>1, Zenon DEF SetList, SetFacetData
<1>5. /\ r \in Diamonds /\ r.facetToSelectors[f] = d
      /\ \A g \in Addresses : g # f => r.facetToSelectors[g] = ds.facetToSelectors[g]
      /\ r.selectorToFacet = ds.selectorToFacet /\ r.facets = ds.facets
      /\ r.isFrozen = ds.isFrozen
  BY <1>3, <1>4, FacetDataIsSet
<1>6. \A g \in Addresses : g # f => List(r, g) = List(ds, g) /\ Place(r, g) = Place(ds, g)
  BY <1>5, Zenon DEF List, Place
<1>7. List(r, f) = d.selectors /\ Place(r, f) = d.facetPosition
  BY <1>5, Zenon DEF List, Place
<1>8. QED
  BY <1>3, <1>5, <1>6, <1>7, Zenon

\* A facet's place is set.
LEMMA PlaceIsSet ==
    ASSUME NEW ds \in Diamonds, NEW f \in Addresses, NEW p \in Nat, NEW r, SetPlace(r, ds, f, p)
    PROVE  /\ r \in Diamonds /\ Place(r, f) = p
           /\ \A g \in Addresses : g # f => Place(r, g) = Place(ds, g)
           /\ \A g \in Addresses : List(r, g) = List(ds, g)
           /\ r.selectorToFacet = ds.selectorToFacet /\ r.facets = ds.facets
           /\ r.isFrozen = ds.isFrozen
<1>1. PICK d : d = [ds.facetToSelectors[f] EXCEPT !.facetPosition = p]
  BY Zenon
<1>2. ds.facetToSelectors[f] \in FacetData
  BY Zenon DEF Diamonds
<1>3. d \in FacetData /\ d.facetPosition = p /\ d.selectors = List(ds, f)
  BY <1>1, <1>2, Zenon DEF FacetData, List
<1>4. SetFacetData(r, ds, f, d)
  BY <1>1, Zenon DEF SetPlace, SetFacetData
<1>5. /\ r \in Diamonds /\ r.facetToSelectors[f] = d
      /\ \A g \in Addresses : g # f => r.facetToSelectors[g] = ds.facetToSelectors[g]
      /\ r.selectorToFacet = ds.selectorToFacet /\ r.facets = ds.facets
      /\ r.isFrozen = ds.isFrozen
  BY <1>3, <1>4, FacetDataIsSet
<1>6. \A g \in Addresses : g # f => List(r, g) = List(ds, g) /\ Place(r, g) = Place(ds, g)
  BY <1>5, Zenon DEF List, Place
<1>7. List(r, f) = d.selectors /\ Place(r, f) = d.facetPosition
  BY <1>5, Zenon DEF List, Place
<1>8. QED
  BY <1>3, <1>5, <1>6, <1>7, Zenon

\* _saveFacetIfNew touches only the list of facets and the new facet's place.
LEMMA FacetIsSaved ==
    ASSUME NEW ds \in Diamonds, NEW f \in Addresses, NEW r, r = _saveFacetIfNew(ds, f)
    PROVE  /\ r \in Diamonds
           /\ r.selectorToFacet = ds.selectorToFacet /\ r.isFrozen = ds.isFrozen
           /\ \A g \in Addresses : List(r, g) = List(ds, g)
           /\ \A g \in Addresses : g # f => Place(r, g) = Place(ds, g)
           /\ List(ds, f) # <<>> => r = ds
           /\ List(ds, f) = <<>> => r.facets = Append(ds.facets, f) /\ Place(r, f) = Len(ds.facets)
<1>1. CASE List(ds, f) # <<>>
  <2>1. r = ds
    BY <1>1, Zenon DEF _saveFacetIfNew, List
  <2>2. QED
    BY <1>1, <2>1, Zenon
<1>2. CASE List(ds, f) = <<>>
  <2>1. r = [ds EXCEPT !.facetToSelectors[f].facetPosition = Len(ds.facets), !.facets = Append(@, f)]
    BY <1>2, Zenon DEF _saveFacetIfNew, List
  <2>2. PICK x : x = [ds EXCEPT !.facetToSelectors[f].facetPosition = Len(ds.facets)]
    BY Zenon
  <2>3. SetPlace(x, ds, f, Len(ds.facets))
    BY <2>2, Zenon DEF SetPlace
  <2>4. ds.facets \in Seq(Addresses) /\ Len(ds.facets) \in Nat /\ Append(ds.facets, f) \in Seq(Addresses)
    BY Parts
  <2>5. /\ x \in Diamonds /\ Place(x, f) = Len(ds.facets)
        /\ \A g \in Addresses : g # f => Place(x, g) = Place(ds, g)
        /\ \A g \in Addresses : List(x, g) = List(ds, g)
        /\ x.selectorToFacet = ds.selectorToFacet /\ x.facets = ds.facets
        /\ x.isFrozen = ds.isFrozen
    BY <2>3, <2>4, PlaceIsSet
  <2>6. r = [x EXCEPT !.facets = Append(ds.facets, f)]
    <3>1. r = [x EXCEPT !.facets = Append(x.facets, f)]
      BY <2>1, <2>2, Zenon
    <3>2. QED
      BY <2>5, <3>1, Zenon
  <2>7. SetFacets(r, x, Append(ds.facets, f))
    BY <2>6, Zenon DEF SetFacets
  <2>8. /\ r \in Diamonds /\ r.facets = Append(ds.facets, f)
        /\ r.facetToSelectors = x.facetToSelectors
        /\ r.selectorToFacet = x.selectorToFacet
        /\ r.isFrozen = x.isFrozen
    <3>1. PICK l : l = Append(ds.facets, f)
      BY Zenon
    <3>2. l \in Seq(Addresses) /\ SetFacets(r, x, l)
      BY <2>4, <2>7, <3>1, Zenon
    <3>3. /\ r \in Diamonds /\ r.facets = l
          /\ r.facetToSelectors = x.facetToSelectors
          /\ r.selectorToFacet = x.selectorToFacet
          /\ r.isFrozen = x.isFrozen
      <4>1. x \in Diamonds
        BY <2>5, Zenon
      <4>2. QED
        BY <4>1, <3>2, FacetsAreSet
    <3>4. QED
      BY <3>1, <3>3, Zenon
  <2>9. \A g \in Addresses : List(r, g) = List(x, g) /\ Place(r, g) = Place(x, g)
    BY <2>8, Zenon DEF List, Place
  <2>10. QED
    BY <1>2, <2>5, <2>8, <2>9, Zenon
<1>3. QED
  BY <1>1, <1>2, Zenon

\* _addOneFunction appends the selector to the facet's list, or reverts when
\* the facet's selectors are not of the same freezability.
LEMMA FunctionIsAdded ==
    ASSUME NEW ds \in Diamonds, NEW f \in Addresses, NEW s \in Selectors, NEW b \in BOOLEAN
    PROVE  LET a == _addOneFunction(ds, f, s, b)
               l == List(ds, f)
           IN  /\ a.ok <=> l = <<>> \/ At(ds, l[1]).isFreezable = b
               /\ a.ok => /\ a.ds \in Diamonds
                          /\ At(a.ds, s) = [facetAddress |-> f, selectorPosition |-> Len(l), isFreezable |-> b]
                          /\ \A t \in Selectors : t # s => At(a.ds, t) = At(ds, t)
                          /\ List(a.ds, f) = Append(l, s)
                          /\ \A g \in Addresses : g # f => List(a.ds, g) = List(ds, g)
                          /\ \A g \in Addresses : Place(a.ds, g) = Place(ds, g)
                          /\ a.ds.facets = ds.facets /\ a.ds.isFrozen = ds.isFrozen
<1> DEFINE a == _addOneFunction(ds, f, s, b)
           l == List(ds, f)
           info == [facetAddress |-> f, selectorPosition |-> Len(l), isFreezable |-> b]
           y == [ds EXCEPT !.selectorToFacet[s] = info, !.facetToSelectors[f].selectors = Append(@, s)]
<1>1. a = IF l # <<>> /\ At(ds, l[1]).isFreezable # b THEN Reverted(ds) ELSE Done(y)
  BY Zenon DEF _addOneFunction, List, At
<1>2. Reverted(ds).ok = FALSE /\ Done(y).ok = TRUE /\ Done(y).ds = y
  BY Zenon DEF Reverted, Done
<1>3. l \in Seq(Selectors) /\ info \in Infos /\ Append(l, s) \in Seq(Selectors)
  <2>1. l \in Seq(Selectors)
    BY Parts, Zenon
  <2>2. Append(l, s) \in Seq(Selectors) /\ Len(l) \in Nat
    BY <2>1
  <2>3. QED
    BY <2>1, <2>2, Zenon DEF Infos
<1>4. PICK x : x = [ds EXCEPT !.selectorToFacet[s] = info]
  BY Zenon
<1>5. /\ x \in Diamonds /\ At(x, s) = info
      /\ \A t \in Selectors : t # s => At(x, t) = At(ds, t)
      /\ x.facetToSelectors = ds.facetToSelectors /\ x.facets = ds.facets
      /\ x.isFrozen = ds.isFrozen
  <2>1. SetInfo(x, ds, s, info)
    BY <1>4, Zenon DEF SetInfo
  <2> HIDE DEF info
  <2>2. QED
    BY <1>3, <2>1, InfoIsSet
<1>6. SetList(y, x, f, Append(l, s))
  <2>1. y = [x EXCEPT !.facetToSelectors[f].selectors = Append(x.facetToSelectors[f].selectors, s)]
    BY <1>4, Zenon
  <2>2. x.facetToSelectors[f].selectors = l
    BY <1>5, Zenon DEF List
  <2> HIDE DEF y
  <2>3. QED
    BY <2>1, <2>2, Zenon DEF SetList
<1>7. /\ y \in Diamonds /\ List(y, f) = Append(l, s)
      /\ \A g \in Addresses : g # f => List(y, g) = List(x, g)
      /\ \A g \in Addresses : Place(y, g) = Place(x, g)
      /\ y.selectorToFacet = x.selectorToFacet /\ y.facets = x.facets
      /\ y.isFrozen = x.isFrozen
  <2>1. PICK m : m = Append(l, s)
    BY Zenon
  <2> HIDE DEF y, l, info
  <2>2. m \in Seq(Selectors) /\ SetList(y, x, f, m)
    BY <1>3, <1>6, <2>1, Zenon
  <2>3. x \in Diamonds
    BY <1>5, Zenon
  <2>4. /\ y \in Diamonds /\ List(y, f) = m
        /\ \A g \in Addresses : g # f => List(y, g) = List(x, g)
        /\ \A g \in Addresses : Place(y, g) = Place(x, g)
        /\ y.selectorToFacet = x.selectorToFacet /\ y.facets = x.facets
        /\ y.isFrozen = x.isFrozen
    BY <2>2, <2>3, ListIsSet, ZenonT(40)
  <2>5. QED
    BY <2>1, <2>4, Zenon
<1>8. /\ \A g \in Addresses : List(x, g) = List(ds, g) /\ Place(x, g) = Place(ds, g)
      /\ \A t \in Selectors : At(y, t) = At(x, t)
  <2> HIDE DEF y
  <2> QED
    BY <1>5, <1>7, Zenon DEF List, Place, At
<1> HIDE DEF y, a, l
<1>9. a.ok <=> l = <<>> \/ At(ds, l[1]).isFreezable = b
  BY <1>1, <1>2, Zenon
<1>10. a.ok => a.ds = y
  BY <1>1, <1>2, Zenon
<1>11. ASSUME a.ok
       PROVE  /\ a.ds \in Diamonds
              /\ At(a.ds, s) = info
              /\ \A t \in Selectors : t # s => At(a.ds, t) = At(ds, t)
              /\ List(a.ds, f) = Append(l, s)
              /\ \A g \in Addresses : g # f => List(a.ds, g) = List(ds, g)
              /\ \A g \in Addresses : Place(a.ds, g) = Place(ds, g)
              /\ a.ds.facets = ds.facets /\ a.ds.isFrozen = ds.isFrozen
  <2> HIDE DEF info
  <2>1. a.ds = y
    BY <1>10, <1>11, Zenon
  <2>2. QED
    BY <1>5, <1>7, <1>8, <2>1, Zenon
<1>12. QED
  BY <1>9, <1>11, Zenon DEF a, l

\* The lists of selectors and the map from selectors to facets agree.
Mapping(ds) ==
    /\ \A f \in Addresses : \A i \in DOMAIN List(ds, f) :
          /\ At(ds, List(ds, f)[i]).facetAddress = f
          /\ At(ds, List(ds, f)[i]).selectorPosition = i - 1
    /\ \A f \in Addresses : \A i, j \in DOMAIN List(ds, f) :
          At(ds, List(ds, f)[i]).isFreezable = At(ds, List(ds, f)[j]).isFreezable
    /\ \A s \in Selectors : At(ds, s).facetAddress # Zero =>
          /\ At(ds, s).selectorPosition < Len(List(ds, At(ds, s).facetAddress))
          /\ List(ds, At(ds, s).facetAddress)[At(ds, s).selectorPosition + 1] = s
    /\ \A s \in Selectors : At(ds, s).facetAddress = Zero => At(ds, s) = NoFacet

\* The list of facets has the facets with selectors, at their places.
Listing(ds) ==
    /\ \A f \in Addresses : List(ds, f) # <<>> =>
          Place(ds, f) < Len(ds.facets) /\ ds.facets[Place(ds, f) + 1] = f
    /\ \A i \in DOMAIN ds.facets :
          List(ds, ds.facets[i]) # <<>> /\ Place(ds, ds.facets[i]) = i - 1

Good(ds) == ds \in Diamonds /\ Mapping(ds) /\ Listing(ds)

\* A good diamond is consistent.
LEMMA GoodIsConsistent ==
    ASSUME NEW ds, Good(ds)
    PROVE  Consistent(ds)
<1>1. ASSUME NEW f \in Addresses
      PROVE  LET list == ds.facetToSelectors[f].selectors
             IN  /\ \A i \in DOMAIN list :
                      /\ ds.selectorToFacet[list[i]].facetAddress = f
                      /\ ds.selectorToFacet[list[i]].selectorPosition = i - 1
                      /\ ds.selectorToFacet[list[i]].isFreezable = ds.selectorToFacet[list[1]].isFreezable
                 /\ list # <<>> => LET p == ds.facetToSelectors[f].facetPosition
                                   IN  p < Len(ds.facets) /\ ds.facets[p + 1] = f
  <2>1. List(ds, f) \in Seq(Selectors)
    BY Parts, Zenon DEF Good
  <2>2. \A i \in DOMAIN List(ds, f) : 1 \in DOMAIN List(ds, f)
    BY <2>1
  <2>3. \A i \in DOMAIN List(ds, f) :
           /\ At(ds, List(ds, f)[i]).facetAddress = f
           /\ At(ds, List(ds, f)[i]).selectorPosition = i - 1
           /\ At(ds, List(ds, f)[i]).isFreezable = At(ds, List(ds, f)[1]).isFreezable
    BY <2>2, Zenon DEF Good, Mapping
  <2>4. List(ds, f) # <<>> => Place(ds, f) < Len(ds.facets) /\ ds.facets[Place(ds, f) + 1] = f
    BY Zenon DEF Good, Listing
  <2>5. QED
    BY <2>3, <2>4, Zenon DEF At, List, Place
<1>2. \A i \in DOMAIN ds.facets :
         LET f == ds.facets[i]
         IN  ds.facetToSelectors[f].selectors # <<>> /\ ds.facetToSelectors[f].facetPosition = i - 1
  BY Zenon DEF Good, Listing, List, Place
<1>3. \A s \in Selectors : LET info == ds.selectorToFacet[s]
                           IN  info.facetAddress # Zero =>
                                 LET list == ds.facetToSelectors[info.facetAddress].selectors
                                 IN  /\ info.selectorPosition < Len(list)
                                     /\ list[info.selectorPosition + 1] = s
  BY Zenon DEF Good, Mapping, At, List
<1>4. QED
  BY <1>1, <1>2, <1>3, Zenon DEF Consistent

\* A selector that was not mapped is appended to a facet's list.
LEMMA MappingWithOneMore ==
    ASSUME NEW ds \in Diamonds, NEW r \in Diamonds, Mapping(ds),
           NEW f \in Addresses, NEW s \in Selectors, NEW b \in BOOLEAN,
           At(ds, s).facetAddress = Zero,
           List(ds, f) = <<>> \/ At(ds, List(ds, f)[1]).isFreezable = b,
           At(r, s) = [facetAddress |-> f, selectorPosition |-> Len(List(ds, f)), isFreezable |-> b],
           \A t \in Selectors : t # s => At(r, t) = At(ds, t),
           List(r, f) = Append(List(ds, f), s),
           \A g \in Addresses : g # f => List(r, g) = List(ds, g)
    PROVE  Mapping(r)
<1> DEFINE l == List(ds, f)
           n == Len(l)
<1>1. /\ l \in Seq(Selectors) /\ n \in Nat
      /\ \A g \in Addresses : List(ds, g) \in Seq(Selectors)
  BY Parts
<1>2. /\ At(r, s).facetAddress = f /\ At(r, s).selectorPosition = n /\ At(r, s).isFreezable = b
  OBVIOUS
<1>3. /\ List(r, f) \in Seq(Selectors) /\ Len(List(r, f)) = n + 1
      /\ \A i \in 1 .. n : List(r, f)[i] = l[i]
      /\ List(r, f)[n + 1] = s
  BY <1>1
<1>z. \A g \in Addresses : g # Zero
  BY ZeroIsNoFacet, Zenon
<1>4. \A g \in Addresses : \A i \in DOMAIN List(ds, g) :
         /\ List(ds, g)[i] \in Selectors /\ List(ds, g)[i] # s
         /\ At(r, List(ds, g)[i]) = At(ds, List(ds, g)[i])
         /\ At(ds, List(ds, g)[i]).facetAddress = g
         /\ At(ds, List(ds, g)[i]).selectorPosition = i - 1
  <2> SUFFICES ASSUME NEW g \in Addresses, NEW i \in DOMAIN List(ds, g)
               PROVE  /\ List(ds, g)[i] \in Selectors /\ List(ds, g)[i] # s
                      /\ At(r, List(ds, g)[i]) = At(ds, List(ds, g)[i])
                      /\ At(ds, List(ds, g)[i]).facetAddress = g
                      /\ At(ds, List(ds, g)[i]).selectorPosition = i - 1
    BY Zenon
  <2>1. List(ds, g)[i] \in Selectors
    BY <1>1
  <2>2. /\ At(ds, List(ds, g)[i]).facetAddress = g
        /\ At(ds, List(ds, g)[i]).selectorPosition = i - 1
    BY Zenon DEF Mapping
  <2>3. List(ds, g)[i] # s
    BY <1>z, <2>2, Zenon
  <2>4. QED
    BY <2>1, <2>2, <2>3, Zenon
<1>5. DOMAIN l = 1 .. n /\ DOMAIN List(r, f) = 1 .. n + 1
  BY <1>1, <1>3
<1> HIDE DEF l, n
<1>6. ASSUME NEW g \in Addresses, NEW i \in DOMAIN List(r, g)
      PROVE  /\ At(r, List(r, g)[i]).facetAddress = g
             /\ At(r, List(r, g)[i]).selectorPosition = i - 1
  <2>1. CASE g # f
    BY <1>4, <2>1
  <2>2. CASE g = f /\ i \in 1 .. n
    <3>1. List(r, g)[i] = l[i] /\ i \in DOMAIN l
      BY <1>3, <1>5, <2>2, Zenon
    <3>2. QED
      BY <1>4, <2>2, <3>1 DEF l
  <2>3. CASE g = f /\ i = n + 1
    <3>1. List(r, g)[i] = s /\ i - 1 = n
      BY <1>1, <1>3, <2>3
    <3>2. QED
      BY <1>2, <2>3, <3>1, Zenon
  <2>4. i \in 1 .. n \/ i = n + 1 \/ g # f
    BY <1>1, <1>5
  <2>5. QED
    BY <2>1, <2>2, <2>3, <2>4, Zenon
<1>7. ASSUME NEW g \in Addresses, NEW i \in DOMAIN List(r, g), NEW j \in DOMAIN List(r, g)
      PROVE  At(r, List(r, g)[i]).isFreezable = At(r, List(r, g)[j]).isFreezable
  <2>1. CASE g # f
    <3>1. List(r, g) = List(ds, g)
      BY <2>1, Zenon
    <3>2. At(ds, List(ds, g)[i]).isFreezable = At(ds, List(ds, g)[j]).isFreezable
      BY <3>1 DEF Mapping
    <3>3. QED
      BY <1>4, <3>1, <3>2
  <2>2. CASE g = f
    <3>1. ASSUME NEW k \in 1 .. n + 1
          PROVE  At(r, List(r, f)[k]).isFreezable = b
      <4>1. CASE k \in 1 .. n
        <5>1. k \in DOMAIN l /\ 1 \in DOMAIN l /\ List(r, f)[k] = l[k] /\ l # <<>>
          BY <1>1, <1>3, <1>5, <4>1
        <5>2. At(ds, l[k]).isFreezable = At(ds, l[1]).isFreezable
          BY <5>1 DEF Mapping, l
        <5>3. At(ds, l[1]).isFreezable = b
          BY <5>1, Zenon DEF l
        <5>4. At(r, l[k]) = At(ds, l[k])
          BY <1>4, <5>1, Zenon DEF l
        <5>5. QED
          BY <5>1, <5>2, <5>3, <5>4, Zenon
      <4>2. CASE k = n + 1
        BY <1>2, <1>3, <4>2, Zenon
      <4>3. k \in 1 .. n \/ k = n + 1
        BY <1>1
      <4>4. QED
        BY <4>1, <4>2, <4>3, Zenon
    <3>2. QED
      BY <1>5, <2>2, <3>1, Zenon
  <2>3. QED
    BY <2>1, <2>2, Zenon
<1>8. ASSUME NEW t \in Selectors, At(r, t).facetAddress # Zero
      PROVE  /\ At(r, t).selectorPosition < Len(List(r, At(r, t).facetAddress))
             /\ List(r, At(r, t).facetAddress)[At(r, t).selectorPosition + 1] = t
  <2>1. CASE t = s
    BY <1>1, <1>2, <1>3, <2>1, SMTT(30)
  <2>2. CASE t # s
    <3> DEFINE g == At(ds, t).facetAddress
               p == At(ds, t).selectorPosition
    <3>1. /\ At(r, t) = At(ds, t) /\ g \in Addresses /\ p \in Nat
          /\ p < Len(List(ds, g)) /\ List(ds, g)[p + 1] = t
      BY <1>8, <2>2, Parts DEF Mapping
    <3>2. CASE g # f
      BY <3>1, <3>2, Zenon
    <3>3. CASE g = f
      <4>1. p < n /\ l[p + 1] = t /\ p + 1 \in 1 .. n
        BY <1>1, <3>1, <3>3, SMTT(30) DEF l, n
      <4>2. List(r, f)[p + 1] = t /\ p < Len(List(r, f))
        BY <1>1, <1>3, <3>1, <4>1, SMTT(30)
      <4>3. QED
        BY <3>1, <3>3, <4>2, Zenon
    <3>4. QED
      BY <3>2, <3>3, Zenon
  <2>3. QED
    BY <2>1, <2>2, Zenon
<1>9. ASSUME NEW t \in Selectors, At(r, t).facetAddress = Zero
      PROVE  At(r, t) = NoFacet
  <2>1. t # s
    BY <1>2, <1>9, <1>z, Zenon
  <2>2. QED
    BY <1>9, <2>1, Zenon DEF Mapping
<1>10. QED
  BY <1>6, <1>7, <1>8, <1>9, Zenon DEF Mapping

\* The list of facets while the selectors of f are being added: f is listed
\* whether it has selectors yet or not.
Kept(ds, f) ==
    /\ \A g \in Addresses : List(ds, g) # <<>> \/ g = f =>
          Place(ds, g) < Len(ds.facets) /\ ds.facets[Place(ds, g) + 1] = g
    /\ \A i \in DOMAIN ds.facets :
          /\ List(ds, ds.facets[i]) # <<>> \/ ds.facets[i] = f
          /\ Place(ds, ds.facets[i]) = i - 1

\* The mapping depends on the selectors' facets and the facets' lists only.
LEMMA SameMapping ==
    ASSUME NEW ds \in Diamonds, Mapping(ds), NEW r, r.selectorToFacet = ds.selectorToFacet,
           \A g \in Addresses : List(r, g) = List(ds, g)
    PROVE  Mapping(r)
<1>1. \A t : At(r, t) = At(ds, t)
  BY Zenon DEF At
<1>2. \A s \in Selectors : At(ds, s).facetAddress # Zero => At(ds, s).facetAddress \in Addresses
  BY Parts, Zenon
<1>3. \A s \in Selectors : At(ds, s).facetAddress # Zero =>
         List(r, At(ds, s).facetAddress) = List(ds, At(ds, s).facetAddress)
  BY <1>2, Zenon
<1>4. /\ \A g \in Addresses : \A i \in DOMAIN List(r, g) :
            /\ At(r, List(r, g)[i]).facetAddress = g
            /\ At(r, List(r, g)[i]).selectorPosition = i - 1
      /\ \A g \in Addresses : \A i, j \in DOMAIN List(r, g) :
            At(r, List(r, g)[i]).isFreezable = At(r, List(r, g)[j]).isFreezable
  BY <1>1 DEF Mapping
<1>5. \A s \in Selectors : At(r, s).facetAddress # Zero =>
            /\ At(r, s).selectorPosition < Len(List(r, At(r, s).facetAddress))
            /\ List(r, At(r, s).facetAddress)[At(r, s).selectorPosition + 1] = s
  BY <1>1, <1>3 DEF Mapping
<1>6. \A s \in Selectors : At(r, s).facetAddress = Zero => At(r, s) = NoFacet
  BY <1>1, Zenon DEF Mapping
<1>7. QED
  BY <1>4, <1>5, <1>6, Zenon DEF Mapping

\* A facet that is saved is listed.
LEMMA SavedFacetIsKept ==
    ASSUME NEW ds, Good(ds), NEW f \in Addresses, NEW r, r = _saveFacetIfNew(ds, f)
    PROVE  r \in Diamonds /\ Mapping(r) /\ Kept(r, f)
<1>d. ds \in Diamonds /\ Mapping(ds) /\ Listing(ds)
  BY Zenon DEF Good
<1>1. /\ r \in Diamonds
      /\ r.selectorToFacet = ds.selectorToFacet
      /\ \A g \in Addresses : List(r, g) = List(ds, g)
      /\ \A g \in Addresses : g # f => Place(r, g) = Place(ds, g)
      /\ List(ds, f) # <<>> => r = ds
      /\ List(ds, f) = <<>> => r.facets = Append(ds.facets, f) /\ Place(r, f) = Len(ds.facets)
  BY <1>d, FacetIsSaved
<1>2. Mapping(r)
  BY <1>d, <1>1, SameMapping, Zenon
<1>3. Kept(r, f)
  <2>1. CASE List(ds, f) # <<>>
    BY <1>d, <1>1, <2>1, Zenon DEF Kept, Listing
  <2>2. CASE List(ds, f) = <<>>
    <3> DEFINE n == Len(ds.facets)
    <3>1. /\ ds.facets \in Seq(Addresses) /\ n \in Nat /\ DOMAIN ds.facets = 1 .. n
          /\ \A i \in 1 .. n : ds.facets[i] \in Addresses
      BY <1>d, Parts, SMTT(30)
    <3>2. /\ Len(r.facets) = n + 1 /\ r.facets[n + 1] = f /\ DOMAIN r.facets = 1 .. n + 1
          /\ \A i \in 1 .. n : r.facets[i] = ds.facets[i]
      BY <1>1, <2>2, <3>1
    <3>3. Place(r, f) = n
      BY <1>1, <2>2, Zenon
    <3> HIDE DEF n
    <3>4. ASSUME NEW g \in Addresses, List(r, g) # <<>> \/ g = f
          PROVE  Place(r, g) < Len(r.facets) /\ r.facets[Place(r, g) + 1] = g
      <4>1. CASE g = f
        BY <3>1, <3>2, <3>3, <4>1
      <4>2. CASE g # f
        <5>1. Place(ds, g) < n /\ ds.facets[Place(ds, g) + 1] = g /\ Place(r, g) = Place(ds, g)
          BY <1>d, <1>1, <3>4, <4>2, Zenon DEF Listing, n
        <5>2. Place(ds, g) \in Nat
          BY <1>d, Parts, Zenon
        <5>3. Place(ds, g) + 1 \in 1 .. n /\ Place(ds, g) < n + 1
          BY <3>1, <5>1, <5>2
        <5>4. QED
          BY <3>2, <5>1, <5>3, Zenon
      <4>3. QED
        BY <4>1, <4>2, Zenon
    <3>5. ASSUME NEW i \in DOMAIN r.facets
          PROVE  /\ List(r, r.facets[i]) # <<>> \/ r.facets[i] = f
                 /\ Place(r, r.facets[i]) = i - 1
      <4>1. CASE i = n + 1
        BY <3>1, <3>2, <3>3, <4>1, SMTT(30)
      <4>2. CASE i \in 1 .. n
        <5>1. r.facets[i] = ds.facets[i] /\ ds.facets[i] \in Addresses /\ i \in DOMAIN ds.facets
          BY <3>1, <3>2, <4>2, Zenon
        <5>2. List(ds, ds.facets[i]) # <<>> /\ Place(ds, ds.facets[i]) = i - 1
          BY <1>d, <5>1, Zenon DEF Listing
        <5>3. ds.facets[i] # f
          BY <2>2, <5>2, Zenon
        <5>4. QED
          BY <1>1, <5>1, <5>2, <5>3, Zenon
      <4>3. i = n + 1 \/ i \in 1 .. n
        BY <3>1, <3>2
      <4>4. QED
        BY <4>1, <4>2, <4>3, Zenon
    <3>6. QED
      BY <3>4, <3>5, Zenon DEF Kept
  <2>3. QED
    BY <2>1, <2>2, Zenon
<1>4. QED
  BY <1>1, <1>2, <1>3, Zenon

\* A diamond in which a saved facet has a selector is good.
LEMMA KeptAndUsed ==
    ASSUME NEW ds \in Diamonds, Mapping(ds), NEW f \in Addresses, Kept(ds, f), List(ds, f) # <<>>
    PROVE  Good(ds)
  BY Zenon DEF Good, Listing, Kept

\* Where a selector leads.
Leads(ds, s, f, b) == At(ds, s).facetAddress = f /\ At(ds, s).isFreezable = b

\* What leaves every other selector, and the freeze, alone.
OnlyMoves(r, ds, s) ==
    /\ \A t \in Selectors : t # s =>
          At(r, t).facetAddress = At(ds, t).facetAddress /\ At(r, t).isFreezable = At(ds, t).isFreezable
    /\ r.isFrozen = ds.isFrozen

\* _addOneFunction of a selector without a facet keeps the diamond good.
LEMMA AddedFunction ==
    ASSUME NEW ds \in Diamonds, Mapping(ds), NEW f \in Addresses, Kept(ds, f),
           NEW s \in Selectors, NEW b \in BOOLEAN, At(ds, s).facetAddress = Zero,
           NEW a, a = _addOneFunction(ds, f, s, b), a.ok
    PROVE  Good(a.ds) /\ Kept(a.ds, f) /\ Leads(a.ds, s, f, b) /\ OnlyMoves(a.ds, ds, s)
<1>1. PICK r : r = a.ds
  BY Zenon
<1>2. /\ r \in Diamonds
      /\ List(ds, f) = <<>> \/ At(ds, List(ds, f)[1]).isFreezable = b
      /\ At(r, s) = [facetAddress |-> f, selectorPosition |-> Len(List(ds, f)), isFreezable |-> b]
      /\ \A t \in Selectors : t # s => At(r, t) = At(ds, t)
      /\ List(r, f) = Append(List(ds, f), s)
      /\ \A g \in Addresses : g # f => List(r, g) = List(ds, g)
      /\ \A g \in Addresses : Place(r, g) = Place(ds, g)
      /\ r.facets = ds.facets /\ r.isFrozen = ds.isFrozen
  BY <1>1, FunctionIsAdded, SMTT(30)
<1>3. Mapping(r)
  BY <1>2, MappingWithOneMore, Zenon
<1>4. List(r, f) # <<>>
  <2>1. List(ds, f) \in Seq(Selectors)
    BY Parts, Zenon
  <2>2. QED
    BY <1>2, <2>1
<1>5. Kept(r, f)
  <2>1. \A g \in Addresses : List(r, g) # <<>> \/ g = f => List(ds, g) # <<>> \/ g = f
    BY <1>2, Zenon
  <2>2. \A i \in DOMAIN ds.facets : ds.facets[i] \in Addresses
    BY Parts, SMTT(30)
  <2>3. \A i \in DOMAIN ds.facets : List(r, ds.facets[i]) # <<>> \/ ds.facets[i] = f
    BY <1>2, <2>2, Zenon DEF Kept
  <2>4. QED
    BY <1>2, <2>1, <2>2, <2>3, SMTT(30) DEF Kept
<1>6. Good(r)
  BY <1>2, <1>3, <1>4, <1>5, KeptAndUsed, Zenon
<1>7. Leads(r, s, f, b) /\ OnlyMoves(r, ds, s)
  BY <1>2, SMTT(30) DEF Leads, OnlyMoves
<1>8. QED
  BY <1>1, <1>5, <1>6, <1>7, Zenon

\* l after the element at position p (from 0) made way for the last one.
SwappedAndPopped(k, l, p) ==
    /\ Len(k) = Len(l) - 1
    /\ \A i \in 1 .. Len(l) - 1 : k[i] = IF i = p + 1 THEN l[Len(l)] ELSE l[i]

\* Moving the last element to position p and dropping the last.
LEMMA SwapAndPop ==
    ASSUME NEW S, NEW l \in Seq(S), NEW p \in Nat, p < Len(l), NEW m, NEW k,
           m = (IF p = Len(l) - 1 THEN l ELSE [l EXCEPT ![p + 1] = Last(l)]), k = Front(m)
    PROVE  k \in Seq(S) /\ m \in Seq(S) /\ SwappedAndPopped(k, l, p)
<1>1. Len(l) \in Nat /\ l[Len(l)] \in S /\ Last(l) = l[Len(l)]
  BY DEF Last
<1>2. m \in Seq(S) /\ Len(m) = Len(l)
  BY <1>1
<1>3. \A i \in 1 .. Len(l) - 1 : m[i] = IF i = p + 1 THEN l[Len(l)] ELSE l[i]
  BY <1>1
<1>4. /\ k = SubSeq(m, 1, Len(m) - 1)
      /\ Len(m) - 1 \in 1 - 1 .. Len(m) /\ 1 \in 1 .. Len(m) + 1
  BY <1>1, <1>2, SMTT(30) DEF Front
<1>5. k \in Seq(S) /\ Len(k) = Len(m) - 1 /\ \A i \in 1 .. Len(m) - 1 : k[i] = m[i]
  <2>1. PICK n : n = Len(m) - 1
    BY Zenon
  <2>2. n \in Nat /\ \A i \in 1 .. n : m[i] \in S
    BY <1>1, <1>2, <1>4, <2>1
  <2>3. /\ SubSeq(m, 1, n) \in Seq(S) /\ Len(SubSeq(m, 1, n)) = IF 1 <= n THEN n - 1 + 1 ELSE 0
        /\ \A i \in 1 .. n - 1 + 1 : SubSeq(m, 1, n)[i] = m[1 + i - 1]
    BY <2>2
  <2>4. Len(SubSeq(m, 1, n)) = n /\ \A i \in 1 .. n : SubSeq(m, 1, n)[i] = m[i]
    BY <2>2, <2>3
  <2>5. QED
    BY <1>4, <2>1, <2>3, <2>4, Zenon
<1>6. QED
  BY <1>2, <1>3, <1>5, Zenon DEF SwappedAndPopped

\* The two halves of _removeOneFunction: the last selector of the facet's list
\* l moves to position p, and the list's end and the selector's facet go.
MovesLast(moved, ds, f, p, l) ==
    moved = IF p = Len(l) - 1 THEN ds
            ELSE [ds EXCEPT !.facetToSelectors[f].selectors[p + 1] = Last(l),
                            !.selectorToFacet[Last(l)].selectorPosition = p]

Pops(popped, moved, f, s) ==
    popped = [moved EXCEPT !.facetToSelectors[f].selectors = Front(@), !.selectorToFacet[s] = NoFacet]

\* The move of _removeOneFunction: the last selector of the facet's list takes
\* position p.
LEMMA SelectorIsMoved ==
    ASSUME NEW ds \in Diamonds, NEW f \in Addresses, NEW p \in Nat, p < Len(List(ds, f)),
           NEW l, l = List(ds, f), NEW moved,
           MovesLast(moved, ds, f, p, l)
    PROVE  /\ moved \in Diamonds
           /\ List(moved, f) = (IF p = Len(l) - 1 THEN l ELSE [l EXCEPT ![p + 1] = Last(l)])
           /\ \A g \in Addresses : g # f => List(moved, g) = List(ds, g)
           /\ \A g \in Addresses : Place(moved, g) = Place(ds, g)
           /\ moved.facets = ds.facets /\ moved.isFrozen = ds.isFrozen
           /\ Last(l) \in Selectors
           /\ \A t \in Selectors : t # Last(l) => At(moved, t) = At(ds, t)
           /\ At(moved, Last(l)).facetAddress = At(ds, Last(l)).facetAddress
           /\ At(moved, Last(l)).isFreezable = At(ds, Last(l)).isFreezable
           /\ At(moved, Last(l)).selectorPosition = (IF p = Len(l) - 1 THEN At(ds, Last(l)).selectorPosition ELSE p)
<1>1. l \in Seq(Selectors) /\ Last(l) \in Selectors
  <2>1. l \in Seq(Selectors)
    BY Parts, Zenon
  <2>2. QED
    BY <2>1 DEF Last
<1>2. CASE p = Len(l) - 1
  BY <1>1, <1>2, Zenon DEF MovesLast
<1>3. CASE p # Len(l) - 1
  <2>1. PICK e : e = Last(l)
    BY Zenon
  <2>2. PICK m : m = [l EXCEPT ![p + 1] = e]
    BY Zenon
  <2>3. m \in Seq(Selectors)
    BY <1>1, <2>1, <2>2
  <2>4. PICK x : x = [ds EXCEPT !.facetToSelectors[f].selectors[p + 1] = e]
    BY Zenon
  <2>5. SetList(x, ds, f, m)
    BY <2>2, <2>4, Zenon DEF SetList, List
  <2>6. /\ x \in Diamonds /\ List(x, f) = m
        /\ \A g \in Addresses : g # f => List(x, g) = List(ds, g)
        /\ \A g \in Addresses : Place(x, g) = Place(ds, g)
        /\ x.selectorToFacet = ds.selectorToFacet /\ x.facets = ds.facets
        /\ x.isFrozen = ds.isFrozen
    BY <2>3, <2>5, ListIsSet
  <2>7. moved = [x EXCEPT !.selectorToFacet[e].selectorPosition = p]
    BY <1>3, <2>1, <2>4, Zenon DEF MovesLast
  <2>8. PICK info : info = [At(ds, e) EXCEPT !.selectorPosition = p]
    BY Zenon
  <2>9. At(ds, e) \in Infos
    BY <1>1, <2>1, Parts, Zenon
  <2>10. /\ info \in Infos /\ info.selectorPosition = p
         /\ info.facetAddress = At(ds, e).facetAddress /\ info.isFreezable = At(ds, e).isFreezable
    BY <2>8, <2>9, Zenon DEF Infos
  <2>11. SetInfo(moved, x, e, info)
    BY <2>6, <2>7, <2>8, Zenon DEF SetInfo, At
  <2>12. /\ moved \in Diamonds /\ At(moved, e) = info
         /\ \A t \in Selectors : t # e => At(moved, t) = At(x, t)
         /\ moved.facetToSelectors = x.facetToSelectors /\ moved.facets = x.facets
         /\ moved.isFrozen = x.isFrozen
    <3>1. e \in Selectors /\ x \in Diamonds
      BY <1>1, <2>1, <2>6, Zenon
    <3>2. QED
      BY <2>10, <2>11, <3>1, InfoIsSet
  <2>13. \A t : At(x, t) = At(ds, t)
    BY <2>6, Zenon DEF At
  <2>14. \A g : List(moved, g) = List(x, g) /\ Place(moved, g) = Place(x, g)
    BY <2>12, Zenon DEF List, Place
  <2>15. /\ moved \in Diamonds
         /\ List(moved, f) = m
         /\ \A g \in Addresses : g # f => List(moved, g) = List(ds, g)
         /\ \A g \in Addresses : Place(moved, g) = Place(ds, g)
         /\ moved.facets = ds.facets /\ moved.isFrozen = ds.isFrozen
         /\ \A t \in Selectors : t # e => At(moved, t) = At(ds, t)
    BY <2>6, <2>12, <2>13, <2>14, Zenon
  <2>16. /\ At(moved, e).facetAddress = At(ds, e).facetAddress
         /\ At(moved, e).isFreezable = At(ds, e).isFreezable
         /\ At(moved, e).selectorPosition = p
    BY <2>10, <2>12, Zenon
  <2>17. QED
    BY <1>1, <1>3, <2>1, <2>2, <2>15, <2>16, Zenon
<1>4. QED
  BY <1>2, <1>3, Zenon

\* _removeOneFunction before it looks at the facet: the selector is unmapped
\* and its facet's list has the last selector in its place.
LEMMA FunctionIsPopped ==
    ASSUME NEW ds \in Diamonds, NEW f \in Addresses, NEW s \in Selectors, NEW p \in Nat,
           p < Len(List(ds, f)), List(ds, f)[p + 1] = s,
           \A i, j \in DOMAIN List(ds, f) : List(ds, f)[i] = List(ds, f)[j] => i = j,
           NEW l, l = List(ds, f), NEW moved, NEW popped,
           MovesLast(moved, ds, f, p, l),
           Pops(popped, moved, f, s)
    PROVE  /\ popped \in Diamonds
           /\ List(popped, f) \in Seq(Selectors) /\ SwappedAndPopped(List(popped, f), l, p)
           /\ \A g \in Addresses : g # f => List(popped, g) = List(ds, g)
           /\ \A g \in Addresses : Place(popped, g) = Place(ds, g)
           /\ popped.facets = ds.facets /\ popped.isFrozen = ds.isFrozen
           /\ At(popped, s) = NoFacet
           /\ \A t \in Selectors : t # s =>
                 /\ At(popped, t).facetAddress = At(ds, t).facetAddress
                 /\ At(popped, t).isFreezable = At(ds, t).isFreezable
                 /\ t # l[Len(l)] => At(popped, t) = At(ds, t)
           /\ l[Len(l)] # s => At(popped, l[Len(l)]).selectorPosition = p
<1>1. l \in Seq(Selectors) /\ Last(l) = l[Len(l)]
  BY Parts, Zenon DEF Last
<1>2. PICK m : m = (IF p = Len(l) - 1 THEN l ELSE [l EXCEPT ![p + 1] = Last(l)])
  BY Zenon
<1>3. PICK e : e = l[Len(l)]
  BY Zenon
<1>4. /\ moved \in Diamonds /\ List(moved, f) = m
      /\ \A g \in Addresses : g # f => List(moved, g) = List(ds, g)
      /\ \A g \in Addresses : Place(moved, g) = Place(ds, g)
      /\ moved.facets = ds.facets /\ moved.isFrozen = ds.isFrozen
      /\ e \in Selectors
      /\ \A t \in Selectors : t # e => At(moved, t) = At(ds, t)
      /\ At(moved, e).facetAddress = At(ds, e).facetAddress
      /\ At(moved, e).isFreezable = At(ds, e).isFreezable
      /\ p # Len(l) - 1 => At(moved, e).selectorPosition = p
  <2>1. /\ moved \in Diamonds
        /\ List(moved, f) = (IF p = Len(l) - 1 THEN l ELSE [l EXCEPT ![p + 1] = Last(l)])
        /\ \A g \in Addresses : g # f => List(moved, g) = List(ds, g)
        /\ \A g \in Addresses : Place(moved, g) = Place(ds, g)
        /\ moved.facets = ds.facets /\ moved.isFrozen = ds.isFrozen
        /\ Last(l) \in Selectors
        /\ \A t \in Selectors : t # Last(l) => At(moved, t) = At(ds, t)
        /\ At(moved, Last(l)).facetAddress = At(ds, Last(l)).facetAddress
        /\ At(moved, Last(l)).isFreezable = At(ds, Last(l)).isFreezable
        /\ At(moved, Last(l)).selectorPosition = (IF p = Len(l) - 1 THEN At(ds, Last(l)).selectorPosition ELSE p)
    BY SelectorIsMoved
  <2>2. QED
    BY <1>1, <1>2, <1>3, <2>1, Zenon
<1>5. p # Len(l) - 1 <=> e # s
  <2>1. Len(l) \in Nat /\ Len(l) \in DOMAIN l /\ p + 1 \in DOMAIN l
    BY <1>1
  <2>2. e = s => Len(l) = p + 1
    BY <1>3, <2>1, Zenon
  <2>3. p = Len(l) - 1 => p + 1 = Len(l)
    BY <2>1
  <2>4. QED
    BY <1>3, <2>1, <2>2, <2>3
<1>6. PICK k : k = Front(m)
  BY Zenon
<1>7. k \in Seq(Selectors) /\ SwappedAndPopped(k, l, p)
  BY <1>1, <1>2, <1>6, SwapAndPop, Zenon
<1>8. PICK x : x = [moved EXCEPT !.facetToSelectors[f].selectors = Front(@)]
  BY Zenon
<1>9. SetList(x, moved, f, k)
  BY <1>4, <1>6, <1>8, Zenon DEF SetList, List
<1>10. /\ x \in Diamonds /\ List(x, f) = k
       /\ \A g \in Addresses : g # f => List(x, g) = List(moved, g)
       /\ \A g \in Addresses : Place(x, g) = Place(moved, g)
       /\ x.selectorToFacet = moved.selectorToFacet /\ x.facets = moved.facets
       /\ x.isFrozen = moved.isFrozen
  <2>1. moved \in Diamonds
    BY <1>4, Zenon
  <2>2. QED
    BY <1>7, <1>9, <2>1, ListIsSet
<1>11. popped = [x EXCEPT !.selectorToFacet[s] = NoFacet]
  BY <1>8, Zenon DEF Pops
<1>12. SetInfo(popped, x, s, NoFacet) /\ NoFacet \in Infos
  BY <1>11, Zenon DEF SetInfo, NoFacet, Infos
<1>13. /\ popped \in Diamonds /\ At(popped, s) = NoFacet
       /\ \A t \in Selectors : t # s => At(popped, t) = At(x, t)
       /\ popped.facetToSelectors = x.facetToSelectors /\ popped.facets = x.facets
       /\ popped.isFrozen = x.isFrozen
  <2>1. x \in Diamonds
    BY <1>10, Zenon
  <2>2. PICK info : info = NoFacet
    BY Zenon
  <2>3. info \in Infos /\ SetInfo(popped, x, s, info)
    BY <1>12, <2>2, Zenon
  <2>4. /\ popped \in Diamonds /\ At(popped, s) = info
        /\ \A t \in Selectors : t # s => At(popped, t) = At(x, t)
        /\ popped.facetToSelectors = x.facetToSelectors /\ popped.facets = x.facets
        /\ popped.isFrozen = x.isFrozen
    BY <2>1, <2>3, InfoIsSet, SMTT(30)
  <2>5. QED
    BY <2>2, <2>4, Zenon
<1>14. \A t : At(x, t) = At(moved, t)
  BY <1>10, Zenon DEF At
<1>15. \A g : List(popped, g) = List(x, g) /\ Place(popped, g) = Place(x, g)
  BY <1>13, Zenon DEF List, Place
<1>16. /\ List(popped, f) = k
       /\ \A g \in Addresses : g # f => List(popped, g) = List(ds, g)
       /\ \A g \in Addresses : Place(popped, g) = Place(ds, g)
       /\ popped.facets = ds.facets /\ popped.isFrozen = ds.isFrozen
  BY <1>4, <1>10, <1>13, <1>15, Zenon
<1>17. \A t \in Selectors : t # s =>
          /\ At(popped, t).facetAddress = At(ds, t).facetAddress
          /\ At(popped, t).isFreezable = At(ds, t).isFreezable
          /\ t # e => At(popped, t) = At(ds, t)
  BY <1>4, <1>13, <1>14, Zenon
<1>18. e # s => At(popped, e).selectorPosition = p
  BY <1>4, <1>5, <1>13, <1>14, Zenon
<1>19. QED
  BY <1>3, <1>7, <1>13, <1>16, <1>17, <1>18, Zenon

\* A selector of a facet's list makes way for the list's last selector.
LEMMA MappingWithOneLess ==
    ASSUME NEW ds \in Diamonds, NEW r \in Diamonds, Mapping(ds),
           NEW s \in Selectors, NEW f \in Addresses, At(ds, s).facetAddress = f,
           NEW p, p = At(ds, s).selectorPosition,
           NEW l, l = List(ds, f), NEW k, k = List(r, f), SwappedAndPopped(k, l, p),
           \A g \in Addresses : g # f => List(r, g) = List(ds, g),
           At(r, s) = NoFacet,
           \A t \in Selectors : t # s =>
              /\ At(r, t).facetAddress = At(ds, t).facetAddress
              /\ At(r, t).isFreezable = At(ds, t).isFreezable
              /\ t # l[Len(l)] => At(r, t) = At(ds, t),
           l[Len(l)] # s => At(r, l[Len(l)]).selectorPosition = p
    PROVE  Mapping(r)
<1>1. PICK n : n = Len(l)
  BY Zenon
<1>2. PICK e : e = l[n]
  BY Zenon
<1>3. /\ l \in Seq(Selectors) /\ k \in Seq(Selectors) /\ p \in Nat /\ n \in Nat
      /\ \A g \in Addresses : List(ds, g) \in Seq(Selectors)
  BY <1>1, Parts, SMTT(30)
<1>4. p < n /\ l[p + 1] = s
  BY <1>1, ZeroIsNoFacet, Zenon DEF Mapping
<1>5. /\ DOMAIN l = 1 .. n /\ DOMAIN k = 1 .. n - 1 /\ Len(k) = n - 1
      /\ \A i \in 1 .. n - 1 : k[i] = IF i = p + 1 THEN e ELSE l[i]
      /\ \A i \in 1 .. n : l[i] \in Selectors
  BY <1>1, <1>2, <1>3, <1>4, SMTT(30) DEF SwappedAndPopped
<1>6. \A t \in Selectors : t # s =>
         /\ At(r, t).facetAddress = At(ds, t).facetAddress
         /\ At(r, t).isFreezable = At(ds, t).isFreezable
         /\ t # e => At(r, t) = At(ds, t)
  BY <1>1, <1>2, Zenon
<1>7. e # s => At(r, e).selectorPosition = p
  BY <1>1, <1>2, Zenon
<1>8. \A g \in Addresses : \A i \in DOMAIN List(ds, g) :
         /\ List(ds, g)[i] \in Selectors
         /\ At(ds, List(ds, g)[i]).facetAddress = g
         /\ At(ds, List(ds, g)[i]).selectorPosition = i - 1
  BY <1>3, SMTT(30) DEF Mapping
<1>9. \A i \in 1 .. n : /\ At(ds, l[i]).facetAddress = f
                        /\ At(ds, l[i]).selectorPosition = i - 1
  BY <1>5, <1>8, Zenon
<1>10. \A i \in 1 .. n : (l[i] = s => i = p + 1) /\ (l[i] = e => i = n)
  <2>1. n \in 1 .. n /\ At(ds, e).selectorPosition = n - 1
    BY <1>2, <1>3, <1>4, <1>9
  <2>2. ASSUME NEW i \in 1 .. n
        PROVE  (l[i] = s => i = p + 1) /\ (l[i] = e => i = n)
    <3>1. At(ds, l[i]).selectorPosition = i - 1
      BY <1>9, Zenon
    <3>2. l[i] = s => i - 1 = p
      BY <3>1, Zenon
    <3>3. l[i] = e => i - 1 = n - 1
      BY <2>1, <3>1, Zenon
    <3>4. QED
      BY <1>3, <3>2, <3>3
  <2>3. QED
    BY <2>2, Zenon
<1>z. NoFacet.facetAddress = Zero /\ \A g \in Addresses : g # Zero
  BY ZeroIsNoFacet, Zenon DEF NoFacet
\* The list of f, element by element.
<1>11. ASSUME NEW i \in 1 .. n - 1
       PROVE  /\ k[i] \in Selectors /\ k[i] # s
              /\ At(r, k[i]).facetAddress = f
              /\ At(r, k[i]).selectorPosition = i - 1
              /\ \E j \in 1 .. n : k[i] = l[j]
  <2>1. CASE i = p + 1
    <3>1. k[i] = e /\ n \in 1 .. n /\ e = l[n] /\ n # p + 1 /\ i - 1 = p
      BY <1>2, <1>3, <1>4, <1>5, <2>1, SMTT(30)
    <3>2. e # s /\ e \in Selectors /\ At(ds, e).facetAddress = f
      BY <1>5, <1>9, <1>10, <3>1, SMTT(30)
    <3>3. At(r, e).facetAddress = f /\ At(r, e).selectorPosition = p
      BY <1>6, <1>7, <3>2, Zenon
    <3>4. QED
      BY <3>1, <3>2, <3>3, Zenon
  <2>2. CASE i # p + 1
    <3>1. k[i] = l[i] /\ i \in 1 .. n /\ i # n
      BY <1>3, <1>5, <2>2, SMTT(30)
    <3>2. l[i] \in Selectors /\ l[i] # s /\ l[i] # e
      BY <1>5, <1>10, <2>2, <3>1, SMTT(30)
    <3>3. At(r, l[i]) = At(ds, l[i])
      BY <1>6, <3>2, Zenon
    <3>4. QED
      BY <1>9, <3>1, <3>2, <3>3, SMTT(30)
  <2>3. QED
    BY <2>1, <2>2, Zenon
\* The other lists.
<1>12. ASSUME NEW g \in Addresses, g # f, NEW i \in DOMAIN List(r, g)
       PROVE  /\ List(r, g) = List(ds, g)
              /\ At(r, List(r, g)[i]) = At(ds, List(r, g)[i])
  <2>1. List(r, g) = List(ds, g)
    BY <1>12, Zenon
  <2>2. List(ds, g)[i] \in Selectors /\ At(ds, List(ds, g)[i]).facetAddress = g
    BY <1>8, <2>1, Zenon
  <2>3. n \in 1 .. n /\ At(ds, e).facetAddress = f
    BY <1>2, <1>3, <1>4, <1>9, SMTT(30)
  <2>4. List(ds, g)[i] # s /\ List(ds, g)[i] # e
    BY <1>12, <2>2, <2>3, Zenon
  <2>5. QED
    BY <1>6, <2>1, <2>2, <2>4, SMTT(30)
<1>13. ASSUME NEW g \in Addresses, NEW i \in DOMAIN List(r, g)
       PROVE  /\ At(r, List(r, g)[i]).facetAddress = g
              /\ At(r, List(r, g)[i]).selectorPosition = i - 1
  <2>1. CASE g = f
    BY <1>5, <1>11, <2>1, Zenon
  <2>2. CASE g # f
    BY <1>8, <1>12, <2>2, SMTT(30)
  <2>3. QED
    BY <2>1, <2>2, Zenon
<1>14. ASSUME NEW g \in Addresses, NEW i \in DOMAIN List(r, g), NEW j \in DOMAIN List(r, g)
       PROVE  At(r, List(r, g)[i]).isFreezable = At(r, List(r, g)[j]).isFreezable
  <2>1. CASE g = f
    <3>1. \A x, y \in 1 .. n : At(ds, l[x]).isFreezable = At(ds, l[y]).isFreezable
      <4>1. \A x, y \in DOMAIN List(ds, f) :
               At(ds, List(ds, f)[x]).isFreezable = At(ds, List(ds, f)[y]).isFreezable
        BY Zenon DEF Mapping
      <4>2. QED
        BY <1>5, <4>1
    <3>2. PICK x \in 1 .. n : k[i] = l[x] /\ k[i] \in Selectors /\ k[i] # s
      BY <1>5, <1>11, <2>1, SMTT(30)
    <3>3. PICK y \in 1 .. n : k[j] = l[y] /\ k[j] \in Selectors /\ k[j] # s
      BY <1>5, <1>11, <2>1, SMTT(30)
    <3>4. /\ At(r, k[i]).isFreezable = At(ds, l[x]).isFreezable
          /\ At(r, k[j]).isFreezable = At(ds, l[y]).isFreezable
      BY <1>6, <3>2, <3>3, SMTT(30)
    <3>5. QED
      BY <2>1, <3>1, <3>4, SMTT(30)
  <2>2. CASE g # f
    <3>1. At(ds, List(ds, g)[i]).isFreezable = At(ds, List(ds, g)[j]).isFreezable
      BY <1>12, <2>2, SMTT(30) DEF Mapping
    <3>2. QED
      BY <1>12, <2>2, <3>1, SMTT(30)
  <2>3. QED
    BY <2>1, <2>2, Zenon
<1>15. ASSUME NEW t \in Selectors, At(r, t).facetAddress # Zero
       PROVE  /\ At(r, t).selectorPosition < Len(List(r, At(r, t).facetAddress))
              /\ List(r, At(r, t).facetAddress)[At(r, t).selectorPosition + 1] = t
  <2>1. t # s
    BY <1>15, <1>z, Zenon
  <2>2. PICK g : g = At(ds, t).facetAddress
    BY Zenon
  <2>3. PICK q : q = At(ds, t).selectorPosition
    BY Zenon
  <2>4. At(r, t).facetAddress = g /\ g # Zero
    BY <1>6, <1>15, <2>1, <2>2, SMTT(30)
  <2>5. g \in Addresses /\ q \in Nat
    BY <2>2, <2>3, <2>4, Parts, SMTT(30)
  <2>6. q < Len(List(ds, g)) /\ List(ds, g)[q + 1] = t
    BY <2>2, <2>3, <2>4, SMTT(30) DEF Mapping
  <2>7. CASE g # f
    <3>1. n \in 1 .. n /\ At(ds, e).facetAddress = f
      BY <1>2, <1>3, <1>4, <1>9, SMTT(30)
    <3>2. At(r, t) = At(ds, t)
      BY <1>6, <2>1, <2>2, <2>7, <3>1, Zenon
    <3>3. QED
      BY <2>2, <2>3, <2>4, <2>5, <2>6, <2>7, <3>2, SMTT(30)
  <2>8. CASE g = f
    <3>1. q < n /\ q + 1 \in 1 .. n /\ l[q + 1] = t /\ q + 1 # p + 1
      BY <1>1, <1>3, <1>4, <2>1, <2>5, <2>6, <2>8, SMTT(30)
    <3>2. CASE t = e
      <4>1. q + 1 = n /\ p + 1 \in 1 .. n - 1 /\ p < n - 1
        BY <1>3, <1>4, <1>10, <2>5, <3>1, <3>2, SMTT(30)
      <4>2. k[p + 1] = e /\ At(r, t).selectorPosition = p
        BY <1>5, <1>7, <2>1, <3>2, <4>1, Zenon
      <4>3. QED
        BY <1>5, <2>4, <2>8, <3>2, <4>1, <4>2, SMTT(30)
    <3>3. CASE t # e
      <4>1. q + 1 # n
        BY <1>2, <3>1, <3>3, Zenon
      <4>2. q + 1 \in 1 .. n - 1 /\ q < n - 1
        BY <1>3, <2>5, <3>1, <4>1, SMTT(30)
      <4>3. k[q + 1] = t /\ At(r, t) = At(ds, t)
        BY <1>5, <1>6, <2>1, <3>1, <3>3, <4>2, Zenon
      <4>4. QED
        BY <1>5, <2>3, <2>4, <2>8, <4>2, <4>3, SMTT(30)
    <3>4. QED
      BY <3>2, <3>3, Zenon
  <2>9. QED
    BY <2>7, <2>8, Zenon
<1>16. ASSUME NEW t \in Selectors, At(r, t).facetAddress = Zero
       PROVE  At(r, t) = NoFacet
  <2>1. CASE t = s
    BY <2>1, Zenon
  <2>2. CASE t # s
    <3>1. At(ds, t).facetAddress = Zero /\ At(ds, t) = NoFacet
      BY <1>6, <1>16, <2>2, Zenon DEF Mapping
    <3>2. n \in 1 .. n /\ At(ds, e).facetAddress = f
      BY <1>2, <1>3, <1>4, <1>9
    <3>3. QED
      BY <1>6, <1>z, <2>2, <3>1, <3>2, SMTT(30)
  <2>3. QED
    BY <2>1, <2>2, Zenon
<1>17. QED
  BY <1>13, <1>14, <1>15, <1>16, Zenon DEF Mapping

\* The two halves of _removeFacet: the last facet moves to place q, and the
\* list's end goes.
MovesLastFacet(moved, ds, q) ==
    moved = IF q = Len(ds.facets) - 1 THEN ds
            ELSE [ds EXCEPT !.facets[q + 1] = Last(ds.facets),
                            !.facetToSelectors[Last(ds.facets)].facetPosition = q]

DropsLastFacet(r, moved) == r = [moved EXCEPT !.facets = Front(@)]

\* _removeFacet puts the last facet in the place of the one that goes.
LEMMA FacetIsRemoved ==
    ASSUME NEW ds \in Diamonds, NEW q \in Nat, q < Len(ds.facets), NEW moved, NEW r,
           MovesLastFacet(moved, ds, q), DropsLastFacet(r, moved)
    PROVE  /\ r \in Diamonds
           /\ r.selectorToFacet = ds.selectorToFacet /\ r.isFrozen = ds.isFrozen
           /\ \A g \in Addresses : List(r, g) = List(ds, g)
           /\ SwappedAndPopped(r.facets, ds.facets, q)
           /\ \A g \in Addresses : g # ds.facets[Len(ds.facets)] => Place(r, g) = Place(ds, g)
           /\ q # Len(ds.facets) - 1 => Place(r, ds.facets[Len(ds.facets)]) = q
<1>1. PICK l : l = ds.facets
  BY Zenon
<1>2. PICK h : h = l[Len(l)]
  BY Zenon
<1>3. l \in Seq(Addresses) /\ Last(l) = h /\ h \in Addresses
  <2>1. l \in Seq(Addresses)
    BY <1>1, Parts, Zenon
  <2>2. QED
    BY <1>1, <1>2, <2>1, SMTT(30) DEF Last
<1>4. PICK m : m = (IF q = Len(l) - 1 THEN l ELSE [l EXCEPT ![q + 1] = Last(l)])
  BY Zenon
<1>5. PICK k : k = Front(m)
  BY Zenon
<1>6. m \in Seq(Addresses) /\ k \in Seq(Addresses) /\ SwappedAndPopped(k, l, q)
  BY <1>1, <1>3, <1>4, <1>5, SwapAndPop, SMTT(30)
<1>7. /\ moved \in Diamonds
      /\ moved.selectorToFacet = ds.selectorToFacet /\ moved.isFrozen = ds.isFrozen
      /\ \A g \in Addresses : List(moved, g) = List(ds, g)
      /\ moved.facets = m
      /\ \A g \in Addresses : g # h => Place(moved, g) = Place(ds, g)
      /\ q # Len(l) - 1 => Place(moved, h) = q
  <2>1. CASE q = Len(l) - 1
    BY <1>1, <1>4, <2>1, Zenon DEF MovesLastFacet
  <2>2. CASE q # Len(l) - 1
    <3>1. m = [l EXCEPT ![q + 1] = h]
      BY <1>3, <1>4, <2>2, Zenon
    <3>2. PICK x : x = [ds EXCEPT !.facets[q + 1] = h]
      BY Zenon
    <3>3. SetFacets(x, ds, m)
      BY <1>1, <3>1, <3>2, Zenon DEF SetFacets
    <3>4. /\ x \in Diamonds /\ x.facets = m
          /\ x.facetToSelectors = ds.facetToSelectors
          /\ x.selectorToFacet = ds.selectorToFacet
          /\ x.isFrozen = ds.isFrozen
      BY <1>6, <3>3, FacetsAreSet
    <3>5. moved = [x EXCEPT !.facetToSelectors[h].facetPosition = q]
      BY <1>1, <1>3, <2>2, <3>2, Zenon DEF MovesLastFacet
    <3>6. SetPlace(moved, x, h, q)
      BY <3>5, Zenon DEF SetPlace
    <3>7. /\ moved \in Diamonds /\ Place(moved, h) = q
          /\ \A g \in Addresses : g # h => Place(moved, g) = Place(x, g)
          /\ \A g \in Addresses : List(moved, g) = List(x, g)
          /\ moved.selectorToFacet = x.selectorToFacet /\ moved.facets = x.facets
          /\ moved.isFrozen = x.isFrozen
      <4>1. x \in Diamonds /\ h \in Addresses
        BY <1>3, <3>4, Zenon
      <4>2. QED
        BY <3>6, <4>1, PlaceIsSet
    <3>8. \A g : List(x, g) = List(ds, g) /\ Place(x, g) = Place(ds, g)
      BY <3>4, Zenon DEF List, Place
    <3>9. QED
      BY <3>4, <3>7, <3>8, Zenon
  <2>3. QED
    BY <2>1, <2>2, Zenon
<1>8. SetFacets(r, moved, k)
  BY <1>5, <1>7, Zenon DEF SetFacets, DropsLastFacet
<1>9. /\ r \in Diamonds /\ r.facets = k
      /\ r.facetToSelectors = moved.facetToSelectors
      /\ r.selectorToFacet = moved.selectorToFacet
      /\ r.isFrozen = moved.isFrozen
  <2>1. moved \in Diamonds /\ k \in Seq(Addresses)
    BY <1>6, <1>7, Zenon
  <2>2. QED
    BY <1>8, <2>1, FacetsAreSet, SMTT(30)
<1>10. \A g : List(r, g) = List(moved, g) /\ Place(r, g) = Place(moved, g)
  BY <1>9, Zenon DEF List, Place
<1>11. /\ r.selectorToFacet = ds.selectorToFacet /\ r.isFrozen = ds.isFrozen
       /\ \A g \in Addresses : List(r, g) = List(ds, g)
       /\ \A g \in Addresses : g # h => Place(r, g) = Place(ds, g)
       /\ q # Len(l) - 1 => Place(r, h) = q
  BY <1>7, <1>9, <1>10, Zenon
<1>12. QED
  BY <1>1, <1>2, <1>6, <1>9, <1>11, Zenon

\* _removeFacet of a facet whose last selector is gone leaves a good diamond.
LEMMA RemovedFacet ==
    ASSUME NEW ds \in Diamonds, Mapping(ds), NEW f \in Addresses, Kept(ds, f), List(ds, f) = <<>>,
           NEW r, r = _removeFacet(ds, f)
    PROVE  Good(r) /\ r.selectorToFacet = ds.selectorToFacet /\ r.isFrozen = ds.isFrozen
<1>1. PICK q : q = Place(ds, f)
  BY Zenon
<1>2. PICK l : l = ds.facets
  BY Zenon
<1>3. PICK n : n = Len(l)
  BY Zenon
<1>4. PICK h : h = l[n]
  BY Zenon
<1>5. /\ l \in Seq(Addresses) /\ n \in Nat /\ DOMAIN l = 1 .. n /\ q \in Nat
      /\ \A i \in 1 .. n : l[i] \in Addresses
  BY <1>1, <1>2, <1>3, Parts
<1>6. q < n /\ l[q + 1] = f
  BY <1>1, <1>2, <1>3, Zenon DEF Kept
<1>7. /\ r \in Diamonds
      /\ r.selectorToFacet = ds.selectorToFacet /\ r.isFrozen = ds.isFrozen
      /\ \A g \in Addresses : List(r, g) = List(ds, g)
      /\ SwappedAndPopped(r.facets, l, q)
      /\ \A g \in Addresses : g # h => Place(r, g) = Place(ds, g)
      /\ q # n - 1 => Place(r, h) = q
  <2>1. PICK moved : MovesLastFacet(moved, ds, q)
    BY Zenon DEF MovesLastFacet
  <2>2. DropsLastFacet(r, moved)
    BY <1>1, <2>1, Zenon DEF DropsLastFacet, MovesLastFacet, _removeFacet, Place
  <2>3. /\ r \in Diamonds
        /\ r.selectorToFacet = ds.selectorToFacet /\ r.isFrozen = ds.isFrozen
        /\ \A g \in Addresses : List(r, g) = List(ds, g)
        /\ SwappedAndPopped(r.facets, ds.facets, q)
        /\ \A g \in Addresses : g # ds.facets[Len(ds.facets)] => Place(r, g) = Place(ds, g)
        /\ q # Len(ds.facets) - 1 => Place(r, ds.facets[Len(ds.facets)]) = q
    <3>1. q < Len(ds.facets) /\ q \in Nat
      BY <1>2, <1>3, <1>5, <1>6, Zenon
    <3>2. QED
      BY <2>1, <2>2, <3>1, FacetIsRemoved, SMTT(30)
  <2>4. QED
    BY <1>2, <1>3, <1>4, <2>3, Zenon
<1>8. Mapping(r)
  BY <1>7, SameMapping, Zenon
<1>9. PICK k : k = r.facets
  BY Zenon
<1>10. k \in Seq(Addresses) /\ Len(k) = n - 1 /\ DOMAIN k = 1 .. n - 1
  <2>1. k \in Seq(Addresses) /\ Len(k) = n - 1
    BY <1>3, <1>7, <1>9, Parts, Zenon DEF SwappedAndPopped
  <2>2. QED
    BY <2>1, SMTT(30)
<1>11. \A i \in 1 .. n - 1 : k[i] = IF i = q + 1 THEN h ELSE l[i]
  BY <1>3, <1>4, <1>7, <1>9, Zenon DEF SwappedAndPopped
<1>12. \A i \in 1 .. n : (List(ds, l[i]) # <<>> \/ l[i] = f) /\ Place(ds, l[i]) = i - 1
  BY <1>2, <1>5, Zenon DEF Kept
<1>13. \A g \in Addresses : List(ds, g) # <<>> => Place(ds, g) < n /\ l[Place(ds, g) + 1] = g
  BY <1>2, <1>3, Zenon DEF Kept
<1>14. h \in Addresses /\ Place(ds, h) = n - 1 /\ n \in 1 .. n
  BY <1>4, <1>5, <1>6, <1>12
<1>15. ASSUME NEW g \in Addresses, List(r, g) # <<>>
       PROVE  Place(r, g) < Len(k) /\ k[Place(r, g) + 1] = g
  <2>1. PICK j : j = Place(ds, g)
    BY Zenon
  <2>2. j \in Nat /\ j < n /\ l[j + 1] = g /\ g # f
    BY <1>7, <1>13, <1>15, <2>1, Parts, Zenon
  <2>3. j # q
    BY <1>6, <2>2, Zenon
  <2>4. CASE g = h
    <3>1. j = n - 1 /\ q # n - 1
      BY <1>14, <2>1, <2>3, <2>4, Zenon
    <3>2. q + 1 \in 1 .. n - 1 /\ q < n - 1 /\ Place(r, g) = q
      BY <1>5, <1>6, <1>7, <2>4, <3>1, SMTT(30)
    <3>3. k[q + 1] = h
      BY <1>11, <3>2, Zenon
    <3>4. QED
      BY <1>10, <2>4, <3>2, <3>3, Zenon
  <2>5. CASE g # h
    <3>1. j # n - 1
      BY <1>4, <1>5, <2>2, <2>5, SMTT(30)
    <3>2. j + 1 \in 1 .. n - 1 /\ j < n - 1 /\ j + 1 # q + 1
      BY <1>5, <2>2, <2>3, <3>1, SMTT(30)
    <3>3. k[j + 1] = g /\ Place(r, g) = j
      BY <1>7, <1>11, <2>1, <2>2, <2>5, <3>2, Zenon
    <3>4. QED
      BY <1>10, <3>2, <3>3, Zenon
  <2>6. QED
    BY <2>4, <2>5, Zenon
<1>16. ASSUME NEW i \in 1 .. n - 1
       PROVE  List(r, k[i]) # <<>> /\ Place(r, k[i]) = i - 1
  <2>1. CASE i = q + 1
    <3>1. k[i] = h /\ q # n - 1 /\ i - 1 = q
      BY <1>5, <1>11, <2>1, SMTT(30)
    <3>2. h # f
      BY <1>1, <1>14, <3>1, Zenon
    <3>3. List(ds, h) # <<>>
      BY <1>4, <1>12, <1>14, <3>2, Zenon
    <3>4. QED
      BY <1>7, <1>14, <3>1, <3>3, Zenon
  <2>2. CASE i # q + 1
    <3>1. k[i] = l[i] /\ i \in 1 .. n /\ i # n /\ l[i] \in Addresses
      BY <1>5, <1>11, <2>2, SMTT(30)
    <3>2. Place(ds, l[i]) = i - 1
      BY <1>12, <3>1, Zenon
    <3>3. i - 1 # q /\ i - 1 # n - 1
      BY <1>5, <2>2, <3>1, SMTT(30)
    <3>4. l[i] # f /\ l[i] # h
      BY <1>1, <1>14, <3>2, <3>3, Zenon
    <3>5. List(ds, l[i]) # <<>>
      BY <1>12, <3>1, <3>4, Zenon
    <3>6. QED
      BY <1>7, <3>1, <3>2, <3>4, <3>5, Zenon
  <2>3. QED
    BY <2>1, <2>2, Zenon
<1>17. Listing(r)
  BY <1>9, <1>10, <1>15, <1>16, Zenon DEF Listing
<1>18. QED
  BY <1>7, <1>8, <1>17, Zenon DEF Good

\* _removeOneFunction unmaps the selector and keeps the diamond good.
LEMMA RemovedFunction ==
    ASSUME NEW ds, Good(ds), NEW s \in Selectors, NEW f, f = At(ds, s).facetAddress, f # Zero,
           NEW r, r = _removeOneFunction(ds, f, s)
    PROVE  Good(r) /\ Leads(r, s, Zero, FALSE) /\ OnlyMoves(r, ds, s)
<1>1. ds \in Diamonds /\ Mapping(ds) /\ Listing(ds)
  BY Zenon DEF Good
<1>2. PICK l : l = List(ds, f)
  BY Zenon
<1>3. PICK p : p = At(ds, s).selectorPosition
  BY Zenon
<1>4. f \in Addresses /\ p \in Nat /\ l \in Seq(Selectors)
  BY <1>1, <1>2, <1>3, Parts, Zenon
<1>5. p < Len(l) /\ l[p + 1] = s
  BY <1>1, <1>2, <1>3, Zenon DEF Mapping
<1>6. \A i, j \in DOMAIN l : l[i] = l[j] => i = j
  <2>1. \A i \in DOMAIN l : At(ds, l[i]).selectorPosition = i - 1
    BY <1>1, <1>2, <1>4, SMTT(30) DEF Mapping
  <2>2. ASSUME NEW i \in DOMAIN l, NEW j \in DOMAIN l, l[i] = l[j]
        PROVE  i = j
    <3>1. i \in Nat /\ j \in Nat
      BY <1>4
    <3>2. i - 1 = j - 1
      BY <2>1, <2>2, Zenon
    <3>3. QED
      BY <3>1, <3>2, SMTT(30)
  <2>3. QED
    BY <2>2, Zenon
<1>7. PICK moved : MovesLast(moved, ds, f, p, l)
  BY Zenon DEF MovesLast
<1>8. PICK x : Pops(x, moved, f, s)
  BY Zenon DEF Pops
<1>9. r = IF Len(l) = 1 THEN _removeFacet(x, f) ELSE x
  <2> DEFINE list == ds.facetToSelectors[f].selectors
             position == ds.selectorToFacet[s].selectorPosition
             first == IF position = Len(list) - 1 THEN ds
                      ELSE [ds EXCEPT !.facetToSelectors[f].selectors[position + 1] = Last(list),
                                      !.selectorToFacet[Last(list)].selectorPosition = position]
             second == [first EXCEPT !.facetToSelectors[f].selectors = Front(@), !.selectorToFacet[s] = NoFacet]
  <2>1. r = IF Len(list) = 1 THEN _removeFacet(second, f) ELSE second
    BY Zenon DEF _removeOneFunction
  <2>2. list = l /\ position = p
    BY <1>2, <1>3, Zenon DEF List, At
  <2>3. first = moved
    <3> HIDE DEF list, position
    <3>1. QED
      BY <1>7, <2>2, Zenon DEF MovesLast
  <2>4. second = x
    <3> HIDE DEF first
    <3>1. QED
      BY <1>8, <2>3, Zenon DEF Pops
  <2> HIDE DEF list, second
  <2>5. QED
    BY <2>1, <2>2, <2>4, Zenon
<1>10. /\ x \in Diamonds
       /\ List(x, f) \in Seq(Selectors) /\ SwappedAndPopped(List(x, f), l, p)
       /\ \A g \in Addresses : g # f => List(x, g) = List(ds, g)
       /\ \A g \in Addresses : Place(x, g) = Place(ds, g)
       /\ x.facets = ds.facets /\ x.isFrozen = ds.isFrozen
       /\ At(x, s) = NoFacet
       /\ \A t \in Selectors : t # s =>
             /\ At(x, t).facetAddress = At(ds, t).facetAddress
             /\ At(x, t).isFreezable = At(ds, t).isFreezable
             /\ t # l[Len(l)] => At(x, t) = At(ds, t)
       /\ l[Len(l)] # s => At(x, l[Len(l)]).selectorPosition = p
  <2>1. /\ p < Len(List(ds, f)) /\ List(ds, f)[p + 1] = s
        /\ \A i, j \in DOMAIN List(ds, f) : List(ds, f)[i] = List(ds, f)[j] => i = j
    BY <1>2, <1>5, <1>6, Zenon
  <2>2. ds \in Diamonds /\ f \in Addresses /\ p \in Nat
    BY <1>1, <1>4, Zenon
  <2>3. QED
    BY <1>2, <1>7, <1>8, <2>1, <2>2, FunctionIsPopped, SMTT(30)
<1>11. Mapping(x)
  <2>1. ds \in Diamonds /\ x \in Diamonds /\ f \in Addresses /\ Mapping(ds)
    BY <1>1, <1>4, <1>10, Zenon
  <2>2. PICK k : k = List(x, f)
    BY Zenon
  <2>3. SwappedAndPopped(k, l, p) /\ \A g \in Addresses : g # f => List(x, g) = List(ds, g)
    BY <1>10, <2>2, Zenon
  <2>4. /\ At(x, s) = NoFacet
        /\ \A t \in Selectors : t # s =>
             /\ At(x, t).facetAddress = At(ds, t).facetAddress
             /\ At(x, t).isFreezable = At(ds, t).isFreezable
             /\ t # l[Len(l)] => At(x, t) = At(ds, t)
        /\ l[Len(l)] # s => At(x, l[Len(l)]).selectorPosition = p
    BY <1>10, Zenon
  <2>5. QED
    BY <1>2, <1>3, <2>1, <2>2, <2>3, <2>4, MappingWithOneLess, SMTT(30)
<1>12. Len(List(x, f)) = Len(l) - 1
  BY <1>10, Zenon DEF SwappedAndPopped
<1>13. Kept(x, f)
  <2>1. l # <<>>
    BY <1>4, <1>5, SMTT(30)
  <2>2. \A g \in Addresses : List(x, g) # <<>> \/ g = f => List(ds, g) # <<>>
    BY <1>2, <1>10, <2>1, Zenon
  <2>3. \A i \in DOMAIN ds.facets : ds.facets[i] \in Addresses
    BY <1>1, Parts, SMTT(30)
  <2>4. \A i \in DOMAIN ds.facets : List(x, ds.facets[i]) # <<>> \/ ds.facets[i] = f
    BY <1>1, <1>10, <2>3, Zenon DEF Listing
  <2>5. QED
    BY <1>1, <1>10, <2>2, <2>3, <2>4, Zenon DEF Kept, Listing
<1>14. Leads(x, s, Zero, FALSE) /\ OnlyMoves(x, ds, s)
  BY <1>10, SMTT(30) DEF Leads, OnlyMoves, NoFacet
<1>15. CASE Len(l) = 1
  <2>1. List(x, f) = <<>>
    BY <1>10, <1>12, <1>15, SMTT(30)
  <2>2. r = _removeFacet(x, f)
    BY <1>9, <1>15, Zenon
  <2>3. Good(r) /\ r.selectorToFacet = x.selectorToFacet /\ r.isFrozen = x.isFrozen
    <3>1. x \in Diamonds
      BY <1>10, Zenon
    <3>2. QED
      BY <1>4, <1>11, <1>13, <2>1, <2>2, <3>1, RemovedFacet, Zenon
  <2>4. \A t : At(r, t) = At(x, t)
    BY <2>3, Zenon DEF At
  <2>5. QED
    BY <1>14, <2>3, <2>4, Zenon DEF Leads, OnlyMoves
<1>16. CASE Len(l) # 1
  <2>1. List(x, f) # <<>>
    BY <1>4, <1>5, <1>10, <1>12, <1>16
  <2>2. Good(x)
    <3>1. x \in Diamonds
      BY <1>10, Zenon
    <3>2. QED
      BY <1>4, <1>11, <1>13, <2>1, <3>1, KeptAndUsed, Zenon
  <2>3. QED
    BY <1>9, <1>14, <1>16, <2>2, Zenon
<1>17. QED
  BY <1>15, <1>16, Zenon

\* A diamond while the selectors of a cut are worked off.
InCut(ds, cut) ==
    IF cut.action = "Add" THEN ds \in Diamonds /\ Mapping(ds) /\ Kept(ds, cut.facet) ELSE Good(ds)

\* Where a cut leads its selectors.
LeadsTo(ds, s, cut) ==
    IF cut.action = "Remove" THEN Leads(ds, s, Zero, FALSE) ELSE Leads(ds, s, cut.facet, cut.isFreezable)

\* One selector of a cut: the diamond is good after it, the selector leads
\* where the cut says, and only a selector without facet is added.
LEMMA OneFunctionMoves ==
    ASSUME NEW ds, NEW cut \in FacetCuts, InCut(ds, cut),
           cut.action # "Remove" => cut.facet \in Addresses,
           NEW s \in Selectors, NEW a, a = OneFunction(ds, cut, s), a.ok
    PROVE  /\ Good(a.ds) /\ InCut(a.ds, cut) /\ LeadsTo(a.ds, s, cut) /\ OnlyMoves(a.ds, ds, s)
           /\ cut.action = "Add" => Leads(ds, s, Zero, FALSE)
<1>1. /\ cut.action \in {"Add", "Replace", "Remove"} /\ cut.isFreezable \in BOOLEAN
      /\ \A x : Reverted(x).ok = FALSE /\ Done(x).ds = x
  BY Zenon DEF FacetCuts, Reverted, Done
<1>2. CASE cut.action = "Add"
  <2>1. ds \in Diamonds /\ Mapping(ds) /\ Kept(ds, cut.facet) /\ cut.facet \in Addresses
    BY <1>2, Zenon DEF InCut
  <2>2. At(ds, s).facetAddress = Zero /\ a = _addOneFunction(ds, cut.facet, s, cut.isFreezable)
    BY <1>1, <1>2, Zenon DEF OneFunction, At
  <2>3. PICK f, b : f = cut.facet /\ b = cut.isFreezable
    BY Zenon
  <2>4. Good(a.ds) /\ Kept(a.ds, f) /\ Leads(a.ds, s, f, b) /\ OnlyMoves(a.ds, ds, s)
    BY <1>1, <2>1, <2>2, <2>3, AddedFunction, Zenon
  <2>5. Leads(ds, s, Zero, FALSE)
    <3>1. At(ds, s) = NoFacet
      BY <2>1, <2>2, Zenon DEF Mapping
    <3>2. NoFacet.facetAddress = Zero /\ NoFacet.isFreezable = FALSE
      BY Zenon DEF NoFacet
    <3>3. QED
      BY <3>1, <3>2, Zenon DEF Leads
  <2>6. QED
    BY <1>2, <2>3, <2>4, <2>5, Zenon DEF InCut, LeadsTo, Good
<1>3. CASE cut.action # "Add"
  <2>1. PICK f : f = At(ds, s).facetAddress
    BY Zenon
  <2>2. PICK x : x = _removeOneFunction(ds, f, s)
    BY Zenon
  <2>3. f # Zero /\ Good(ds)
    BY <1>1, <1>3, <2>1, Zenon DEF OneFunction, At, InCut
  <2>4. Good(x) /\ Leads(x, s, Zero, FALSE) /\ OnlyMoves(x, ds, s)
    BY <2>1, <2>2, <2>3, RemovedFunction, Zenon
  <2>5. CASE cut.action = "Remove"
    <3>1. a.ds = x
      BY <1>1, <2>1, <2>2, <2>3, <2>5, Zenon DEF OneFunction, At
    <3>2. QED
      BY <2>4, <2>5, <3>1, Zenon DEF InCut, LeadsTo
  <2>6. CASE cut.action = "Replace"
    <3>1. PICK g, b : g = cut.facet /\ b = cut.isFreezable /\ g \in Addresses /\ b \in BOOLEAN
      BY <1>1, <2>6, Zenon
    <3>2. PICK y : y = _saveFacetIfNew(x, g)
      BY Zenon
    <3>3. a = _addOneFunction(y, g, s, b)
      BY <2>1, <2>2, <2>3, <2>6, <3>1, <3>2, SMTT(30) DEF OneFunction, At
    <3>4. y \in Diamonds /\ Mapping(y) /\ Kept(y, g)
      BY <2>4, <3>1, <3>2, SavedFacetIsKept, Zenon
    <3>5. y.selectorToFacet = x.selectorToFacet /\ y.isFrozen = x.isFrozen
      <4>1. x \in Diamonds
        BY <2>4, Zenon DEF Good
      <4>2. QED
        BY <3>1, <3>2, <4>1, FacetIsSaved, SMTT(30)
    <3>6. \A t : At(y, t) = At(x, t)
      BY <3>5, Zenon DEF At
    <3>7. At(y, s).facetAddress = Zero
      BY <2>4, <3>6, Zenon DEF Leads
    <3>8. Good(a.ds) /\ Leads(a.ds, s, g, b) /\ OnlyMoves(a.ds, y, s)
      BY <3>1, <3>3, <3>4, <3>7, AddedFunction, Zenon
    <3>9. OnlyMoves(a.ds, ds, s)
      BY <2>4, <3>5, <3>6, <3>8, SMTT(30) DEF OnlyMoves
    <3>10. QED
      BY <1>3, <2>6, <3>1, <3>8, <3>9, Zenon DEF InCut, LeadsTo
  <2>7. QED
    BY <1>1, <1>3, <2>5, <2>6, Zenon
<1>4. QED
  BY <1>2, <1>3, Zenon

\* A nonempty set of naturals has a least element.
LEMMA LeastElement ==
    ASSUME NEW T, T \subseteq Nat, T # {}
    PROVE  \E x \in T : \A y \in T : x <= y
<1> DEFINE R == {p \in Nat \X Nat : p[1] < p[2]}
<1>1. IsWellFoundedOn(OpToRel(<, Nat), Nat)
  BY NatLessThanWellFounded, Zenon
<1>2. IsWellFoundedOn(R, Nat)
  BY <1>1, Zenon DEF OpToRel
<1> HIDE DEF R
<1>3. PICK x \in T : \A y \in T : ~(<<y, x>> \in R)
  BY <1>2, WFMin, Zenon
<1>4. \A y \in T : x <= y
  <2> SUFFICES ASSUME NEW y \in T, ~(x <= y) PROVE FALSE
    BY Zenon
  <2>1. x \in Nat /\ y \in Nat /\ y < x
    OBVIOUS
  <2>2. <<y, x>> \in R
    BY <2>1, Zenon DEF R
  <2> QED
    BY <1>3, <2>2, Zenon
<1> QED
  BY <1>4, Zenon

\* Induction over the first numbers, for a set.
LEMMA UpTo ==
    ASSUME NEW N \in Nat, NEW S, 0 \in S, \A n \in 0 .. N : n # N /\ n \in S => n + 1 \in S
    PROVE  \A n \in 0 .. N : n \in S
<1> SUFFICES ASSUME NEW m \in 0 .. N, m \notin S PROVE FALSE
  BY Zenon
<1> DEFINE T == {n \in 0 .. N : n \notin S}
<1>1. T \subseteq Nat /\ T # {}
  OBVIOUS
<1> HIDE DEF T
<1>2. PICK x \in T : \A y \in T : x <= y
  BY <1>1, LeastElement, Zenon
<1>3. x \in 0 .. N /\ x \notin S
  BY Zenon DEF T
<1>4. x - 1 \in 0 .. N /\ x - 1 # N /\ (x - 1) + 1 = x
  BY <1>3
<1>5. x - 1 \notin T
  <2>1. ~(x <= x - 1)
    BY <1>3
  <2>2. QED
    BY <1>2, <2>1, Zenon
<1>6. x - 1 \in S
  BY <1>4, <1>5, Zenon DEF T
<1>7. QED
  BY <1>3, <1>4, <1>6, Zenon

\* The results of the loop over a cut's selectors, after each of the first N.
Loops(g, N, ds, cut) ==
    g = [n \in 0 .. N |-> IF n = 0 THEN Done(ds) ELSE ThenFunction(g[n - 1], cut, cut.selectors[n])]

\* There are such results.
LEMMA LoopExists ==
    ASSUME NEW ds, NEW cut, NEW N \in Nat
    PROVE  \E g : Loops(g, N, ds, cut)
<1> DEFINE S == {n \in Nat : \E g : Loops(g, n, ds, cut)}
<1>1. 0 \in S
  <2>1. PICK g : g = [n \in 0 .. 0 |-> Done(ds)]
    BY Zenon
  <2>2. Loops(g, 0, ds, cut)
    <3>1. \A n \in 0 .. 0 : n = 0
      OBVIOUS
    <3>2. [n \in 0 .. 0 |-> IF n = 0 THEN Done(ds) ELSE ThenFunction(g[n - 1], cut, cut.selectors[n])] = g
      BY <2>1, <3>1, Zenon
    <3>3. QED
      BY <3>2, Zenon DEF Loops
  <2>3. QED
    BY <2>2, Zenon
<1>2. ASSUME NEW m \in 0 .. N, m \in S
      PROVE  m + 1 \in S
  <2>1. PICK g : Loops(g, m, ds, cut)
    BY <1>2, Zenon
  <2>2. /\ DOMAIN g = 0 .. m
        /\ \A n \in 0 .. m : g[n] = IF n = 0 THEN Done(ds) ELSE ThenFunction(g[n - 1], cut, cut.selectors[n])
    BY <2>1, Zenon DEF Loops
  <2> DEFINE last == ThenFunction(g[m], cut, cut.selectors[m + 1])
             h == [n \in 0 .. m + 1 |-> IF n \in 0 .. m THEN g[n] ELSE last]
             F(n) == IF n = 0 THEN Done(ds) ELSE ThenFunction(h[n - 1], cut, cut.selectors[n])
  <2>3. (\A n \in 0 .. m : h[n] = g[n]) /\ h[m + 1] = last
    BY SMTT(30)
  <2>4. ASSUME NEW n \in 0 .. m + 1
        PROVE  h[n] = F(n)
    <3>1. CASE n = 0
      <4>1. 0 \in 0 .. m
        BY <1>2
      <4>2. h[0] = g[0] /\ g[0] = Done(ds)
        BY <2>2, <2>3, <4>1, Zenon
      <4>3. QED
        BY <3>1, <4>2, Zenon
    <3>2. CASE n \in 1 .. m
      <4>1. n - 1 \in 0 .. m /\ n \in 0 .. m /\ n # 0
        BY <3>2
      <4>2. h[n] = g[n] /\ h[n - 1] = g[n - 1]
        BY <2>3, <4>1, Zenon
      <4> HIDE DEF h
      <4>3. QED
        BY <2>2, <4>1, <4>2, Zenon
    <3>3. CASE n = m + 1
      <4>1. n - 1 = m /\ n # 0 /\ m \in 0 .. m
        BY <3>3
      <4>2. h[n - 1] = g[m] /\ h[n] = last
        BY <2>3, <3>3, <4>1, Zenon
      <4> HIDE DEF h
      <4>3. QED
        BY <3>3, <4>1, <4>2, Zenon
    <3>4. QED
      BY <3>1, <3>2, <3>3, SMTT(30)
  <2>5. h = [n \in 0 .. m + 1 |-> h[n]]
    BY Zenon
  <2> HIDE DEF h
  <2>6. h = [n \in 0 .. m + 1 |-> F(n)]
    BY <2>4, <2>5, Zenon
  <2>7. Loops(h, m + 1, ds, cut)
    BY <2>6, Zenon DEF Loops
  <2>8. QED
    BY <2>7
<1> HIDE DEF S
<1>3. N \in S
  BY <1>1, <1>2, UpTo
<1>4. QED
  BY <1>3, Zenon DEF S

\* The loop over a cut's selectors, result by result.
LEMMA EachFunctionLoops ==
    ASSUME NEW ds, NEW cut, Len(cut.selectors) \in Nat
    PROVE  \E g : Loops(g, Len(cut.selectors), ds, cut) /\ EachFunction(ds, cut) = g[Len(cut.selectors)]
<1> DEFINE run[n \in 0 .. Len(cut.selectors)] ==
              IF n = 0 THEN Done(ds) ELSE ThenFunction(run[n - 1], cut, cut.selectors[n])
<1>1. PICK g : Loops(g, Len(cut.selectors), ds, cut)
  BY LoopExists, Zenon
<1>2. run = [n \in 0 .. Len(cut.selectors) |->
               IF n = 0 THEN Done(ds) ELSE ThenFunction(run[n - 1], cut, cut.selectors[n])]
  BY <1>1, Zenon DEF run, Loops
<1>3. EachFunction(ds, cut) = run[Len(cut.selectors)]
  BY Zenon DEF EachFunction
<1> HIDE DEF run
<1>4. Loops(run, Len(cut.selectors), ds, cut)
  BY <1>2, Zenon DEF Loops
<1>5. QED
  BY <1>3, <1>4, Zenon

\* A selector leads where it led.
Same(r, ds, t) == At(r, t).facetAddress = At(ds, t).facetAddress /\ At(r, t).isFreezable = At(ds, t).isFreezable

\* The first n selectors of a cut.
FirstOf(cut, n) == {cut.selectors[i] : i \in 1 .. n}

\* A diamond after the first n selectors of a cut.
WorkedOff(r, ds, cut, n) ==
    /\ InCut(r, cut) /\ (n # 0 => Good(r))
    /\ r.isFrozen = ds.isFrozen
    /\ \A t \in Selectors : IF t \in FirstOf(cut, n) THEN LeadsTo(r, t, cut) ELSE Same(r, ds, t)
    /\ cut.action = "Add" => \A i \in 1 .. n : Leads(ds, cut.selectors[i], Zero, FALSE)

\* One more selector.
LEMMA OneMoreIsWorkedOff ==
    ASSUME NEW ds, NEW cut \in FacetCuts, cut.action # "Remove" => cut.facet \in Addresses,
           NEW n \in Nat, n < Len(cut.selectors), NEW r, WorkedOff(r, ds, cut, n),
           NEW a, a = OneFunction(r, cut, cut.selectors[n + 1]), a.ok
    PROVE  WorkedOff(a.ds, ds, cut, n + 1)
<1>1. PICK s : s = cut.selectors[n + 1]
  BY Zenon
<1>2. PICK x : x = a.ds
  BY Zenon
<1>3. cut.selectors \in Seq(Selectors) /\ s \in Selectors /\ n + 1 # 0
  <2>1. cut.selectors \in Seq(Selectors)
    BY Zenon DEF FacetCuts
  <2>2. QED
    BY <1>1, <2>1, SMTT(30)
<1>4. /\ Good(x) /\ InCut(x, cut) /\ LeadsTo(x, s, cut) /\ OnlyMoves(x, r, s)
      /\ cut.action = "Add" => Leads(r, s, Zero, FALSE)
  <2>1. InCut(r, cut) /\ a = OneFunction(r, cut, s)
    BY <1>1, Zenon DEF WorkedOff
  <2>2. QED
    BY <1>2, <1>3, <2>1, OneFunctionMoves, Zenon
<1>5. FirstOf(cut, n + 1) = FirstOf(cut, n) \cup {s}
  <2>1. \A i \in 1 .. n + 1 : i \in 1 .. n \/ i = n + 1
    BY SMTT(30)
  <2>2. n + 1 \in 1 .. n + 1 /\ \A i \in 1 .. n : i \in 1 .. n + 1
    BY SMTT(30)
  <2>3. QED
    BY <1>1, <2>1, <2>2, Zenon DEF FirstOf
<1>6. x.isFrozen = ds.isFrozen
  BY <1>4, Zenon DEF OnlyMoves, WorkedOff
<1>7. ASSUME NEW t \in Selectors
      PROVE  IF t \in FirstOf(cut, n + 1) THEN LeadsTo(x, t, cut) ELSE Same(x, ds, t)
  <2>1. CASE t = s
    BY <1>4, <1>5, <2>1, Zenon
  <2>2. CASE t # s
    <3>1. Same(x, r, t)
      BY <1>4, <2>2, Zenon DEF OnlyMoves, Same
    <3>2. t \in FirstOf(cut, n + 1) <=> t \in FirstOf(cut, n)
      BY <1>5, <2>2, Zenon
    <3>3. CASE t \in FirstOf(cut, n)
      <4>1. LeadsTo(r, t, cut)
        BY <3>3, Zenon DEF WorkedOff
      <4>2. LeadsTo(x, t, cut)
        BY <3>1, <4>1, Zenon DEF LeadsTo, Leads, Same
      <4>3. QED
        BY <3>2, <3>3, <4>2, Zenon
    <3>4. CASE t \notin FirstOf(cut, n)
      <4>1. Same(r, ds, t)
        BY <3>4, Zenon DEF WorkedOff
      <4>2. Same(x, ds, t)
        BY <3>1, <4>1, Zenon DEF Same
      <4>3. QED
        BY <3>2, <3>4, <4>2, Zenon
    <3>5. QED
      BY <3>3, <3>4, Zenon
  <2>3. QED
    BY <2>1, <2>2, Zenon
<1>8. ASSUME cut.action = "Add", NEW i \in 1 .. n + 1
      PROVE  Leads(ds, cut.selectors[i], Zero, FALSE)
  <2>1. CASE i \in 1 .. n
    BY <1>8, <2>1, Zenon DEF WorkedOff
  <2>2. CASE i = n + 1
    <3>1. Leads(r, s, Zero, FALSE)
      BY <1>4, <1>8, Zenon
    <3>2. cut.facet # Zero
      BY <1>8, ZeroIsNoFacet, Zenon
    <3>3. ~LeadsTo(r, s, cut)
      BY <1>8, <3>1, <3>2, Zenon DEF LeadsTo, Leads
    <3>4. Same(r, ds, s)
      BY <1>3, <3>3, Zenon DEF WorkedOff
    <3>5. QED
      BY <1>1, <2>2, <3>1, <3>4, Zenon DEF Same, Leads
  <2>3. i \in 1 .. n \/ i = n + 1
    BY SMTT(30)
  <2>4. QED
    BY <2>1, <2>2, <2>3, Zenon
<1>9. WorkedOff(x, ds, cut, n + 1)
  BY <1>3, <1>4, <1>6, <1>7, <1>8, Zenon DEF WorkedOff
<1>10. QED
  BY <1>2, <1>9, Zenon

\* The loop over a cut's selectors, when it does not revert.
LEMMA EachFunctionWorksOff ==
    ASSUME NEW ds, NEW cut \in FacetCuts, cut.action # "Remove" => cut.facet \in Addresses,
           InCut(ds, cut), NEW a, a = EachFunction(ds, cut), a.ok
    PROVE  WorkedOff(a.ds, ds, cut, Len(cut.selectors))
<1>1. PICK N : N = Len(cut.selectors)
  BY Zenon
<1>2. N \in Nat
  BY <1>1 DEF FacetCuts
<1>3. PICK g : Loops(g, N, ds, cut) /\ a = g[N]
  BY <1>1, <1>2, EachFunctionLoops, Zenon
<1>4. \A n \in 0 .. N : g[n] = IF n = 0 THEN Done(ds) ELSE ThenFunction(g[n - 1], cut, cut.selectors[n])
  BY <1>3, Zenon DEF Loops
<1> DEFINE S == {n \in 0 .. N : g[n].ok => WorkedOff(g[n].ds, ds, cut, n)}
<1>5. 0 \in S
  <2>1. g[0] = Done(ds)
    BY <1>2, <1>4
  <2>2. g[0].ds = ds
    BY <2>1 DEF Done
  <2>3. FirstOf(cut, 0) = {} /\ 1 .. 0 = {}
    BY SMTT(30) DEF FirstOf
  <2>4. WorkedOff(ds, ds, cut, 0)
    BY <2>3, Zenon DEF WorkedOff, Same
  <2>5. QED
    BY <1>2, <2>2, <2>4
<1>6. ASSUME NEW n \in 0 .. N, n # N, n \in S
      PROVE  n + 1 \in S
  <2>1. n + 1 \in 0 .. N /\ n + 1 # 0 /\ (n + 1) - 1 = n /\ n \in Nat /\ n < N
    BY <1>2, <1>6, SMTT(30)
  <2>2. g[n + 1] = ThenFunction(g[n], cut, cut.selectors[n + 1])
    BY <1>4, <2>1, Zenon
  <2>3. ASSUME g[n + 1].ok
        PROVE  WorkedOff(g[n + 1].ds, ds, cut, n + 1)
    <3>1. g[n].ok /\ g[n + 1] = OneFunction(g[n].ds, cut, cut.selectors[n + 1])
      BY <2>2, <2>3, Zenon DEF ThenFunction
    <3>2. WorkedOff(g[n].ds, ds, cut, n)
      BY <1>6, <3>1, Zenon
    <3>3. PICK r, b : r = g[n].ds /\ b = g[n + 1]
      BY Zenon
    <3>4. b = OneFunction(r, cut, cut.selectors[n + 1]) /\ b.ok /\ WorkedOff(r, ds, cut, n)
      BY <2>3, <3>1, <3>2, <3>3, Zenon
    <3>5. n < Len(cut.selectors)
      BY <1>1, <2>1, Zenon
    <3>6. WorkedOff(b.ds, ds, cut, n + 1)
      BY <2>1, <3>4, <3>5, OneMoreIsWorkedOff, Zenon
    <3>7. QED
      BY <3>3, <3>6, Zenon
  <2>4. QED
    BY <2>1, <2>3, Zenon
<1> HIDE DEF S
<1>7. N \in S
  BY <1>2, <1>5, <1>6, UpTo, SMTT(30)
<1>8. QED
  BY <1>1, <1>3, <1>7, Zenon DEF S

\* A diamond after a cut.
Rerouted(r, ds, cut) ==
    /\ Good(r) /\ r.isFrozen = ds.isFrozen
    /\ \A t \in Selectors : IF t \in Range(cut.selectors) THEN LeadsTo(r, t, cut) ELSE Same(r, ds, t)
    /\ cut.action = "Add" => /\ cut.facet \in Addresses
                             /\ \A t \in Range(cut.selectors) : Leads(ds, t, Zero, FALSE)

\* One cut of a good diamond, when it does not revert.
LEMMA OneCutReroutes ==
    ASSUME NEW ds, Good(ds), NEW cut \in FacetCuts, NEW deployed \in SUBSET Addresses,
           NEW a, a = OneCut(ds, cut, deployed), a.ok
    PROVE  Rerouted(a.ds, ds, cut)
<1>1. PICK N : N = Len(cut.selectors)
  BY Zenon
<1>2. /\ cut.selectors \in Seq(Selectors) /\ N \in Nat /\ DOMAIN cut.selectors = 1 .. N
      /\ cut.action \in {"Add", "Replace", "Remove"}
  BY <1>1 DEF FacetCuts
<1>3. \A x : Reverted(x).ok = FALSE
  BY Zenon DEF Reverted
<1>4. cut.selectors # <<>>
  BY <1>3, Zenon DEF OneCut
<1>5. N # 0
  BY <1>1, <1>2, <1>4, SMTT(30)
<1>6. Range(cut.selectors) = FirstOf(cut, N)
  BY <1>2, Zenon DEF Range, FirstOf
<1>7. \E x : /\ a = EachFunction(x, cut) /\ InCut(x, cut)
             /\ x.selectorToFacet = ds.selectorToFacet /\ x.isFrozen = ds.isFrozen
             /\ cut.action # "Remove" => cut.facet \in Addresses
  <2>1. CASE cut.action = "Add"
    <3>1. a = _addFunctions(ds, cut, deployed)
      BY <1>4, <2>1, Zenon DEF OneCut
    <3>2. cut.facet \in deployed /\ a = EachFunction(_saveFacetIfNew(ds, cut.facet), cut)
      BY <1>3, <3>1, Zenon DEF _addFunctions
    <3>3. PICK f, x : f = cut.facet /\ x = _saveFacetIfNew(ds, f)
      BY Zenon
    <3>4. f \in Addresses /\ ds \in Diamonds
      BY <3>2, <3>3, Zenon DEF Good
    <3>5. x \in Diamonds /\ Mapping(x) /\ Kept(x, f)
      BY <3>3, <3>4, SavedFacetIsKept, Zenon
    <3>6. x.selectorToFacet = ds.selectorToFacet /\ x.isFrozen = ds.isFrozen
      BY <3>3, <3>4, FacetIsSaved, SMTT(30)
    <3>7. QED
      BY <2>1, <3>2, <3>3, <3>4, <3>5, <3>6, Zenon DEF InCut
  <2>2. CASE cut.action = "Replace"
    <3>1. a = _replaceFunctions(ds, cut, deployed)
      BY <1>4, <2>2, Zenon DEF OneCut
    <3>2. cut.facet \in deployed /\ a = EachFunction(ds, cut)
      BY <1>3, <3>1, Zenon DEF _replaceFunctions
    <3>3. QED
      BY <2>2, <3>2, Zenon DEF InCut
  <2>3. CASE cut.action = "Remove"
    <3>1. a = _removeFunctions(ds, cut)
      BY <1>4, <2>3, Zenon DEF OneCut
    <3>2. a = EachFunction(ds, cut)
      BY <1>3, <3>1, Zenon DEF _removeFunctions
    <3>3. QED
      BY <2>3, <3>2, Zenon DEF InCut
  <2>4. QED
    BY <1>2, <2>1, <2>2, <2>3, Zenon
<1>8. PICK x : /\ a = EachFunction(x, cut) /\ InCut(x, cut)
               /\ x.selectorToFacet = ds.selectorToFacet /\ x.isFrozen = ds.isFrozen
               /\ cut.action # "Remove" => cut.facet \in Addresses
  BY <1>7, Zenon
<1>9. WorkedOff(a.ds, x, cut, N)
  BY <1>1, <1>8, EachFunctionWorksOff, Zenon
<1>10. \A t : At(x, t) = At(ds, t)
  BY <1>8, Zenon DEF At
<1>11. \A r, t : Same(r, x, t) <=> Same(r, ds, t)
  BY <1>10, Zenon DEF Same
<1>12. Good(a.ds) /\ a.ds.isFrozen = ds.isFrozen
  BY <1>5, <1>8, <1>9, Zenon DEF WorkedOff
<1>13. \A t \in Selectors : IF t \in Range(cut.selectors) THEN LeadsTo(a.ds, t, cut) ELSE Same(a.ds, ds, t)
  BY <1>6, <1>9, <1>11, Zenon DEF WorkedOff
<1>14. ASSUME cut.action = "Add"
       PROVE  cut.facet \in Addresses /\ \A t \in Range(cut.selectors) : Leads(ds, t, Zero, FALSE)
  <2>1. \A i \in 1 .. N : Leads(x, cut.selectors[i], Zero, FALSE)
    BY <1>9, <1>14, Zenon DEF WorkedOff
  <2>2. \A t \in FirstOf(cut, N) : Leads(ds, t, Zero, FALSE)
    BY <1>10, <2>1, Zenon DEF Leads, FirstOf
  <2>3. QED
    BY <1>6, <1>8, <1>14, <2>2, Zenon
<1>15. QED
  BY <1>12, <1>13, <1>14, Zenon DEF Rerouted

\* The results of the loop over the cuts, after each of the first N.
Cuttings(g, N, ds, cuts, deployed) ==
    g = [n \in 0 .. N |-> IF n = 0 THEN Done(ds) ELSE ThenCut(g[n - 1], cuts[n], deployed)]

\* There are such results.
LEMMA CuttingExists ==
    ASSUME NEW ds, NEW cuts, NEW deployed, NEW N \in Nat
    PROVE  \E g : Cuttings(g, N, ds, cuts, deployed)
<1> DEFINE S == {n \in Nat : \E g : Cuttings(g, n, ds, cuts, deployed)}
<1>1. 0 \in S
  <2>1. PICK g : g = [n \in 0 .. 0 |-> Done(ds)]
    BY Zenon
  <2>2. Cuttings(g, 0, ds, cuts, deployed)
    <3>1. \A n \in 0 .. 0 : n = 0
      OBVIOUS
    <3>2. [n \in 0 .. 0 |-> IF n = 0 THEN Done(ds) ELSE ThenCut(g[n - 1], cuts[n], deployed)] = g
      BY <2>1, <3>1, Zenon
    <3>3. QED
      BY <3>2, Zenon DEF Cuttings
  <2>3. QED
    BY <2>2, Zenon
<1>2. ASSUME NEW m \in 0 .. N, m \in S
      PROVE  m + 1 \in S
  <2>1. PICK g : Cuttings(g, m, ds, cuts, deployed)
    BY <1>2, Zenon
  <2>2. /\ DOMAIN g = 0 .. m
        /\ \A n \in 0 .. m : g[n] = IF n = 0 THEN Done(ds) ELSE ThenCut(g[n - 1], cuts[n], deployed)
    BY <2>1, Zenon DEF Cuttings
  <2> DEFINE last == ThenCut(g[m], cuts[m + 1], deployed)
             h == [n \in 0 .. m + 1 |-> IF n \in 0 .. m THEN g[n] ELSE last]
             F(n) == IF n = 0 THEN Done(ds) ELSE ThenCut(h[n - 1], cuts[n], deployed)
  <2>3. (\A n \in 0 .. m : h[n] = g[n]) /\ h[m + 1] = last
    BY SMTT(30)
  <2>4. ASSUME NEW n \in 0 .. m + 1
        PROVE  h[n] = F(n)
    <3>1. CASE n = 0
      <4>1. 0 \in 0 .. m
        BY <1>2
      <4>2. h[0] = g[0] /\ g[0] = Done(ds)
        BY <2>2, <2>3, <4>1, Zenon
      <4>3. QED
        BY <3>1, <4>2, Zenon
    <3>2. CASE n \in 1 .. m
      <4>1. n - 1 \in 0 .. m /\ n \in 0 .. m /\ n # 0
        BY <3>2
      <4>2. h[n] = g[n] /\ h[n - 1] = g[n - 1]
        BY <2>3, <4>1, Zenon
      <4> HIDE DEF h
      <4>3. QED
        BY <2>2, <4>1, <4>2, SMTT(30)
    <3>3. CASE n = m + 1
      <4>1. n - 1 = m /\ n # 0 /\ m \in 0 .. m
        BY <3>3
      <4>2. h[n - 1] = g[m] /\ h[n] = last
        BY <2>3, <3>3, <4>1, Zenon
      <4> HIDE DEF h
      <4>3. QED
        BY <3>3, <4>1, <4>2, SMTT(30)
    <3>4. QED
      BY <3>1, <3>2, <3>3, SMTT(30)
  <2>5. h = [n \in 0 .. m + 1 |-> h[n]]
    BY Zenon
  <2> HIDE DEF h
  <2>6. h = [n \in 0 .. m + 1 |-> F(n)]
    BY <2>4, <2>5, Zenon
  <2>7. Cuttings(h, m + 1, ds, cuts, deployed)
    BY <2>6, Zenon DEF Cuttings
  <2>8. QED
    BY <2>7
<1> HIDE DEF S
<1>3. N \in S
  BY <1>1, <1>2, UpTo
<1>4. QED
  BY <1>3, Zenon DEF S

\* The loop over the cuts, result by result; a revert undoes all of them.
LEMMA diamondCutLoops ==
    ASSUME NEW ds, NEW cuts, NEW deployed, Len(cuts) \in Nat
    PROVE  \E g : /\ Cuttings(g, Len(cuts), ds, cuts, deployed)
                  /\ diamondCut(ds, cuts, deployed) = IF g[Len(cuts)].ok THEN g[Len(cuts)] ELSE Reverted(ds)
<1> DEFINE run[n \in 0 .. Len(cuts)] ==
              IF n = 0 THEN Done(ds) ELSE ThenCut(run[n - 1], cuts[n], deployed)
<1>1. PICK g : Cuttings(g, Len(cuts), ds, cuts, deployed)
  BY CuttingExists, Zenon
<1>2. run = [n \in 0 .. Len(cuts) |->
               IF n = 0 THEN Done(ds) ELSE ThenCut(run[n - 1], cuts[n], deployed)]
  BY <1>1, Zenon DEF run, Cuttings
<1>3. diamondCut(ds, cuts, deployed) = IF run[Len(cuts)].ok THEN run[Len(cuts)] ELSE Reverted(ds)
  BY Zenon DEF diamondCut
<1> HIDE DEF run
<1>4. Cuttings(run, Len(cuts), ds, cuts, deployed)
  BY <1>2, Zenon DEF Cuttings
<1>5. QED
  BY <1>3, <1>4, Zenon

\* The cuts of a call that does not revert, one by one: they keep the diamond
\* good.
LEMMA CutByCut ==
    ASSUME NEW ds, Good(ds), NEW cuts \in Seq(FacetCuts), NEW deployed \in SUBSET Addresses,
           diamondCut(ds, cuts, deployed).ok
    PROVE  \E g : /\ g[0] = ds /\ g[Len(cuts)] = diamondCut(ds, cuts, deployed).ds
                  /\ \A n \in 0 .. Len(cuts) : Good(g[n])
                  /\ \A n \in 1 .. Len(cuts) : Rerouted(g[n], g[n - 1], cuts[n])
<1>1. PICK N : N = Len(cuts)
  BY Zenon
<1>2. N \in Nat /\ \A n \in 1 .. N : cuts[n] \in FacetCuts
  BY <1>1
<1>3. PICK a : a = diamondCut(ds, cuts, deployed)
  BY Zenon
<1>4. PICK g : Cuttings(g, N, ds, cuts, deployed) /\ a = IF g[N].ok THEN g[N] ELSE Reverted(ds)
  BY <1>1, <1>2, <1>3, diamondCutLoops, Zenon
<1>5. a = g[N] /\ g[N].ok
  <2>1. ~Reverted(ds).ok
    BY Zenon DEF Reverted
  <2>2. QED
    BY <1>3, <1>4, <2>1, Zenon
<1>6. \A n \in 0 .. N : g[n] = IF n = 0 THEN Done(ds) ELSE ThenCut(g[n - 1], cuts[n], deployed)
  BY <1>4, Zenon DEF Cuttings
<1>7. g[0] = Done(ds) /\ g[0].ds = ds
  <2>1. g[0] = Done(ds)
    BY <1>2, <1>6
  <2>2. QED
    BY <2>1 DEF Done
<1> DEFINE S == {n \in 0 .. N : g[n].ok =>
                    /\ Good(g[n].ds)
                    /\ \A i \in 0 .. n : g[i].ok /\ Good(g[i].ds)
                    /\ \A i \in 1 .. n : Rerouted(g[i].ds, g[i - 1].ds, cuts[i])}
<1>8. 0 \in S
  <2>1. g[0].ok
    BY <1>7, SMTT(30) DEF Done
  <2>2. \A i \in 0 .. 0 : i = 0
    OBVIOUS
  <2>3. 1 .. 0 = {} /\ 0 \in 0 .. N
    BY <1>2, SMTT(30)
  <2>4. QED
    BY <1>7, <2>1, <2>2, <2>3, Zenon
<1>9. ASSUME NEW n \in 0 .. N, n # N, n \in S
      PROVE  n + 1 \in S
  <2>1. n + 1 \in 0 .. N /\ n + 1 \in 1 .. N /\ n + 1 # 0 /\ (n + 1) - 1 = n
    BY <1>2, <1>9, SMTT(30)
  <2>2. g[n + 1] = ThenCut(g[n], cuts[n + 1], deployed)
    BY <1>6, <2>1, Zenon
  <2>3. ASSUME g[n + 1].ok
        PROVE  /\ Good(g[n + 1].ds)
               /\ \A i \in 0 .. n + 1 : g[i].ok /\ Good(g[i].ds)
               /\ \A i \in 1 .. n + 1 : Rerouted(g[i].ds, g[i - 1].ds, cuts[i])
    <3>1. g[n].ok /\ g[n + 1] = OneCut(g[n].ds, cuts[n + 1], deployed)
      BY <2>2, <2>3, Zenon DEF ThenCut
    <3>2. /\ Good(g[n].ds)
          /\ \A i \in 0 .. n : g[i].ok /\ Good(g[i].ds)
          /\ \A i \in 1 .. n : Rerouted(g[i].ds, g[i - 1].ds, cuts[i])
      BY <1>9, <3>1, Zenon
    <3>3. PICK r, b, cut : r = g[n].ds /\ b = g[n + 1] /\ cut = cuts[n + 1]
      BY Zenon
    <3>4. Good(r) /\ cut \in FacetCuts /\ b = OneCut(r, cut, deployed) /\ b.ok
      BY <1>2, <2>1, <2>3, <3>1, <3>2, <3>3, Zenon
    <3>5. Rerouted(b.ds, r, cut)
      BY <3>4, OneCutReroutes, Zenon
    <3>6. Good(b.ds)
      BY <3>5, Zenon DEF Rerouted
    <3>7. /\ \A i \in 0 .. n + 1 : i \in 0 .. n \/ i = n + 1
          /\ \A i \in 1 .. n + 1 : i \in 1 .. n \/ (i = n + 1 /\ i - 1 = n)
      BY <1>2, SMTT(30)
    <3>8. QED
      BY <2>3, <3>2, <3>3, <3>5, <3>6, <3>7, Zenon
  <2>4. QED
    BY <2>1, <2>3, Zenon
<1> HIDE DEF S
<1>10. N \in 0 .. N /\ N \in S
  <2>1. \A n \in 0 .. N : n \in S
    BY <1>2, <1>8, <1>9, UpTo, Zenon
  <2>2. N \in 0 .. N
    BY <1>2
  <2>3. QED
    BY <2>1, <2>2, Zenon
<1>11. /\ \A i \in 0 .. N : Good(g[i].ds)
       /\ \A i \in 1 .. N : Rerouted(g[i].ds, g[i - 1].ds, cuts[i])
  BY <1>5, <1>10, Zenon DEF S
<1>12. PICK h : h = [i \in 0 .. N |-> g[i].ds]
  BY Zenon
<1>13. /\ \A i \in 0 .. N : h[i] = g[i].ds
       /\ \A i \in 1 .. N : i \in 0 .. N /\ i - 1 \in 0 .. N
       /\ 0 \in 0 .. N
  BY <1>2, <1>12
<1>14. h[0] = ds /\ h[N] = a.ds
  BY <1>5, <1>7, <1>10, <1>13, Zenon
<1>15. /\ \A i \in 0 .. N : Good(h[i])
       /\ \A i \in 1 .. N : Rerouted(h[i], h[i - 1], cuts[i])
  BY <1>11, <1>13, Zenon
<1>16. QED
  BY <1>1, <1>3, <1>14, <1>15, Zenon

\* What makes a cut revert apart, the routes after it depend on the routes
\* before it and on the cut only.
LEMMA SameCut ==
    ASSUME NEW ds, NEW e, NEW r, NEW q, NEW cut,
           \A t \in Selectors : Same(ds, e, t), Rerouted(r, ds, cut), Rerouted(q, e, cut)
    PROVE  \A t \in Selectors : Same(r, q, t)
<1> SUFFICES ASSUME NEW t \in Selectors PROVE Same(r, q, t)
  BY Zenon
<1>1. CASE t \in Range(cut.selectors)
  <2>1. LeadsTo(r, t, cut) /\ LeadsTo(q, t, cut)
    BY <1>1, Zenon DEF Rerouted
  <2>2. QED
    BY <2>1, Zenon DEF LeadsTo, Leads, Same
<1>2. CASE t \notin Range(cut.selectors)
  <2>1. Same(r, ds, t) /\ Same(q, e, t) /\ Same(ds, e, t)
    BY <1>2, Zenon DEF Rerouted
  <2>2. QED
    BY <2>1, Zenon DEF Same
<1>3. QED
  BY <1>1, <1>2, Zenon

\* Two diamonds of the same routes have the same routes after the same cuts
\* that revert for neither, whatever code there was at the two times.
LEMMA SameCutsSameRoutes ==
    ASSUME NEW ds, Good(ds), NEW e, Good(e), \A t \in Selectors : Same(ds, e, t),
           NEW cuts \in Seq(FacetCuts), NEW deployed \in SUBSET Addresses, NEW later \in SUBSET Addresses,
           diamondCut(ds, cuts, deployed).ok, diamondCut(e, cuts, later).ok
    PROVE  \A t \in Selectors : Same(diamondCut(ds, cuts, deployed).ds, diamondCut(e, cuts, later).ds, t)
<1>1. PICK N : N = Len(cuts)
  BY Zenon
<1>2. N \in Nat
  BY <1>1, SMTT(30)
<1>3. PICK g : /\ g[0] = ds /\ g[N] = diamondCut(ds, cuts, deployed).ds
               /\ \A n \in 1 .. N : Rerouted(g[n], g[n - 1], cuts[n])
  <2>1. PICK g : /\ g[0] = ds /\ g[Len(cuts)] = diamondCut(ds, cuts, deployed).ds
                 /\ \A n \in 1 .. Len(cuts) : Rerouted(g[n], g[n - 1], cuts[n])
    BY CutByCut, SMTT(30)
  <2>2. /\ g[0] = ds /\ g[N] = diamondCut(ds, cuts, deployed).ds
        /\ \A n \in 1 .. N : Rerouted(g[n], g[n - 1], cuts[n])
    BY <1>1, <2>1, Zenon
  <2>3. QED
    BY <2>2, Zenon
<1>4. PICK h : /\ h[0] = e /\ h[N] = diamondCut(e, cuts, later).ds
               /\ \A n \in 1 .. N : Rerouted(h[n], h[n - 1], cuts[n])
  <2>1. PICK h : /\ h[0] = e /\ h[Len(cuts)] = diamondCut(e, cuts, later).ds
                 /\ \A n \in 1 .. Len(cuts) : Rerouted(h[n], h[n - 1], cuts[n])
    BY CutByCut, SMTT(30)
  <2>2. /\ h[0] = e /\ h[N] = diamondCut(e, cuts, later).ds
        /\ \A n \in 1 .. N : Rerouted(h[n], h[n - 1], cuts[n])
    BY <1>1, <2>1, Zenon
  <2>3. QED
    BY <2>2, Zenon
<1> DEFINE S == {n \in 0 .. N : \A t \in Selectors : Same(g[n], h[n], t)}
<1>5. 0 \in S
  <2>1. 0 \in 0 .. N
    BY <1>2
  <2>2. \A t \in Selectors : Same(g[0], h[0], t)
    BY <1>3, <1>4, Zenon
  <2>3. QED
    BY <2>1, <2>2, Zenon
<1>6. ASSUME NEW n \in 0 .. N, n # N, n \in S
      PROVE  n + 1 \in S
  <2>1. n + 1 \in 0 .. N /\ n + 1 \in 1 .. N /\ (n + 1) - 1 = n
    BY <1>2, <1>6, SMTT(30)
  <2>2. Rerouted(g[n + 1], g[n], cuts[n + 1]) /\ Rerouted(h[n + 1], h[n], cuts[n + 1])
    BY <1>3, <1>4, <2>1, Zenon
  <2>3. \A t \in Selectors : Same(g[n], h[n], t)
    BY <1>6, Zenon
  <2>4. \A t \in Selectors : Same(g[n + 1], h[n + 1], t)
    <3>1. PICK a, b, c, d, cut : a = g[n] /\ b = h[n] /\ c = g[n + 1] /\ d = h[n + 1] /\ cut = cuts[n + 1]
      BY Zenon
    <3>2. (\A t \in Selectors : Same(a, b, t)) /\ Rerouted(c, a, cut) /\ Rerouted(d, b, cut)
      BY <2>2, <2>3, <3>1, Zenon
    <3>3. \A t \in Selectors : Same(c, d, t)
      BY <3>2, SameCut, Zenon
    <3>4. QED
      BY <3>1, <3>3, Zenon
  <2>5. QED
    BY <2>1, <2>4, Zenon
<1> HIDE DEF S
<1>7. N \in 0 .. N /\ N \in S
  <2>1. \A n \in 0 .. N : n \in S
    BY <1>2, <1>5, <1>6, UpTo, SMTT(30)
  <2>2. N \in 0 .. N
    BY <1>2
  <2>3. QED
    BY <2>1, <2>2
<1>8. QED
  BY <1>3, <1>4, <1>7, Zenon DEF S

\* Only Removes and Adds, the Removes first.
RemovesFirst(cuts) ==
    \A i \in DOMAIN cuts :
       \/ cuts[i].action = "Add"
       \/ cuts[i].action = "Remove" /\ \A j \in 1 .. i - 1 : cuts[j].action # "Add"

\* The selector is in one of the first n cuts, which is an Add, a Remove.
Among(cuts, n, action, t) == \E i \in 1 .. n : cuts[i].action = action /\ t \in Range(cuts[i].selectors)

\* A diamond after the first n of such cuts: what was added leads where it was
\* added, and of the rest what was removed leads nowhere.
Laid(r, ds, cuts, n) ==
    /\ \A i \in 1 .. n : cuts[i].action = "Add" =>
          /\ cuts[i].facet \in Addresses
          /\ \A t \in Range(cuts[i].selectors) : Leads(r, t, cuts[i].facet, cuts[i].isFreezable)
    /\ \A t \in Selectors : ~Among(cuts, n, "Add", t) =>
          IF Among(cuts, n, "Remove", t) THEN Leads(r, t, Zero, FALSE) ELSE Same(r, ds, t)

\* One more cut.
LEMMA OneMoreIsLaid ==
    ASSUME NEW ds, NEW cuts \in Seq(FacetCuts), RemovesFirst(cuts), NEW n \in Nat, n < Len(cuts),
           NEW r, Laid(r, ds, cuts, n), NEW x, Rerouted(x, r, cuts[n + 1])
    PROVE  Laid(x, ds, cuts, n + 1)
<1>1. PICK cut : cut = cuts[n + 1]
  BY Zenon
<1>2. n + 1 \in DOMAIN cuts /\ \A i \in 1 .. n + 1 : cuts[i] \in FacetCuts
  OBVIOUS
<1>3. cut \in FacetCuts /\ Rerouted(x, r, cut)
  BY <1>1, <1>2, SMTT(30)
<1>4. \A i \in 1 .. n + 1 : i \in 1 .. n \/ i = n + 1
  BY SMTT(30)
<1>5. n + 1 \in 1 .. n + 1 /\ \A i \in 1 .. n : i \in 1 .. n + 1
  OBVIOUS
<1>6. \A action, t : Among(cuts, n + 1, action, t) <=>
                        Among(cuts, n, action, t) \/ (cut.action = action /\ t \in Range(cut.selectors))
  BY <1>1, <1>4, <1>5, Zenon DEF Among
<1>7. \A i \in 1 .. n + 1 : \A t \in Range(cuts[i].selectors) : t \in Selectors
  <2>1. \A i \in 1 .. n + 1 : cuts[i].selectors \in Seq(Selectors)
    BY <1>2, Zenon DEF FacetCuts
  <2>2. QED
    BY <2>1, SMTT(30) DEF Range
<1>8. \A t \in Selectors : IF t \in Range(cut.selectors) THEN LeadsTo(x, t, cut) ELSE Same(x, r, t)
  BY <1>3, Zenon DEF Rerouted
<1>9. CASE cut.action = "Remove"
  <2>1. \A i \in 1 .. n : cuts[i].action # "Add"
    <3>1. (n + 1) - 1 = n
      BY SMTT(30)
    <3>2. cuts[n + 1].action # "Add"
      BY <1>1, <1>9, Zenon
    <3>3. \A j \in 1 .. (n + 1) - 1 : cuts[j].action # "Add"
      BY <1>2, <3>2, Zenon DEF RemovesFirst
    <3>4. QED
      BY <3>1, <3>3, Zenon
  <2>2. \A i \in 1 .. n + 1 : cuts[i].action # "Add"
    BY <1>1, <1>4, <1>9, <2>1, SMTT(30)
  <2>3. ASSUME NEW t \in Selectors
        PROVE  IF Among(cuts, n + 1, "Remove", t) THEN Leads(x, t, Zero, FALSE) ELSE Same(x, ds, t)
    <3>1. ~Among(cuts, n, "Add", t)
      BY <2>1, Zenon DEF Among
    <3>2. IF Among(cuts, n, "Remove", t) THEN Leads(r, t, Zero, FALSE) ELSE Same(r, ds, t)
      BY <3>1, Zenon DEF Laid
    <3>3. CASE t \in Range(cut.selectors)
      <4>1. Leads(x, t, Zero, FALSE)
        BY <1>8, <1>9, <3>3, Zenon DEF LeadsTo
      <4>2. QED
        BY <1>6, <1>9, <3>3, <4>1, Zenon
    <3>4. CASE t \notin Range(cut.selectors)
      <4>1. Same(x, r, t)
        BY <1>8, <3>4, Zenon
      <4>2. Among(cuts, n + 1, "Remove", t) <=> Among(cuts, n, "Remove", t)
        BY <1>6, <3>4, Zenon
      <4>3. Leads(r, t, Zero, FALSE) => Leads(x, t, Zero, FALSE)
        BY <4>1, Zenon DEF Leads, Same
      <4>4. Same(r, ds, t) => Same(x, ds, t)
        BY <4>1, Zenon DEF Same
      <4>5. QED
        BY <3>2, <4>2, <4>3, <4>4, Zenon
    <3>5. QED
      BY <3>3, <3>4, Zenon
  <2>4. QED
    BY <2>2, <2>3, Zenon DEF Laid
<1>10. CASE cut.action = "Add"
  <2>1. cut.facet \in Addresses /\ \A t \in Range(cut.selectors) : Leads(r, t, Zero, FALSE)
    BY <1>3, <1>10, Zenon DEF Rerouted
  <2>2. ASSUME NEW i \in 1 .. n + 1, cuts[i].action = "Add"
        PROVE  /\ cuts[i].facet \in Addresses
               /\ \A t \in Range(cuts[i].selectors) : Leads(x, t, cuts[i].facet, cuts[i].isFreezable)
    <3>1. CASE i = n + 1
      <4>1. \A t \in Range(cut.selectors) : Leads(x, t, cut.facet, cut.isFreezable)
        BY <1>1, <1>5, <1>7, <1>8, <1>10, Zenon DEF LeadsTo
      <4>2. QED
        BY <1>1, <2>1, <3>1, <4>1, Zenon
    <3>2. CASE i \in 1 .. n
      <4>1. /\ cuts[i].facet \in Addresses
            /\ \A t \in Range(cuts[i].selectors) : Leads(r, t, cuts[i].facet, cuts[i].isFreezable)
        BY <2>2, <3>2, Zenon DEF Laid
      <4>2. ASSUME NEW t \in Range(cuts[i].selectors)
            PROVE  Leads(x, t, cuts[i].facet, cuts[i].isFreezable)
        <5>1. Leads(r, t, cuts[i].facet, cuts[i].isFreezable) /\ cuts[i].facet # Zero
          BY <4>1, ZeroIsNoFacet, Zenon
        <5>2. t \notin Range(cut.selectors)
          BY <2>1, <5>1, Zenon DEF Leads
        <5>3. t \in Selectors
          BY <1>7, Zenon
        <5>4. Same(x, r, t)
          BY <1>8, <5>2, <5>3, Zenon
        <5>5. QED
          BY <5>1, <5>4, Zenon DEF Leads, Same
      <4>3. QED
        BY <4>1, <4>2, Zenon
    <3>3. QED
      BY <1>4, <3>1, <3>2, Zenon
  <2>3. ASSUME NEW t \in Selectors, ~Among(cuts, n + 1, "Add", t)
        PROVE  IF Among(cuts, n + 1, "Remove", t) THEN Leads(x, t, Zero, FALSE) ELSE Same(x, ds, t)
    <3>1. ~Among(cuts, n, "Add", t) /\ t \notin Range(cut.selectors)
      BY <1>6, <1>10, <2>3, Zenon
    <3>2. IF Among(cuts, n, "Remove", t) THEN Leads(r, t, Zero, FALSE) ELSE Same(r, ds, t)
      BY <3>1, Zenon DEF Laid
    <3>3. Same(x, r, t)
      BY <1>8, <3>1, Zenon
    <3>4. Among(cuts, n + 1, "Remove", t) <=> Among(cuts, n, "Remove", t)
      BY <1>6, <3>1, Zenon
    <3>5. Leads(r, t, Zero, FALSE) => Leads(x, t, Zero, FALSE)
      BY <3>3, Zenon DEF Leads, Same
    <3>6. Same(r, ds, t) => Same(x, ds, t)
      BY <3>3, Zenon DEF Same
    <3>7. QED
      BY <3>2, <3>4, <3>5, <3>6, Zenon
  <2>4. QED
    BY <2>2, <2>3, Zenon DEF Laid
<1>11. cut.action \in {"Add", "Remove"}
  BY <1>1, <1>2, Zenon DEF RemovesFirst
<1>12. QED
  BY <1>9, <1>10, <1>11, Zenon

\* Removes and then Adds, when they do not revert.
LEMMA RemovesThenAdds ==
    ASSUME NEW ds, Good(ds), NEW cuts \in Seq(FacetCuts), RemovesFirst(cuts),
           NEW deployed \in SUBSET Addresses, diamondCut(ds, cuts, deployed).ok
    PROVE  Good(diamondCut(ds, cuts, deployed).ds) /\ Laid(diamondCut(ds, cuts, deployed).ds, ds, cuts, Len(cuts))
<1>1. PICK N : N = Len(cuts)
  BY Zenon
<1>2. N \in Nat
  BY <1>1, SMTT(30)
<1>3. PICK g : /\ g[0] = ds /\ g[N] = diamondCut(ds, cuts, deployed).ds
               /\ \A n \in 0 .. N : Good(g[n])
               /\ \A n \in 1 .. N : Rerouted(g[n], g[n - 1], cuts[n])
  <2>1. PICK g : /\ g[0] = ds /\ g[Len(cuts)] = diamondCut(ds, cuts, deployed).ds
                 /\ \A n \in 0 .. Len(cuts) : Good(g[n])
                 /\ \A n \in 1 .. Len(cuts) : Rerouted(g[n], g[n - 1], cuts[n])
    BY CutByCut, SMTT(30)
  <2>2. /\ g[0] = ds /\ g[N] = diamondCut(ds, cuts, deployed).ds
        /\ \A n \in 0 .. N : Good(g[n])
        /\ \A n \in 1 .. N : Rerouted(g[n], g[n - 1], cuts[n])
    BY <1>1, <2>1, Zenon
  <2>3. QED
    BY <2>2, Zenon
<1> DEFINE S == {n \in 0 .. N : Laid(g[n], ds, cuts, n)}
<1>4. 0 \in S
  <2>1. 1 .. 0 = {}
    BY SMTT(30)
  <2>2. Laid(ds, ds, cuts, 0)
    BY <2>1, Zenon DEF Laid, Among, Same
  <2>3. QED
    BY <1>2, <1>3, <2>2, SMTT(30)
<1>5. ASSUME NEW n \in 0 .. N, n # N, n \in S
      PROVE  n + 1 \in S
  <2>1. n + 1 \in 0 .. N /\ n + 1 \in 1 .. N /\ (n + 1) - 1 = n /\ n \in Nat /\ n < Len(cuts)
    BY <1>1, <1>2, <1>5, SMTT(30)
  <2>2. Rerouted(g[n + 1], g[n], cuts[n + 1])
    BY <1>3, <2>1, Zenon
  <2>3. Laid(g[n], ds, cuts, n)
    BY <1>5, Zenon
  <2>4. PICK r, x : r = g[n] /\ x = g[n + 1]
    BY Zenon
  <2>5. Laid(x, ds, cuts, n + 1)
    <3>1. n \in Nat /\ n < Len(cuts)
      BY <2>1, Zenon
    <3>2. Laid(r, ds, cuts, n) /\ Rerouted(x, r, cuts[n + 1])
      BY <2>2, <2>3, <2>4, Zenon
    <3>3. QED
      BY <3>1, <3>2, OneMoreIsLaid, Zenon
  <2>6. QED
    BY <2>1, <2>4, <2>5, Zenon
<1> HIDE DEF S
<1>6. N \in 0 .. N /\ N \in S
  <2>1. \A n \in 0 .. N : n \in S
    BY <1>2, <1>4, <1>5, UpTo, Zenon
  <2>2. N \in 0 .. N
    BY <1>2, SMTT(30)
  <2>3. QED
    BY <2>1, <2>2, Zenon
<1>7. QED
  BY <1>1, <1>3, <1>6, Zenon DEF S

\* No cut, no change.
LEMMA NoCuts ==
    ASSUME NEW ds, NEW deployed
    PROVE  diamondCut(ds, <<>>, deployed).ds = ds /\ diamondCut(ds, <<>>, deployed).ok
<1>1. Len(<<>>) = 0
  BY Zenon
<1>2. PICK g : /\ Cuttings(g, 0, ds, <<>>, deployed)
               /\ diamondCut(ds, <<>>, deployed) = IF g[0].ok THEN g[0] ELSE Reverted(ds)
  <2>1. PICK cuts : cuts = <<>>
    BY Zenon
  <2>2. Len(cuts) = 0 /\ Len(cuts) \in Nat
    BY <1>1, <2>1, Zenon
  <2>3. \E g : /\ Cuttings(g, Len(cuts), ds, cuts, deployed)
               /\ diamondCut(ds, cuts, deployed) = IF g[Len(cuts)].ok THEN g[Len(cuts)] ELSE Reverted(ds)
    BY <2>2, diamondCutLoops, Zenon
  <2>4. QED
    BY <2>1, <2>2, <2>3, Zenon
<1>3. g[0] = Done(ds)
  <2>1. \A n \in 0 .. 0 : g[n] = IF n = 0 THEN Done(ds) ELSE ThenCut(g[n - 1], (<<>>)[n], deployed)
    BY <1>2, Zenon DEF Cuttings
  <2>2. QED
    BY <2>1
<1>4. QED
  BY <1>2, <1>3, SMTT(30) DEF Done, Reverted

\* A diamond without facets is good.
LEMMA EmptyIsGood == Good(EmptyDiamond) /\ \A t \in Selectors : Leads(EmptyDiamond, t, Zero, FALSE)
<1>1. NoFacet \in Infos /\ NoFacet.facetAddress = Zero /\ NoFacet.isFreezable = FALSE
  BY Zenon DEF NoFacet, Infos
<1>2. \A t \in Selectors : At(EmptyDiamond, t) = NoFacet
  BY Zenon DEF At, EmptyDiamond
<1>3. \A f \in Addresses : List(EmptyDiamond, f) = <<>>
  BY Zenon DEF List, EmptyDiamond
<1>4. EmptyDiamond.facets = <<>> /\ DOMAIN <<>> = {}
  BY SMTT(30) DEF EmptyDiamond
<1>5. EmptyDiamond \in Diamonds
  <2>1. <<>> \in Seq(Selectors) /\ <<>> \in Seq(Addresses)
    BY SMTT(30)
  <2>2. [selectors |-> <<>>, facetPosition |-> 0] \in FacetData
    BY <2>1, Zenon DEF FacetData
  <2>3. QED
    BY <1>1, <2>1, <2>2, Zenon DEF EmptyDiamond, Diamonds
<1>6. Mapping(EmptyDiamond)
  BY <1>1, <1>2, <1>3, <1>4, Zenon DEF Mapping
<1>7. Listing(EmptyDiamond)
  BY <1>3, <1>4, Zenon DEF Listing
<1>8. QED
  BY <1>1, <1>2, <1>5, <1>6, <1>7, Zenon DEF Good, Leads

(***************************************************************************)
(* Part 2: versions and deadlines.                                         *)
(***************************************************************************)

\* The version is the manager's, or there is a cut to upgrade from it.
Supported(v) == v = ctm.protocolVersion \/ ctm.upgradeCut[v] # NoCut

\* A patch changes no facets.
PatchIsEmpty(v, cut) == Minor(cut.newVersion) = Minor(v) => cut.facetCuts = <<>>

ManagerOK ==
    /\ ctm = [protocolVersion |-> ctm.protocolVersion, initialCut |-> ctm.initialCut,
              upgradeCut |-> ctm.upgradeCut, deadline |-> ctm.deadline]
    /\ ctm.protocolVersion \in Versions
    /\ ctm.upgradeCut = [v \in Versions |-> ctm.upgradeCut[v]]
    /\ ctm.deadline = [v \in Versions |-> ctm.deadline[v]]
    /\ ctm.deadline[ctm.protocolVersion] \in {"finite", "past", "max"}
    /\ \A v \in Versions : ctm.upgradeCut[v] # NoCut =>
          /\ ctm.deadline[v] \in {"finite", "past", "max"}
          /\ ctm.upgradeCut[v].newVersion \in Versions
          /\ ctm.upgradeCut[v].newVersion > v
          /\ Supported(ctm.upgradeCut[v].newVersion)
          /\ PatchIsEmpty(v, ctm.upgradeCut[v])

ChainOK(ch) ==
    /\ DOMAIN ch = {"ds", "version", "tx", "batch"}
    /\ ch.version \in Versions
    /\ ch.tx \in {"none", "set", "batched"} /\ ch.batch \in {0, 1}
    /\ ch.tx = "batched" => ch.batch = 1

ChainsOK ==
    /\ chainIds \in Seq(Chains)
    /\ chains = [c \in Chains |-> chains[c]]
    /\ \A c \in Range(chainIds) : ChainOK(chains[c]) /\ Supported(chains[c].version)

\* What the verifier let through (verify_set_new_version_upgrade_payload).
AcceptedOK ==
    accepted # <<>> => /\ accepted[1].old = OldVersion /\ accepted[1].new = NewVersion
                       /\ accepted[1].deadline = "max"

VersionsInv == ManagerOK /\ ChainsOK /\ AcceptedOK

\* What the proofs use of the assumptions on the versions.
LEMMA VersionNumbers ==
    /\ StartVersion \in Nat /\ OldVersion \in Nat /\ NewVersion \in Nat
    /\ PatchBase \in Nat /\ PatchBase # 0 /\ MaxPatch \in Nat
    /\ StartVersion <= OldVersion /\ Minor(OldVersion) < Minor(NewVersion)
<1>1. /\ {StartVersion, OldVersion, NewVersion} \subseteq Nat /\ PatchBase \in Nat \ {0}
      /\ StartVersion <= OldVersion /\ OldVersion \div PatchBase < NewVersion \div PatchBase
      /\ MaxPatch \in 0 .. PatchBase - 1
  BY ConstantsAssumption, Zenon
<1>2. QED
  BY <1>1 DEF Minor

\* A greater version has no smaller minor version.
LEMMA MinorGrows ==
    ASSUME NEW v \in Nat, NEW w \in Nat, v <= w
    PROVE  Minor(v) \in Nat /\ Minor(w) \in Nat /\ Minor(v) <= Minor(w)
<1> DEFINE a == Minor(v)
           b == Minor(w)
<1>0. PatchBase \in Nat /\ PatchBase # 0
  BY VersionNumbers, Zenon
<1>1. /\ a \in Int /\ b \in Int
      /\ PatchBase * a <= v /\ v < PatchBase * (a + 1)
      /\ PatchBase * b <= w /\ w < PatchBase * (b + 1)
  BY <1>0, SMTT(30) DEF Minor
<1> HIDE DEF a, b
<1>2. a <= b
  BY <1>0, <1>1, SMTT(30)
<1>3. QED
  BY <1>0, <1>1, <1>2, SMTT(30) DEF a, b

\* The v31 version is a later one, of a later minor version.
LEMMA NewIsLater ==
    /\ OldVersion < NewVersion /\ StartVersion < NewVersion
    /\ \A v \in Nat : Minor(v) = Minor(StartVersion) => v < NewVersion
<1>2. /\ OldVersion \in Nat /\ NewVersion \in Nat /\ StartVersion \in Nat /\ StartVersion <= OldVersion
      /\ Minor(OldVersion) < Minor(NewVersion)
  BY VersionNumbers, Zenon
<1>3. ASSUME NEW v \in Nat, Minor(v) < Minor(NewVersion)
      PROVE  v < NewVersion
  <2> SUFFICES ASSUME ~(v < NewVersion) PROVE FALSE
    BY Zenon
  <2>1. NewVersion <= v
    BY <1>2, SMTT(30)
  <2>2. Minor(NewVersion) \in Nat /\ Minor(v) \in Nat /\ Minor(NewVersion) <= Minor(v)
    BY <1>2, <2>1, MinorGrows, Zenon
  <2>3. QED
    BY <1>3, <2>2, SMTT(30)
<1>4. Minor(StartVersion) \in Nat /\ Minor(OldVersion) \in Nat /\ Minor(StartVersion) <= Minor(OldVersion)
  BY <1>2, MinorGrows, Zenon
<1>5. Minor(NewVersion) \in Nat
  BY <1>2, MinorGrows, SMTT(30)
<1>6. Minor(StartVersion) < Minor(NewVersion)
  BY <1>2, <1>4, <1>5, SMTT(30)
<1>7. QED
  BY <1>2, <1>3, <1>6, Zenon

\* The versions are natural numbers.
LEMMA VersionsAreNumbers ==
    /\ \A v \in Versions : v \in Nat /\ StartVersion <= v
    /\ StartVersion \in Versions /\ OldVersion \in Versions /\ NewVersion \in Versions
BY VersionNumbers, NewIsLater, SMTT(30) DEF Versions

\* Publishing a version (_setNewVersionUpgrade): the manager's version moves on
\* and the one before it gets its cut and its deadline.
LEMMA Publishes ==
    ASSUME VersionsInv,
           NEW cut, NEW initial, NEW d \in {"finite", "past", "max"},
           cut.newVersion \in Versions, cut.newVersion > ctm.protocolVersion,
           PatchIsEmpty(ctm.protocolVersion, cut),
           ctm' = [protocolVersion |-> cut.newVersion,
                   initialCut |-> initial,
                   upgradeCut |-> [ctm.upgradeCut EXCEPT ![ctm.protocolVersion] = cut],
                   deadline |-> [ctm.deadline EXCEPT ![ctm.protocolVersion] = d, ![cut.newVersion] = "max"]],
           UNCHANGED <<chainIds, chains, accepted>>
    PROVE  VersionsInv'
<1> DEFINE pv == ctm.protocolVersion
           new == cut.newVersion
<1>v. \A v \in Versions : v \in Nat
  BY VersionsAreNumbers, Zenon
<1>1. /\ pv \in Versions /\ new \in Versions /\ new > pv /\ new # pv /\ new # 0
      /\ ctm.upgradeCut = [v \in Versions |-> ctm.upgradeCut[v]]
      /\ ctm.deadline = [v \in Versions |-> ctm.deadline[v]]
  <2>1. pv \in Versions /\ new \in Versions /\ new > pv
    BY Zenon DEF VersionsInv, ManagerOK
  <2>2. new # pv /\ new # 0
    BY <1>v, <2>1, SMTT(30)
  <2>3. QED
    BY <2>1, <2>2, Zenon DEF VersionsInv, ManagerOK
<1>2. cut # NoCut
  BY <1>1, SMTT(30) DEF NoCut
<1>3. /\ ctm'.protocolVersion = new
      /\ ctm'.upgradeCut = [ctm.upgradeCut EXCEPT ![pv] = cut]
      /\ ctm'.deadline = [ctm.deadline EXCEPT ![pv] = d, ![new] = "max"]
      /\ ctm' = [protocolVersion |-> ctm'.protocolVersion, initialCut |-> ctm'.initialCut,
                 upgradeCut |-> ctm'.upgradeCut, deadline |-> ctm'.deadline]
  BY Zenon
<1> HIDE DEF pv, new
<1>4. /\ ctm'.upgradeCut = [v \in Versions |-> ctm'.upgradeCut[v]]
      /\ ctm'.upgradeCut[pv] = cut
      /\ \A v \in Versions : v # pv => ctm'.upgradeCut[v] = ctm.upgradeCut[v]
  BY <1>1, <1>3, Zenon
<1>5. /\ ctm'.deadline = [v \in Versions |-> ctm'.deadline[v]]
      /\ ctm'.deadline[pv] = d /\ ctm'.deadline[new] = "max"
      /\ \A v \in Versions : v # pv /\ v # new => ctm'.deadline[v] = ctm.deadline[v]
  BY <1>1, <1>3, Zenon
<1>6. \A v \in Versions : Supported(v) => Supported(v)'
  BY <1>2, <1>4, Zenon DEF Supported, pv
<1>7. Supported(new)'
  BY <1>3, Zenon DEF Supported
<1>8. ASSUME NEW v \in Versions, ctm'.upgradeCut[v] # NoCut
      PROVE  /\ ctm'.deadline[v] \in {"finite", "past", "max"}
             /\ ctm'.upgradeCut[v].newVersion \in Versions
             /\ ctm'.upgradeCut[v].newVersion > v
             /\ Supported(ctm.upgradeCut[v].newVersion)'
             /\ PatchIsEmpty(v, ctm'.upgradeCut[v])
  <2>1. CASE v = pv
    BY <1>1, <1>4, <1>5, <1>7, <2>1, Zenon DEF new, pv
  <2>2. CASE v # pv
    <3>1. ctm'.upgradeCut[v] = ctm.upgradeCut[v]
      BY <1>4, <2>2, Zenon
    <3>2. /\ ctm.deadline[v] \in {"finite", "past", "max"}
          /\ ctm.upgradeCut[v].newVersion \in Versions
          /\ ctm.upgradeCut[v].newVersion > v
          /\ Supported(ctm.upgradeCut[v].newVersion)
          /\ PatchIsEmpty(v, ctm.upgradeCut[v])
      BY <1>8, <3>1, Zenon DEF VersionsInv, ManagerOK
    <3>3. ctm'.deadline[v] \in {"finite", "past", "max"}
      BY <1>5, <2>2, <3>2, Zenon
    <3>4. QED
      BY <1>6, <3>1, <3>2, <3>3, Zenon
  <2>3. QED
    BY <2>1, <2>2, Zenon
<1>9. ManagerOK'
  BY <1>1, <1>3, <1>4, <1>5, <1>8, Zenon DEF ManagerOK
<1>10. ChainsOK'
  <2>1. \A c \in Range(chainIds) : ChainOK(chains[c]) /\ Supported(chains[c].version)'
    BY <1>6, Zenon DEF VersionsInv, ChainsOK, ChainOK
  <2>2. QED
    BY <2>1, Zenon DEF VersionsInv, ChainsOK
<1>11. AcceptedOK'
  BY Zenon DEF VersionsInv, AcceptedOK
<1>12. QED
  BY <1>9, <1>10, <1>11, Zenon DEF VersionsInv

\* A deadline changes or passes.
LEMMA DeadlineMoves ==
    ASSUME VersionsInv,
           NEW v \in Versions, NEW d \in {"finite", "past", "max"},
           ctm' = [ctm EXCEPT !.deadline[v] = d],
           UNCHANGED <<chainIds, chains, accepted>>
    PROVE  VersionsInv'
<1>1. /\ ctm.protocolVersion \in Versions
      /\ ctm.deadline = [w \in Versions |-> ctm.deadline[w]]
      /\ ctm.upgradeCut = [w \in Versions |-> ctm.upgradeCut[w]]
      /\ ctm = [protocolVersion |-> ctm.protocolVersion, initialCut |-> ctm.initialCut,
                upgradeCut |-> ctm.upgradeCut, deadline |-> ctm.deadline]
  BY Zenon DEF VersionsInv, ManagerOK
<1>2. /\ ctm'.protocolVersion = ctm.protocolVersion /\ ctm'.upgradeCut = ctm.upgradeCut
      /\ ctm'.deadline = [ctm.deadline EXCEPT ![v] = d]
      /\ ctm' = [protocolVersion |-> ctm'.protocolVersion, initialCut |-> ctm'.initialCut,
                 upgradeCut |-> ctm'.upgradeCut, deadline |-> ctm'.deadline]
  BY <1>1, Zenon
<1>3. /\ ctm'.deadline = [w \in Versions |-> ctm'.deadline[w]]
      /\ ctm'.deadline[v] = d
      /\ \A w \in Versions : w # v => ctm'.deadline[w] = ctm.deadline[w]
  BY <1>1, <1>2, Zenon
<1>4. \A w : Supported(w)' = Supported(w)
  BY <1>2, Zenon DEF Supported
<1>5. \A w \in Versions : ctm.deadline[w] \in {"finite", "past", "max"} =>
                             ctm'.deadline[w] \in {"finite", "past", "max"}
  BY <1>3, Zenon
<1>6. ctm'.deadline[ctm'.protocolVersion] \in {"finite", "past", "max"}
  BY <1>1, <1>2, <1>5, Zenon DEF VersionsInv, ManagerOK
<1>7. ASSUME NEW w \in Versions, ctm'.upgradeCut[w] # NoCut
      PROVE  /\ ctm'.deadline[w] \in {"finite", "past", "max"}
             /\ ctm'.upgradeCut[w].newVersion \in Versions
             /\ ctm'.upgradeCut[w].newVersion > w
             /\ Supported(ctm.upgradeCut[w].newVersion)'
             /\ PatchIsEmpty(w, ctm'.upgradeCut[w])
  <2>1. /\ ctm.deadline[w] \in {"finite", "past", "max"}
        /\ ctm.upgradeCut[w].newVersion \in Versions
        /\ ctm.upgradeCut[w].newVersion > w
        /\ Supported(ctm.upgradeCut[w].newVersion)
        /\ PatchIsEmpty(w, ctm.upgradeCut[w])
    BY <1>2, <1>7, Zenon DEF VersionsInv, ManagerOK
  <2>2. QED
    BY <1>2, <1>4, <1>5, <2>1, Zenon
<1>8. ManagerOK'
  BY <1>1, <1>2, <1>3, <1>6, <1>7, SMTT(30) DEF ManagerOK
<1>9. ChainsOK'
  BY <1>4, Zenon DEF VersionsInv, ChainsOK
<1>10. AcceptedOK'
  BY Zenon DEF VersionsInv, AcceptedOK
<1>11. QED
  BY <1>8, <1>9, <1>10, Zenon DEF VersionsInv

\* One chain changes, or is created.
LEMMA ChainMoves ==
    ASSUME VersionsInv,
           NEW c \in Chains, NEW x, ChainOK(x), Supported(x.version),
           chains' = [chains EXCEPT ![c] = x],
           chainIds' \in Seq(Chains), Range(chainIds') \subseteq Range(chainIds) \cup {c},
           UNCHANGED <<ctm, accepted>>
    PROVE  VersionsInv'
<1>1. \A w : Supported(w)' = Supported(w)
  BY Zenon DEF Supported
<1>2. /\ chains' = [d \in Chains |-> chains'[d]] /\ chains'[c] = x
      /\ \A d \in Chains : d # c => chains'[d] = chains[d]
  BY Zenon DEF VersionsInv, ChainsOK
<1>3. \A d \in Range(chainIds') : d \in Chains
  BY DEF Range
<1>4. \A d \in Range(chainIds') : ChainOK(chains'[d]) /\ Supported(chains'[d].version)
  BY <1>2, <1>3, Zenon DEF VersionsInv, ChainsOK
<1>5. ChainsOK'
  BY <1>1, <1>2, <1>4, Zenon DEF ChainsOK
<1>6. ManagerOK'
  BY <1>1, Zenon DEF VersionsInv, ManagerOK
<1>7. AcceptedOK'
  BY Zenon DEF VersionsInv, AcceptedOK
<1>8. QED
  BY <1>5, <1>6, <1>7, Zenon DEF VersionsInv

\* A live chain is one of the chains, and its state has the parts of a chain.
LEMMA LiveChain ==
    ASSUME VersionsInv, NEW c, Live(c)
    PROVE  c \in Chains /\ ChainOK(chains[c]) /\ Supported(chains[c].version)
<1>1. c \in Chains
  BY DEF VersionsInv, ChainsOK, Live, Range
<1>2. QED
  BY <1>1, Zenon DEF VersionsInv, ChainsOK, Live

\* Every step keeps the invariant.
LEMMA VersionsInvStep ==
    ASSUME VersionsInv, [Next]_vars
    PROVE  VersionsInv'
<1>v. \A v \in Versions : v \in Nat
  BY VersionsAreNumbers, Zenon
<1>c. /\ ctm = [protocolVersion |-> ctm.protocolVersion, initialCut |-> ctm.initialCut,
                upgradeCut |-> ctm.upgradeCut, deadline |-> ctm.deadline]
      /\ ctm.protocolVersion \in Versions
  BY Zenon DEF VersionsInv, ManagerOK
<1>s. /\ chainIds \in Seq(Chains)
      /\ chains = [c \in Chains |-> chains[c]]
  BY Zenon DEF VersionsInv, ChainsOK
<1>0. CASE UNCHANGED <<ctm, chainIds, chains, accepted>>
  BY <1>0, Zenon DEF VersionsInv, ManagerOK, ChainsOK, AcceptedOK, Supported
<1>1. CASE Deploy
  BY <1>0, <1>1, Zenon DEF Deploy
<1>2. CASE Stage1
  <2> DEFINE a == accepted[1]
             cut == [facetCuts |-> a.cuts, newVersion |-> a.new, l2Tx |-> TRUE]
  <2>1. a.old = ctm.protocolVersion /\ a.old = OldVersion /\ a.new = NewVersion /\ a.deadline = "max"
    BY <1>2, Zenon DEF Stage1, CanSetNewVersionUpgrade, VersionsInv, AcceptedOK
  <2>2. cut.newVersion \in Versions /\ cut.newVersion > ctm.protocolVersion
    BY <2>1, NewIsLater, VersionsAreNumbers, Zenon
  <2>p. PatchIsEmpty(ctm.protocolVersion, cut)
    <3>1. Minor(OldVersion) # Minor(NewVersion)
      BY VersionNumbers, MinorGrows, SMTT(30)
    <3>2. QED
      BY <2>1, <3>1, Zenon DEF PatchIsEmpty
  <2>3. ctm' = _setNewVersionUpgrade([ctm EXCEPT !.initialCut = a.creation], cut, ctm.protocolVersion, "max")
    BY <1>2, <2>1, Zenon DEF Stage1
  <2>4. UNCHANGED <<chainIds, chains, accepted>>
    BY <1>2, Zenon DEF Stage1
  <2> HIDE DEF cut, a
  <2>5. ctm' = [protocolVersion |-> cut.newVersion,
                initialCut |-> a.creation,
                upgradeCut |-> [ctm.upgradeCut EXCEPT ![ctm.protocolVersion] = cut],
                deadline |-> [ctm.deadline EXCEPT ![ctm.protocolVersion] = "max", ![cut.newVersion] = "max"]]
    BY <1>c, <2>3, Zenon DEF _setNewVersionUpgrade
  <2>6. QED
    BY <2>2, <2>p, <2>4, <2>5, Publishes, Zenon
<1>3. ASSUME NEW v \in Patches, NEW d \in PatchDeadlines, createNewPatchUpgrade(v, d)
      PROVE  VersionsInv'
  <2> DEFINE cut == [facetCuts |-> <<>>, newVersion |-> v, l2Tx |-> FALSE]
  <2>1. cut.newVersion \in Versions /\ cut.newVersion > ctm.protocolVersion
    BY <1>3, Zenon DEF createNewPatchUpgrade, Patches
  <2>p. PatchIsEmpty(ctm.protocolVersion, cut)
    BY Zenon DEF PatchIsEmpty
  <2>2. d \in {"finite", "past", "max"}
    BY ConstantsAssumption, Zenon
  <2>3. ctm' = _setNewVersionUpgrade(ctm, cut, ctm.protocolVersion, d) /\ UNCHANGED <<chainIds, chains, accepted>>
    BY <1>3, Zenon DEF createNewPatchUpgrade
  <2> HIDE DEF cut
  <2>4. ctm' = [protocolVersion |-> cut.newVersion,
                initialCut |-> ctm.initialCut,
                upgradeCut |-> [ctm.upgradeCut EXCEPT ![ctm.protocolVersion] = cut],
                deadline |-> [ctm.deadline EXCEPT ![ctm.protocolVersion] = d, ![cut.newVersion] = "max"]]
    BY <1>c, <2>3, Zenon DEF _setNewVersionUpgrade
  <2>5. QED
    BY <2>1, <2>p, <2>2, <2>3, <2>4, Publishes, Zenon
<1>4. ASSUME NEW v \in Versions, Expire(v)
      PROVE  VersionsInv'
  BY <1>4, DeadlineMoves, Zenon DEF Expire
<1>5. ASSUME NEW v \in Versions, NEW d \in DeadlineChanges, setProtocolVersionDeadline(v, d)
      PROVE  VersionsInv'
  <2>1. d \in {"finite", "past", "max"}
    BY ConstantsAssumption, Zenon
  <2>2. QED
    BY <1>5, <2>1, DeadlineMoves, Zenon DEF setProtocolVersionDeadline
<1>6. ASSUME NEW c \in Chains, PrepareAndVerify(c)
      PROVE  VersionsInv'
  <2>1. PICK a : verify_set_new_version_upgrade_payload(a) /\ accepted' = <<a>>
    BY <1>6, Zenon DEF PrepareAndVerify
  <2>2. AcceptedOK'
    BY <2>1, Zenon DEF AcceptedOK, verify_set_new_version_upgrade_payload
  <2>3. UNCHANGED <<ctm, chainIds, chains>>
    BY <1>6, Zenon DEF PrepareAndVerify
  <2>4. QED
    BY <2>2, <2>3, Zenon DEF VersionsInv, ManagerOK, ChainsOK, Supported
<1>7. ASSUME NEW c \in Chains, createNewChain(c)
      PROVE  VersionsInv'
  <2>1. PICK ds : chains' = [chains EXCEPT ![c] = [ds |-> ds, version |-> ctm.protocolVersion,
                                                   tx |-> "set", batch |-> 0]]
    BY <1>7, Zenon DEF createNewChain
  <2> DEFINE x == [ds |-> ds, version |-> ctm.protocolVersion, tx |-> "set", batch |-> 0]
  <2>2. ChainOK(x) /\ Supported(x.version)
    BY <1>c, Zenon DEF ChainOK, Supported
  <2>3. chainIds' = Append(chainIds, c) /\ UNCHANGED <<ctm, accepted>>
    BY <1>7, Zenon DEF createNewChain
  <2>4. chainIds' \in Seq(Chains) /\ Range(chainIds') \subseteq Range(chainIds) \cup {c}
    BY <1>s, <2>3, SMTT(30) DEF Range
  <2>5. chains' = [chains EXCEPT ![c] = x]
    BY <2>1, Zenon
  <2> HIDE DEF x
  <2>6. QED
    BY <2>2, <2>3, <2>4, <2>5, ChainMoves, Zenon
<1>8. ASSUME NEW c \in Chains, upgradeChainFromVersion(c)
      PROVE  VersionsInv'
  <2> DEFINE ch == chains[c]
             cut == ctm.upgradeCut[ch.version]
  <2>1. PICK ds : chains' = [chains EXCEPT ![c] = [ch EXCEPT !.ds = ds, !.version = cut.newVersion,
                                                             !.tx = IF cut.l2Tx THEN "set" ELSE @]]
    BY <1>8, Zenon DEF upgradeChainFromVersion
  <2> DEFINE x == [ch EXCEPT !.ds = ds, !.version = cut.newVersion, !.tx = IF cut.l2Tx THEN "set" ELSE @]
  <2>2. ChainOK(ch) /\ cut # NoCut /\ UNCHANGED <<ctm, chainIds, accepted>>
    BY <1>8, LiveChain, Zenon DEF upgradeChainFromVersion
  <2>3. cut.newVersion \in Versions /\ Supported(cut.newVersion)
    BY <2>2, Zenon DEF VersionsInv, ManagerOK, ChainOK
  <2>4. chains' = [chains EXCEPT ![c] = x]
    BY <2>1, Zenon
  <2>5. ChainOK(x) /\ Supported(x.version)
    BY <2>2, <2>3, Zenon DEF ChainOK
  <2> HIDE DEF x
  <2>6. QED
    BY <1>s, <2>2, <2>4, <2>5, ChainMoves, Zenon
<1>9. ASSUME NEW c \in Chains, Commit(c)
      PROVE  VersionsInv'
  <2> DEFINE ch == chains[c]
             n == IF ch.tx = "set" THEN "batched" ELSE ch.tx
             x == [ch EXCEPT !.batch = 1, !.tx = n]
  <2>1. ChainOK(ch) /\ Supported(ch.version) /\ UNCHANGED <<ctm, chainIds, accepted>>
    BY <1>9, LiveChain, Zenon DEF Commit
  <2>2. chains' = [chains EXCEPT ![c] = x]
    BY <1>9, <1>s, Zenon DEF Commit
  <2>3. ChainOK(x) /\ Supported(x.version)
    BY <2>1 DEF ChainOK
  <2> HIDE DEF x
  <2>4. QED
    BY <1>s, <2>1, <2>2, <2>3, ChainMoves, Zenon
<1>10. ASSUME NEW c \in Chains, Execute(c)
       PROVE  VersionsInv'
  <2> DEFINE ch == chains[c]
             x == [ch EXCEPT !.batch = 0, !.tx = "none"]
  <2>1. ChainOK(ch) /\ Supported(ch.version) /\ UNCHANGED <<ctm, chainIds, accepted>>
    BY <1>10, LiveChain, Zenon DEF Execute
  <2>2. chains' = [chains EXCEPT ![c] = x]
    BY <1>10, <1>s, Zenon DEF Execute
  <2>3. ChainOK(x) /\ Supported(x.version)
    BY <2>1 DEF ChainOK
  <2> HIDE DEF x
  <2>4. QED
    BY <1>s, <2>1, <2>2, <2>3, ChainMoves, Zenon
<1>11. ASSUME NEW c \in Chains, Revert(c)
       PROVE  VersionsInv'
  <2> DEFINE ch == chains[c]
             n == IF ch.tx = "batched" THEN "set" ELSE ch.tx
             x == [ch EXCEPT !.batch = 0, !.tx = n]
  <2>1. ChainOK(ch) /\ Supported(ch.version) /\ UNCHANGED <<ctm, chainIds, accepted>>
    BY <1>11, LiveChain, Zenon DEF Revert
  <2>2. chains' = [chains EXCEPT ![c] = x]
    BY <1>11, <1>s, Zenon DEF Revert
  <2>3. ChainOK(x) /\ Supported(x.version)
    BY <2>1 DEF ChainOK
  <2> HIDE DEF x
  <2>4. QED
    BY <1>s, <2>1, <2>2, <2>3, ChainMoves, Zenon
<1>12. ASSUME NEW c \in Chains, ToggleFreeze(c)
       PROVE  VersionsInv'
  <2> DEFINE ch == chains[c]
             n == [ch.ds EXCEPT !.isFrozen = ~@]
             x == [ch EXCEPT !.ds = n]
  <2>1. ChainOK(ch) /\ Supported(ch.version) /\ UNCHANGED <<ctm, chainIds, accepted>>
    BY <1>12, LiveChain, Zenon DEF ToggleFreeze
  <2>2. chains' = [chains EXCEPT ![c] = x]
    BY <1>12, <1>s, Zenon DEF ToggleFreeze
  <2>3. ChainOK(x) /\ Supported(x.version)
    BY <2>1, Zenon DEF ChainOK
  <2> HIDE DEF x
  <2>4. QED
    BY <1>s, <2>1, <2>2, <2>3, ChainMoves, Zenon
<1>13. QED
  BY <1>0, <1>1, <1>2, <1>3, <1>4, <1>5, <1>6, <1>7, <1>8, <1>9, <1>10, <1>11, <1>12 DEF Next, vars

\* A chain that cannot move has an expired version.  When that is not the
\* manager's, there is a cut that it may not apply: not a patch, which changes
\* no facets and waits for nothing.
LEMMA StuckMeansExpired ==
    ASSUME VersionsInv
    PROVE  StuckOnlyByDeadline
<1> SUFFICES ASSUME NEW c \in Range(chainIds), ~CanMove(c)
             PROVE  /\ ctm.deadline[chains[c].version] = "past"
                    /\ \/ chains[c].version = ctm.protocolVersion
                       \/ /\ Minor(ctm.upgradeCut[chains[c].version].newVersion) > Minor(chains[c].version)
                          /\ chains[c].tx = "set" \/ ~CutApplies(c)
  BY Zenon DEF StuckOnlyByDeadline
<1> DEFINE ch == chains[c]
           v == ch.version
           cut == ctm.upgradeCut[v]
<1>1. ChainOK(ch) /\ Supported(v)
  BY Zenon DEF VersionsInv, ChainsOK
<1>2. v \in Versions
  BY <1>1, Zenon DEF ChainOK
<1>3. /\ ch.batch # 1 /\ ~protocolVersionIsActive(v)
      /\ cut = NoCut \/ ~_setNewProtocolVersionOK(ch, cut.newVersion) \/ ~CutApplies(c)
  BY Zenon DEF CanMove
<1>4. ctm.deadline[v] \in {"finite", "past", "max"}
  BY <1>1, <1>2, Zenon DEF Supported, VersionsInv, ManagerOK
<1>5. ctm.deadline[v] = "past"
  BY <1>3, <1>4, Zenon DEF protocolVersionIsActive
<1>6. ASSUME v # ctm.protocolVersion
      PROVE  Minor(cut.newVersion) > Minor(v) /\ (ch.tx = "set" \/ ~CutApplies(c))
  <2>1. cut # NoCut
    BY <1>1, <1>6, Zenon DEF Supported
  <2>2. cut.newVersion \in Versions /\ cut.newVersion > v /\ PatchIsEmpty(v, cut)
    BY <1>2, <2>1, Zenon DEF VersionsInv, ManagerOK
  <2>3. Minor(cut.newVersion) # Minor(v)
    <3>1. SUFFICES ASSUME Minor(cut.newVersion) = Minor(v) PROVE FALSE
      BY Zenon
    <3>2. cut.facetCuts = <<>>
      BY <2>2, <3>1, Zenon DEF PatchIsEmpty
    <3>3. CutApplies(c)
      BY <3>2, NoCuts, Zenon DEF CutApplies
    <3>4. _setNewProtocolVersionOK(ch, cut.newVersion)
      BY <2>2, <3>1, Zenon DEF _setNewProtocolVersionOK
    <3>5. QED
      BY <1>3, <2>1, <3>3, <3>4, Zenon
  <2>4. Minor(cut.newVersion) > Minor(v)
    <3>1. v \in Nat /\ cut.newVersion \in Nat /\ v <= cut.newVersion
      BY <1>2, <2>2, VersionsAreNumbers, SMTT(30)
    <3>2. Minor(v) \in Nat /\ Minor(cut.newVersion) \in Nat /\ Minor(v) <= Minor(cut.newVersion)
      BY <3>1, MinorGrows, Zenon
    <3>3. QED
      BY <2>3, <3>2, SMTT(30)
  <2>5. CASE CutApplies(c)
    <3>1. ch.tx # "none"
      BY <1>3, <2>1, <2>2, <2>5, Zenon DEF _setNewProtocolVersionOK
    <3>2. QED
      BY <1>1, <1>3, <2>4, <3>1, Zenon DEF ChainOK
  <2>6. QED
    BY <2>4, <2>5, Zenon
<1>7. QED
  BY <1>5, <1>6, Zenon

\* The invariant holds at first.
LEMMA VersionsInvInit ==
    ASSUME Init
    PROVE  VersionsInv
<1>1. StartVersion \in Versions
  BY VersionsAreNumbers, Zenon
<1>2. ManagerOK
  BY <1>1, Zenon DEF Init, ManagerOK
<1>3. ChainsOK
  BY DEF Init, ChainsOK, Range
<1>4. QED
  BY <1>2, <1>3, Zenon DEF Init, VersionsInv, AcceptedOK

\* A chain that can neither commit, execute nor upgrade has an expired version,
\* and either it is the manager's current one, which only its owner can have
\* closed, or the next minor version's cut cannot be applied: the chain's
\* upgrade transaction is outstanding (Committer.sol,
\* commitBatchesSharedBridge) or the cut itself reverts.  For every set of
\* chains and every sequence of patches, deadlines, reverts and freezes.
THEOREM NoChainIsStuckBeforeItsDeadline == Spec => []StuckOnlyByDeadline
<1>1. Init => VersionsInv
  BY VersionsInvInit, Zenon
<1>2. VersionsInv /\ [Next]_vars => VersionsInv'
  BY VersionsInvStep, Zenon
<1>3. VersionsInv => StuckOnlyByDeadline
  BY StuckMeansExpired, Zenon
<1>4. QED
  BY <1>1, <1>2, <1>3, PTL DEF Spec

(***************************************************************************)
(* Part 3: facets.                                                         *)
(***************************************************************************)

\* The routes of a chain created with the facets before v31, whatever code
\* there was then.
OldRouted(ds) ==
    \E deployed \in SUBSET Addresses :
       /\ diamondCut(EmptyDiamond, InitialCut, deployed).ok
       /\ \A t \in Selectors : Same(ds, diamondCut(EmptyDiamond, InitialCut, deployed).ds, t)

\* The routes of v31: its facets, and no other.
V31Routed(ds) ==
    /\ \A e \in expected_v31_added_facets : \A t \in e.selectors : Leads(ds, t, e.facet, e.isFreezable)
    /\ \A t \in Selectors : (\A e \in expected_v31_added_facets : t \notin e.selectors) => Leads(ds, t, Zero, FALSE)

\* The facet cuts of an accepted artifact, for the chains there are and for new
\* ones.
UpgradeCuts(cuts) ==
    /\ cuts \in Seq(FacetCuts) /\ RemovesFirst(cuts)
    /\ \E ds : /\ Good(ds) /\ OldRouted(ds)
               /\ FacetCutSet(cuts) = FacetCutSet(getDeletionCuts(ds)) \cup expected_v31_added_facets

CreationCuts(cuts) ==
    /\ cuts \in Seq(FacetCuts) /\ \A i \in DOMAIN cuts : cuts[i].action = "Add"
    /\ FacetCutSet(cuts) = expected_v31_added_facets

\* The facets the verifier expects are added; their selectors are the code's.
LEMMA ExpectedFacets ==
    \A e \in expected_v31_added_facets : e.action = "Add" /\ e.selectors \subseteq Selectors
<1> SUFFICES ASSUME NEW e \in expected_v31_added_facets
             PROVE  e.action = "Add" /\ e.selectors \subseteq Selectors
  BY Zenon
<1>1. PICK i \in DOMAIN EXPECTED_V31_UPGRADE_FACETS :
         e = FacetInfo(EXPECTED_V31_UPGRADE_FACETS[i].facet, "Add", EXPECTED_V31_UPGRADE_FACETS[i].isFreezable,
                       facet_selectors_from_bytecode(EXPECTED_V31_UPGRADE_FACETS[i].facet))
  BY Zenon DEF expected_v31_added_facets
<1>2. EXPECTED_V31_UPGRADE_FACETS[i].facet \in Addresses
  BY NewFacetsAssumption, Zenon DEF NewFacets
<1>3. Bytecode[EXPECTED_V31_UPGRADE_FACETS[i].facet] \subseteq Selectors
  <2>1. Bytecode \in [Addresses -> SUBSET Selectors]
    BY ConstantsAssumption, Zenon
  <2>2. QED
    BY <1>2, <2>1, Zenon
<1>4. QED
  BY <1>1, <1>3, Zenon DEF FacetInfo, facet_selectors_from_bytecode

\* Two diamonds with the routes before v31 have the same.
LEMMA OldRoutesAreSame ==
    ASSUME NEW ds, NEW e, OldRouted(ds), OldRouted(e)
    PROVE  \A t \in Selectors : Same(ds, e, t)
<1>1. PICK k \in SUBSET Addresses :
        /\ diamondCut(EmptyDiamond, InitialCut, k).ok
        /\ \A t \in Selectors : Same(ds, diamondCut(EmptyDiamond, InitialCut, k).ds, t)
  BY Zenon DEF OldRouted
<1>2. PICK j \in SUBSET Addresses :
        /\ diamondCut(EmptyDiamond, InitialCut, j).ok
        /\ \A t \in Selectors : Same(e, diamondCut(EmptyDiamond, InitialCut, j).ds, t)
  BY Zenon DEF OldRouted
<1>3. PICK x : x = EmptyDiamond
  BY Zenon
<1>4. Good(x) /\ \A t \in Selectors : Same(x, x, t)
  BY <1>3, EmptyIsGood, Zenon DEF Same
<1>5. InitialCut \in Seq(FacetCuts)
  BY ConstantsAssumption, Zenon
<1>6. PICK cuts : cuts = InitialCut
  BY Zenon
<1>7. \A t \in Selectors : Same(diamondCut(x, cuts, k).ds, diamondCut(x, cuts, j).ds, t)
  <2>1. cuts \in Seq(FacetCuts) /\ diamondCut(x, cuts, k).ok /\ diamondCut(x, cuts, j).ok
    BY <1>1, <1>2, <1>3, <1>5, <1>6, SMTT(30)
  <2>2. QED
    BY <1>4, <2>1, SameCutsSameRoutes, Zenon
<1>8. QED
  BY <1>1, <1>2, <1>3, <1>6, <1>7, SMTT(30) DEF Same

\* So have two with the routes of v31.
LEMMA V31RoutesAreSame ==
    ASSUME NEW ds, NEW x, V31Routed(ds), V31Routed(x)
    PROVE  \A t \in Selectors : Same(ds, x, t)
<1> SUFFICES ASSUME NEW t \in Selectors PROVE Same(ds, x, t)
  BY Zenon
<1>1. CASE \E e \in expected_v31_added_facets : t \in e.selectors
  <2>1. PICK e \in expected_v31_added_facets : t \in e.selectors
    BY <1>1, Zenon
  <2>2. Leads(ds, t, e.facet, e.isFreezable) /\ Leads(x, t, e.facet, e.isFreezable)
    BY <2>1, Zenon DEF V31Routed
  <2>3. QED
    BY <2>2, Zenon DEF Leads, Same
<1>2. CASE \A e \in expected_v31_added_facets : t \notin e.selectors
  <2>1. Leads(ds, t, Zero, FALSE) /\ Leads(x, t, Zero, FALSE)
    BY <1>2, Zenon DEF V31Routed
  <2>2. QED
    BY <2>1, Zenon DEF Leads, Same
<1>3. QED
  BY <1>1, <1>2, Zenon

\* The routes depend on the map of the selectors only (freezeDiamond).
LEMMA RoutesOfTheMap ==
    ASSUME NEW ds, NEW x, \A t \in Selectors : Same(x, ds, t)
    PROVE  (OldRouted(ds) => OldRouted(x)) /\ (V31Routed(ds) => V31Routed(x))
<1>1. ASSUME OldRouted(ds) PROVE OldRouted(x)
  <2>1. PICK k \in SUBSET Addresses :
        /\ diamondCut(EmptyDiamond, InitialCut, k).ok
        /\ \A t \in Selectors : Same(ds, diamondCut(EmptyDiamond, InitialCut, k).ds, t)
    BY <1>1, Zenon DEF OldRouted
  <2>2. \A t \in Selectors : Same(x, diamondCut(EmptyDiamond, InitialCut, k).ds, t)
    BY <2>1, Zenon DEF Same
  <2>3. QED
    BY <2>1, <2>2, Zenon DEF OldRouted
<1>2. ASSUME V31Routed(ds) PROVE V31Routed(x)
  <2>1. \A t \in Selectors : \A f, b : Leads(ds, t, f, b) => Leads(x, t, f, b)
    BY Zenon DEF Leads, Same
  <2>2. \A e \in expected_v31_added_facets : e.selectors \subseteq Selectors
    BY ExpectedFacets, Zenon
  <2>3. QED
    BY <1>2, <2>1, <2>2, Zenon DEF V31Routed
<1>3. QED
  BY <1>1, <1>2, Zenon

\* What a list of cuts has in common with the set the verifier makes of it.
LEMMA CutsOfTheSet ==
    ASSUME NEW cuts
    PROVE  /\ \A i \in DOMAIN cuts : \E e \in FacetCutSet(cuts) :
                 /\ e.facet = cuts[i].facet /\ e.action = cuts[i].action
                 /\ e.isFreezable = cuts[i].isFreezable /\ e.selectors = Range(cuts[i].selectors)
           /\ \A e \in FacetCutSet(cuts) : \E i \in DOMAIN cuts :
                 /\ e.facet = cuts[i].facet /\ e.action = cuts[i].action
                 /\ e.isFreezable = cuts[i].isFreezable /\ e.selectors = Range(cuts[i].selectors)
<1>1. ASSUME NEW i \in DOMAIN cuts
      PROVE  \E e \in FacetCutSet(cuts) :
                 /\ e.facet = cuts[i].facet /\ e.action = cuts[i].action
                 /\ e.isFreezable = cuts[i].isFreezable /\ e.selectors = Range(cuts[i].selectors)
  <2> DEFINE e == FacetInfo(cuts[i].facet, cuts[i].action, cuts[i].isFreezable, Range(cuts[i].selectors))
  <2>1. e \in FacetCutSet(cuts)
    BY Zenon DEF FacetCutSet
  <2>2. /\ e.facet = cuts[i].facet /\ e.action = cuts[i].action
        /\ e.isFreezable = cuts[i].isFreezable /\ e.selectors = Range(cuts[i].selectors)
    BY Zenon DEF FacetInfo
  <2>3. QED
    BY <2>1, <2>2, Zenon
<1>2. ASSUME NEW e \in FacetCutSet(cuts)
      PROVE  \E i \in DOMAIN cuts :
                 /\ e.facet = cuts[i].facet /\ e.action = cuts[i].action
                 /\ e.isFreezable = cuts[i].isFreezable /\ e.selectors = Range(cuts[i].selectors)
  <2>1. PICK i \in DOMAIN cuts :
           e = FacetInfo(cuts[i].facet, cuts[i].action, cuts[i].isFreezable, Range(cuts[i].selectors))
    BY Zenon DEF FacetCutSet
  <2>2. QED
    BY <2>1, Zenon DEF FacetInfo
<1>3. QED
  BY <1>1, <1>2, Zenon

\* The Removes made from a diamond's facets (getDeletionCuts) are Removes and
\* have every selector that leads somewhere.
LEMMA DeletionsAreComplete ==
    ASSUME NEW w, Good(w)
    PROVE  /\ \A e \in FacetCutSet(getDeletionCuts(w)) : e.action = "Remove"
           /\ \A t \in Selectors : At(w, t).facetAddress # Zero =>
                 \E e \in FacetCutSet(getDeletionCuts(w)) : t \in e.selectors
<1>1. PICK cuts : cuts = getDeletionCuts(w)
  BY Zenon
<1>2. /\ DOMAIN cuts = DOMAIN w.facets
      /\ \A i \in DOMAIN cuts : cuts[i] = Remove_(List(w, w.facets[i]))
  BY <1>1, Zenon DEF getDeletionCuts, FacetList, List
<1>3. \A i \in DOMAIN cuts : cuts[i].action = "Remove" /\ cuts[i].selectors = List(w, w.facets[i])
  <2>1. \A l : Remove_(l).action = "Remove" /\ Remove_(l).selectors = l
    BY Zenon DEF Remove_
  <2>2. QED
    BY <1>2, <2>1, Zenon
<1>4. ASSUME NEW e \in FacetCutSet(cuts) PROVE e.action = "Remove"
  BY <1>3, CutsOfTheSet, SMTT(30)
<1>5. ASSUME NEW t \in Selectors, At(w, t).facetAddress # Zero
      PROVE  \E e \in FacetCutSet(cuts) : t \in e.selectors
  <2>1. PICK f : f = At(w, t).facetAddress
    BY Zenon
  <2>2. PICK p : p = At(w, t).selectorPosition + 1
    BY Zenon
  <2>3. f \in Addresses /\ At(w, t).selectorPosition \in Nat
    BY <1>5, <2>1, Parts, Zenon DEF Good
  <2>4. List(w, f) \in Seq(Selectors) /\ Place(w, f) \in Nat /\ w.facets \in Seq(Addresses)
    BY <2>3, Parts, Zenon DEF Good
  <2>5. At(w, t).selectorPosition < Len(List(w, f)) /\ List(w, f)[p] = t
    BY <1>5, <2>1, <2>2, Zenon DEF Good, Mapping
  <2>6. p \in 1 .. Len(List(w, f)) /\ Len(List(w, f)) # 0
    BY <2>2, <2>3, <2>4, <2>5, SMTT(30)
  <2>7. p \in DOMAIN List(w, f) /\ List(w, f) # <<>>
    BY <2>4, <2>6, SMTT(30)
  <2>8. t \in Range(List(w, f))
    BY <2>5, <2>7, Zenon DEF Range
  <2>9. PICK i : i = Place(w, f) + 1
    BY Zenon
  <2>10. Place(w, f) < Len(w.facets) /\ w.facets[i] = f
    BY <2>3, <2>7, <2>9, Zenon DEF Good, Listing
  <2>11. i \in DOMAIN cuts
    BY <1>2, <2>4, <2>9, <2>10, SMTT(30)
  <2>12. cuts[i].selectors = List(w, f)
    BY <1>3, <2>10, <2>11, Zenon
  <2>13. PICK e \in FacetCutSet(cuts) : e.selectors = Range(cuts[i].selectors)
    BY <2>11, CutsOfTheSet, Zenon
  <2>14. QED
    BY <2>8, <2>12, <2>13, Zenon
<1>6. QED
  BY <1>1, <1>4, <1>5, SMTT(30)

\* Adding the facets of v31 with cuts that route every other selector nowhere.
LEMMA ExpectedAreLaid ==
    ASSUME NEW r, NEW ds, NEW cuts \in Seq(FacetCuts), Laid(r, ds, cuts, Len(cuts)),
           expected_v31_added_facets \subseteq FacetCutSet(cuts),
           \A e \in FacetCutSet(cuts) : e.action = "Add" => e \in expected_v31_added_facets,
           \A t \in Selectors : ~Among(cuts, Len(cuts), "Remove", t) => Leads(ds, t, Zero, FALSE)
    PROVE  V31Routed(r)
<1>1. DOMAIN cuts = 1 .. Len(cuts)
  BY SMTT(30)
<1>2. ASSUME NEW e \in expected_v31_added_facets, NEW t \in e.selectors
      PROVE  Leads(r, t, e.facet, e.isFreezable)
  <2>1. e \in FacetCutSet(cuts) /\ e.action = "Add"
    BY ExpectedFacets, Zenon
  <2>2. PICK i \in 1 .. Len(cuts) :
                 /\ e.facet = cuts[i].facet /\ e.action = cuts[i].action
                 /\ e.isFreezable = cuts[i].isFreezable /\ e.selectors = Range(cuts[i].selectors)
    <3>1. \E i \in DOMAIN cuts :
                 /\ e.facet = cuts[i].facet /\ e.action = cuts[i].action
                 /\ e.isFreezable = cuts[i].isFreezable /\ e.selectors = Range(cuts[i].selectors)
      BY <2>1, CutsOfTheSet, Zenon
    <3>2. QED
      BY <1>1, <3>1, Zenon
  <2>3. \A u \in Range(cuts[i].selectors) : Leads(r, u, cuts[i].facet, cuts[i].isFreezable)
    BY <2>1, <2>2, Zenon DEF Laid
  <2>4. QED
    BY <2>2, <2>3, Zenon
<1>3. ASSUME NEW t \in Selectors, \A e \in expected_v31_added_facets : t \notin e.selectors
      PROVE  Leads(r, t, Zero, FALSE)
  <2>1. ~Among(cuts, Len(cuts), "Add", t)
    <3> SUFFICES ASSUME NEW i \in 1 .. Len(cuts), cuts[i].action = "Add", t \in Range(cuts[i].selectors)
                 PROVE  FALSE
      BY Zenon DEF Among
    <3>1. PICK e \in FacetCutSet(cuts) : e.action = cuts[i].action /\ e.selectors = Range(cuts[i].selectors)
      BY <1>1, CutsOfTheSet, Zenon
    <3>2. QED
      BY <1>3, <3>1, Zenon
  <2>2. IF Among(cuts, Len(cuts), "Remove", t) THEN Leads(r, t, Zero, FALSE) ELSE Same(r, ds, t)
    BY <2>1, Zenon DEF Laid
  <2>3. CASE ~Among(cuts, Len(cuts), "Remove", t)
    <3>1. Same(r, ds, t) /\ Leads(ds, t, Zero, FALSE)
      BY <2>2, <2>3, Zenon
    <3>2. QED
      BY <3>1, Zenon DEF Same, Leads
  <2>4. QED
    BY <2>2, <2>3, Zenon
<1>4. QED
  BY <1>2, <1>3, Zenon DEF V31Routed

\* A chain of the version before v31 that applies the facet cuts of v31 gets
\* the routes of v31: the Removes, made from one chain's facets, clear every
\* route of this one.
LEMMA UpgradeRoutes ==
    ASSUME NEW ds, Good(ds), OldRouted(ds), NEW cuts, UpgradeCuts(cuts),
           NEW deployed \in SUBSET Addresses, diamondCut(ds, cuts, deployed).ok
    PROVE  Good(diamondCut(ds, cuts, deployed).ds) /\ V31Routed(diamondCut(ds, cuts, deployed).ds)
<1>1. cuts \in Seq(FacetCuts) /\ RemovesFirst(cuts)
  BY Zenon DEF UpgradeCuts
<1>2. PICK w : /\ Good(w) /\ OldRouted(w)
               /\ FacetCutSet(cuts) = FacetCutSet(getDeletionCuts(w)) \cup expected_v31_added_facets
  BY Zenon DEF UpgradeCuts
<1>3. PICK r : r = diamondCut(ds, cuts, deployed).ds
  BY Zenon
<1>4. Good(r) /\ Laid(r, ds, cuts, Len(cuts))
  BY <1>1, <1>3, RemovesThenAdds, SMTT(30)
<1>5. \A t \in Selectors : Same(ds, w, t)
  BY <1>2, OldRoutesAreSame, Zenon
<1>6. PICK gone : gone = FacetCutSet(getDeletionCuts(w))
  BY Zenon
<1>7. /\ \A e \in gone : e.action = "Remove"
      /\ \A t \in Selectors : At(w, t).facetAddress # Zero => \E e \in gone : t \in e.selectors
  BY <1>2, <1>6, DeletionsAreComplete, Zenon
<1>8. expected_v31_added_facets \subseteq FacetCutSet(cuts)
  BY <1>2, Zenon
<1>9. ASSUME NEW e \in FacetCutSet(cuts), e.action = "Add"
      PROVE  e \in expected_v31_added_facets
  <2>1. e \notin gone
    BY <1>7, <1>9, Zenon
  <2>2. QED
    BY <1>2, <1>6, <2>1, Zenon
<1>10. ASSUME NEW t \in Selectors, ~Among(cuts, Len(cuts), "Remove", t)
       PROVE  Leads(ds, t, Zero, FALSE)
  <2>1. At(w, t).facetAddress = Zero
    <3> SUFFICES ASSUME At(w, t).facetAddress # Zero PROVE FALSE
      BY Zenon
    <3>1. PICK e \in gone : t \in e.selectors
      BY <1>7, Zenon
    <3>2. e \in FacetCutSet(cuts) /\ e.action = "Remove"
      BY <1>2, <1>6, <1>7, Zenon
    <3>3. DOMAIN cuts = 1 .. Len(cuts)
      BY <1>1, SMTT(30)
    <3>4. PICK i \in 1 .. Len(cuts) : e.action = cuts[i].action /\ e.selectors = Range(cuts[i].selectors)
      <4>1. \A x \in FacetCutSet(cuts) : \E i \in DOMAIN cuts :
                x.action = cuts[i].action /\ x.selectors = Range(cuts[i].selectors)
        BY CutsOfTheSet, Zenon
      <4>2. QED
        BY <3>2, <3>3, <4>1, Zenon
    <3>5. QED
      BY <1>10, <3>1, <3>2, <3>4, Zenon DEF Among
  <2>2. At(w, t) = NoFacet
    BY <1>2, <2>1, Zenon DEF Good, Mapping
  <2>3. Leads(w, t, Zero, FALSE)
    BY <2>2, SMTT(30) DEF NoFacet, Leads
  <2>4. Same(ds, w, t)
    BY <1>5, Zenon
  <2>5. QED
    BY <2>3, <2>4, Zenon DEF Leads, Same
<1>11. V31Routed(r)
  BY <1>1, <1>4, <1>8, <1>9, <1>10, ExpectedAreLaid, Zenon
<1>12. QED
  BY <1>3, <1>4, <1>11

\* A chain created with the facet cuts of v31 has the routes of v31.
LEMMA CreationRoutes ==
    ASSUME NEW cuts, CreationCuts(cuts),
           NEW deployed \in SUBSET Addresses, diamondCut(EmptyDiamond, cuts, deployed).ok
    PROVE  /\ Good(diamondCut(EmptyDiamond, cuts, deployed).ds)
           /\ V31Routed(diamondCut(EmptyDiamond, cuts, deployed).ds)
<1>1. cuts \in Seq(FacetCuts) /\ FacetCutSet(cuts) = expected_v31_added_facets /\ RemovesFirst(cuts)
  BY Zenon DEF CreationCuts, RemovesFirst
<1>2. PICK ds : ds = EmptyDiamond
  BY Zenon
<1>3. Good(ds) /\ \A t \in Selectors : Leads(ds, t, Zero, FALSE)
  BY <1>2, EmptyIsGood, Zenon
<1>4. PICK r : r = diamondCut(ds, cuts, deployed).ds
  BY Zenon
<1>5. diamondCut(ds, cuts, deployed).ok
  BY <1>2, Zenon
<1>6. Good(r) /\ Laid(r, ds, cuts, Len(cuts))
  BY <1>1, <1>3, <1>4, <1>5, RemovesThenAdds
<1>7. V31Routed(r)
  BY <1>1, <1>3, <1>6, ExpectedAreLaid, Zenon
<1>8. QED
  BY <1>2, <1>4, <1>6, <1>7, Zenon

\* A chain created before v31.
LEMMA OldCreationRoutes ==
    ASSUME NEW deployed \in SUBSET Addresses, diamondCut(EmptyDiamond, InitialCut, deployed).ok
    PROVE  /\ Good(diamondCut(EmptyDiamond, InitialCut, deployed).ds)
           /\ OldRouted(diamondCut(EmptyDiamond, InitialCut, deployed).ds)
<1>1. PICK ds, cuts : ds = EmptyDiamond /\ cuts = InitialCut
  BY Zenon
<1>2. cuts \in Seq(FacetCuts)
  <2>1. InitialCut \in Seq(FacetCuts)
    BY ConstantsAssumption, Zenon
  <2>2. QED
    BY <1>1, <2>1, Zenon
<1>3. Good(ds)
  BY <1>1, EmptyIsGood, Zenon
<1>4. diamondCut(ds, cuts, deployed).ok
  BY <1>1, Zenon
<1>5. PICK g : /\ g[Len(cuts)] = diamondCut(ds, cuts, deployed).ds
               /\ \A n \in 0 .. Len(cuts) : Good(g[n])
  <2>1. PICK g : /\ g[Len(cuts)] = diamondCut(ds, cuts, deployed).ds
                 /\ \A n \in 0 .. Len(cuts) : Good(g[n])
    BY <1>2, <1>3, <1>4, CutByCut, SMTT(30)
  <2>2. QED
    BY <2>1, Zenon
<1>6. Len(cuts) \in 0 .. Len(cuts)
  BY <1>2
<1>7. Good(diamondCut(ds, cuts, deployed).ds)
  BY <1>5, <1>6, Zenon
<1>8. OldRouted(diamondCut(ds, cuts, deployed).ds)
  BY <1>1, <1>4, Zenon DEF OldRouted, Same
<1>9. QED
  BY <1>1, <1>7, <1>8, Zenon

\* What the verifier let through (verify_v31_upgrade_facet_cuts,
\* verify_v31_chain_creation_facet_cuts).
ArtifactOK == accepted # <<>> => UpgradeCuts(accepted[1].cuts) /\ CreationCuts(accepted[1].creation)

\* Until stage 1 only patches are published, and chains are created with the
\* facets they had before; from then on with those of v31.
CreationOK ==
    IF ctm.protocolVersion < NewVersion
    THEN Minor(ctm.protocolVersion) = Minor(StartVersion) /\ ctm.initialCut = InitialCut
    ELSE CreationCuts(ctm.initialCut)

\* Only the cut that leads to v31 changes facets.
CutOK(v, cut) ==
    IF v < NewVersion /\ cut.newVersion >= NewVersion THEN UpgradeCuts(cut.facetCuts) ELSE cut.facetCuts = <<>>

CutsOK == \A v \in Versions : ctm.upgradeCut[v] # NoCut => CutOK(v, ctm.upgradeCut[v])

\* A chain's routes are those of its version.
RoutesOK(ch) == Good(ch.ds) /\ IF ch.version < NewVersion THEN OldRouted(ch.ds) ELSE V31Routed(ch.ds)

FacetsInv ==
    /\ code \subseteq Addresses
    /\ ArtifactOK /\ CreationOK /\ CutsOK
    /\ \A c \in Range(chainIds) : RoutesOK(chains[c])

\* Publishing a version.
LEMMA CutIsPublished ==
    ASSUME VersionsInv, FacetsInv,
           NEW cut, NEW initial, NEW d,
           CutOK(ctm.protocolVersion, cut),
           ctm' = [protocolVersion |-> cut.newVersion,
                   initialCut |-> initial,
                   upgradeCut |-> [ctm.upgradeCut EXCEPT ![ctm.protocolVersion] = cut],
                   deadline |-> [ctm.deadline EXCEPT ![ctm.protocolVersion] = d, ![cut.newVersion] = "max"]],
           IF cut.newVersion < NewVersion
           THEN Minor(cut.newVersion) = Minor(StartVersion) /\ initial = InitialCut
           ELSE CreationCuts(initial),
           UNCHANGED <<code, chainIds, chains, accepted>>
    PROVE  FacetsInv'
<1>1. ctm'.protocolVersion = cut.newVersion /\ ctm'.initialCut = initial
  BY Zenon
<1>2. ctm'.upgradeCut = [ctm.upgradeCut EXCEPT ![ctm.protocolVersion] = cut]
  BY Zenon
<1>3. ctm.upgradeCut = [v \in Versions |-> ctm.upgradeCut[v]]
  BY Zenon DEF VersionsInv, ManagerOK
<1>4. \A v \in Versions : ctm'.upgradeCut[v] = IF v = ctm.protocolVersion THEN cut ELSE ctm.upgradeCut[v]
  BY <1>2, <1>3, Zenon
<1>5. CutsOK'
  <2> SUFFICES ASSUME NEW v \in Versions, ctm'.upgradeCut[v] # NoCut
               PROVE  CutOK(v, ctm'.upgradeCut[v])
    BY Zenon DEF CutsOK
  <2>1. CASE v = ctm.protocolVersion
    BY <1>4, <2>1, Zenon
  <2>2. CASE v # ctm.protocolVersion
    <3>1. ctm'.upgradeCut[v] = ctm.upgradeCut[v]
      BY <1>4, <2>2, Zenon
    <3>2. QED
      BY <3>1, Zenon DEF FacetsInv, CutsOK
  <2>3. QED
    BY <2>1, <2>2, Zenon
<1>6. CreationOK'
  BY <1>1, Zenon DEF CreationOK
<1>7. ArtifactOK' /\ (code \subseteq Addresses)' /\ (\A c \in Range(chainIds) : RoutesOK(chains[c]))'
  BY Zenon DEF FacetsInv, ArtifactOK
<1>8. QED
  BY <1>5, <1>6, <1>7, Zenon DEF FacetsInv

\* One chain changes, or is created.
LEMMA ChainIsRouted ==
    ASSUME VersionsInv, FacetsInv, NEW c \in Chains, NEW x, RoutesOK(x),
           chains' = [chains EXCEPT ![c] = x],
           Range(chainIds') \subseteq Range(chainIds) \cup {c}, chainIds' \in Seq(Chains),
           UNCHANGED <<ctm, code, accepted>>
    PROVE  FacetsInv'
<1>1. chains = [d \in Chains |-> chains[d]]
  BY Zenon DEF VersionsInv, ChainsOK
<1>2. chains'[c] = x /\ \A d \in Chains : d # c => chains'[d] = chains[d]
  BY <1>1, Zenon
<1>3. \A d \in Range(chainIds') : d \in Chains
  BY DEF Range
<1>4. \A d \in Range(chainIds) : RoutesOK(chains[d])
  BY Zenon DEF FacetsInv
<1>5. ASSUME NEW d \in Range(chainIds')
      PROVE  RoutesOK(chains'[d])
  <2>1. CASE d = c
    BY <1>2, <2>1, Zenon
  <2>2. CASE d # c
    <3>1. d \in Range(chainIds) /\ chains'[d] = chains[d]
      BY <1>2, <1>3, <1>5, <2>2, Zenon
    <3>2. QED
      BY <1>4, <3>1, Zenon
  <2>3. QED
    BY <2>1, <2>2, Zenon
<1>6. ArtifactOK' /\ CreationOK' /\ CutsOK' /\ (code \subseteq Addresses)'
  BY Zenon DEF FacetsInv, ArtifactOK, CreationOK, CutsOK
<1>7. QED
  BY <1>5, <1>6, Zenon DEF FacetsInv

\* A step of a chain that leaves its facets and its version alone.
LEMMA ChainKeepsFacets ==
    ASSUME VersionsInv, FacetsInv, NEW c, Live(c), NEW x,
           x.ds = chains[c].ds, x.version = chains[c].version,
           chains' = [chains EXCEPT ![c] = x],
           UNCHANGED <<ctm, code, chainIds, accepted>>
    PROVE  FacetsInv'
<1>1. c \in Chains /\ chainIds \in Seq(Chains)
  BY LiveChain, Zenon DEF VersionsInv, ChainsOK
<1>2. RoutesOK(chains[c])
  BY Zenon DEF FacetsInv, Live
<1>3. RoutesOK(x)
  BY <1>2, Zenon DEF RoutesOK
<1>4. Range(chainIds') \subseteq Range(chainIds) \cup {c} /\ chainIds' \in Seq(Chains)
  BY <1>1, Zenon
<1>5. QED
  BY <1>1, <1>3, <1>4, ChainIsRouted, Zenon

\* A new chain has the routes of the manager's version.
LEMMA NewChainIsRouted ==
    ASSUME VersionsInv, FacetsInv, NEW c \in Chains, createNewChain(c)
    PROVE  FacetsInv'
<1>1. PICK ds : ds = diamondCut(EmptyDiamond, ctm.initialCut, code).ds
  BY Zenon
<1>2. PICK x : x = [ds |-> ds, version |-> ctm.protocolVersion, tx |-> "set", batch |-> 0]
  BY Zenon
<1>3. /\ diamondCut(EmptyDiamond, ctm.initialCut, code).ok
      /\ chains' = [chains EXCEPT ![c] = x]
      /\ chainIds' = Append(chainIds, c) /\ UNCHANGED <<ctm, code, accepted>>
  BY <1>1, <1>2, Zenon DEF createNewChain
<1>4. x.ds = ds /\ x.version = ctm.protocolVersion
  BY <1>2, Zenon
<1>5. code \in SUBSET Addresses
  BY Zenon DEF FacetsInv
<1>6. RoutesOK(x)
  <2>1. CASE ctm.protocolVersion < NewVersion
    <3>1. ctm.initialCut = InitialCut
      BY <2>1, Zenon DEF FacetsInv, CreationOK
    <3>2. diamondCut(EmptyDiamond, InitialCut, code).ok
      BY <1>3, <3>1, Zenon
    <3>3. Good(diamondCut(EmptyDiamond, InitialCut, code).ds) /\ OldRouted(diamondCut(EmptyDiamond, InitialCut, code).ds)
      BY <1>5, <3>2, OldCreationRoutes, Zenon
    <3>4. Good(ds) /\ OldRouted(ds)
      BY <1>1, <3>1, <3>3, Zenon
    <3>5. QED
      BY <1>4, <2>1, <3>4, Zenon DEF RoutesOK
  <2>2. CASE ~(ctm.protocolVersion < NewVersion)
    <3>1. PICK cuts : cuts = ctm.initialCut
      BY Zenon
    <3>2. CreationCuts(cuts) /\ diamondCut(EmptyDiamond, cuts, code).ok
      BY <1>3, <2>2, <3>1, Zenon DEF FacetsInv, CreationOK
    <3>3. Good(ds) /\ V31Routed(ds)
      BY <1>1, <1>5, <3>1, <3>2, CreationRoutes, SMTT(30)
    <3>4. QED
      BY <1>4, <2>2, <3>3, Zenon DEF RoutesOK
  <2>3. QED
    BY <2>1, <2>2, Zenon
<1>7. chainIds' \in Seq(Chains) /\ Range(chainIds') \subseteq Range(chainIds) \cup {c}
  <2>1. chainIds \in Seq(Chains)
    BY Zenon DEF VersionsInv, ChainsOK
  <2>2. QED
    BY <1>3, <2>1, SMTT(30) DEF Range
<1>8. QED
  BY <1>3, <1>6, <1>7, ChainIsRouted, Zenon

\* A chain that upgrades gets the routes of the version it upgrades to.
LEMMA UpgradedChainIsRouted ==
    ASSUME VersionsInv, FacetsInv, NEW c \in Chains, upgradeChainFromVersion(c)
    PROVE  FacetsInv'
<1>1. PICK ch : ch = chains[c]
  BY Zenon
<1>2. PICK cut : cut = ctm.upgradeCut[ch.version]
  BY Zenon
<1>3. PICK ds : ds = diamondCut(ch.ds, cut.facetCuts, code).ds
  BY Zenon
<1>4. PICK x : x = [ch EXCEPT !.ds = ds, !.version = cut.newVersion, !.tx = IF cut.l2Tx THEN "set" ELSE @]
  BY Zenon
<1>5. /\ Live(c) /\ cut # NoCut /\ diamondCut(ch.ds, cut.facetCuts, code).ok
      /\ chains' = [chains EXCEPT ![c] = x]
      /\ UNCHANGED <<ctm, code, chainIds, accepted>>
  BY <1>1, <1>2, <1>3, <1>4, Zenon DEF upgradeChainFromVersion
<1>6. ChainOK(ch) /\ RoutesOK(ch) /\ ch.version \in Versions
  <2>1. ChainOK(ch)
    BY <1>1, <1>5, LiveChain, Zenon
  <2>2. RoutesOK(ch)
    BY <1>1, <1>5, Zenon DEF FacetsInv, Live
  <2>3. QED
    BY <2>1, <2>2, Zenon DEF ChainOK
<1>7. x.ds = ds /\ x.version = cut.newVersion
  BY <1>4, <1>6, Zenon DEF ChainOK
<1>8. CutOK(ch.version, cut)
  BY <1>2, <1>5, <1>6, Zenon DEF FacetsInv, CutsOK
<1>9. cut.newVersion \in Nat /\ ch.version \in Nat /\ NewVersion \in Nat /\ cut.newVersion > ch.version
  <2>1. cut.newVersion \in Versions /\ cut.newVersion > ch.version
    BY <1>2, <1>5, <1>6, Zenon DEF VersionsInv, ManagerOK
  <2>2. QED
    BY <1>6, <2>1, VersionsAreNumbers, VersionNumbers, Zenon
<1>10. RoutesOK(x)
  <2>1. CASE ch.version < NewVersion /\ cut.newVersion >= NewVersion
    <3>1. PICK e, cuts : e = ch.ds /\ cuts = cut.facetCuts
      BY Zenon
    <3>2. Good(e) /\ OldRouted(e) /\ UpgradeCuts(cuts)
      BY <1>6, <1>8, <2>1, <3>1, Zenon DEF RoutesOK, CutOK
    <3>3. code \in SUBSET Addresses /\ diamondCut(e, cuts, code).ok
      BY <1>5, <3>1, Zenon DEF FacetsInv
    <3>4. Good(diamondCut(e, cuts, code).ds) /\ V31Routed(diamondCut(e, cuts, code).ds)
      BY <3>2, <3>3, UpgradeRoutes, Zenon
    <3>5. Good(ds) /\ V31Routed(ds)
      BY <1>3, <3>1, <3>4, Zenon
    <3>6. ~(cut.newVersion < NewVersion)
      BY <1>9, <2>1, SMTT(30)
    <3>7. QED
      BY <1>7, <3>5, <3>6, Zenon DEF RoutesOK
  <2>2. CASE ~(ch.version < NewVersion /\ cut.newVersion >= NewVersion)
    <3>1. cut.facetCuts = <<>>
      BY <1>8, <2>2, Zenon DEF CutOK
    <3>2. ds = ch.ds
      BY <1>3, <3>1, NoCuts, Zenon
    <3>3. cut.newVersion < NewVersion <=> ch.version < NewVersion
      BY <1>9, <2>2, SMTT(30)
    <3>4. QED
      BY <1>6, <1>7, <3>2, <3>3, Zenon DEF RoutesOK
  <2>3. QED
    BY <2>1, <2>2, Zenon
<1>11. chainIds' \in Seq(Chains) /\ Range(chainIds') \subseteq Range(chainIds) \cup {c}
  BY <1>5, Zenon DEF VersionsInv, ChainsOK
<1>12. QED
  BY <1>5, <1>10, <1>11, ChainIsRouted, Zenon

\* Freezing and unfreezing keep a diamond's facets.
LEMMA FreezeKeepsFacets ==
    ASSUME NEW ds, Good(ds), NEW x, x = [ds EXCEPT !.isFrozen = ~@]
    PROVE  Good(x) /\ \A t \in Selectors : Same(x, ds, t)
<1>1. ds \in Diamonds
  BY Zenon DEF Good
<1>2. /\ x.selectorToFacet = ds.selectorToFacet /\ x.facetToSelectors = ds.facetToSelectors
      /\ x.facets = ds.facets /\ x \in Diamonds
  BY <1>1, Zenon DEF Diamonds
<1>3. /\ \A g \in Addresses : List(x, g) = List(ds, g) /\ Place(x, g) = Place(ds, g)
      /\ \A t \in Selectors : At(x, t) = At(ds, t)
  BY <1>2, Zenon DEF List, Place, At
<1>4. Mapping(x)
  BY <1>1, <1>2, <1>3, SameMapping, Zenon DEF Good
<1>5. Listing(x)
  <2>1. ds.facets \in Seq(Addresses)
    BY <1>1, Parts, Zenon
  <2>2. \A i \in DOMAIN ds.facets : ds.facets[i] \in Addresses
    BY <2>1, SMTT(30)
  <2>3. QED
    BY <1>2, <1>3, <2>2, SMTT(30) DEF Good, Listing
<1>6. QED
  BY <1>2, <1>3, <1>4, <1>5, Zenon DEF Good, Same

\* What the verifier accepts is what the invariant says: the chain it compares
\* with has the version before v31, and so its routes.
LEMMA AcceptedIsOK ==
    ASSUME VersionsInv, FacetsInv, NEW a,
           verify_set_new_version_upgrade_payload(a), verify_v31_chain_creation_facet_cuts(a)
    PROVE  UpgradeCuts(a.cuts) /\ CreationCuts(a.creation)
<1>1. CreationCuts(a.creation)
  BY Zenon DEF verify_v31_chain_creation_facet_cuts, CreationCuts
<1>2. a.cuts \in Seq(FacetCuts) /\ a.old = OldVersion /\ verify_v31_upgrade_facet_cuts(a)
  BY Zenon DEF verify_set_new_version_upgrade_payload
<1>3. RemovesFirst(a.cuts)
  BY <1>2, Zenon DEF verify_v31_upgrade_facet_cuts, proposed_upgrade_facet_cuts_ok, RemovesFirst
<1>4. PICK c \in find_representative_chain_diamond(a.old) :
          FacetCutSet(a.cuts) = FacetCutSet(getDeletionCuts(chains[c].ds)) \cup expected_v31_added_facets
  BY <1>2, Zenon DEF verify_v31_upgrade_facet_cuts
<1>5. Live(c) /\ chains[c].version = OldVersion
  BY <1>2, Zenon DEF find_representative_chain_diamond
<1>6. RoutesOK(chains[c])
  BY <1>5, Zenon DEF FacetsInv, Live
<1>7. Good(chains[c].ds) /\ OldRouted(chains[c].ds)
  BY <1>5, <1>6, NewIsLater, Zenon DEF RoutesOK
<1>8. UpgradeCuts(a.cuts)
  BY <1>2, <1>3, <1>4, <1>7, Zenon DEF UpgradeCuts
<1>9. QED
  BY <1>1, <1>8, Zenon

\* A deadline changes.
LEMMA DeadlineKeepsFacets ==
    ASSUME VersionsInv, FacetsInv, NEW v, NEW d, ctm' = [ctm EXCEPT !.deadline[v] = d],
           UNCHANGED <<code, chainIds, chains, accepted>>
    PROVE  FacetsInv'
<1>1. ctm = [protocolVersion |-> ctm.protocolVersion, initialCut |-> ctm.initialCut,
             upgradeCut |-> ctm.upgradeCut, deadline |-> ctm.deadline]
  BY Zenon DEF VersionsInv, ManagerOK
<1>2. /\ ctm'.protocolVersion = ctm.protocolVersion /\ ctm'.upgradeCut = ctm.upgradeCut
      /\ ctm'.initialCut = ctm.initialCut
  BY <1>1, Zenon
<1>3. CreationOK' /\ CutsOK'
  BY <1>2, Zenon DEF FacetsInv, CreationOK, CutsOK
<1>4. QED
  BY <1>3, Zenon DEF FacetsInv, ArtifactOK

\* Every step keeps the facets.
LEMMA FacetsInvStep ==
    ASSUME VersionsInv, FacetsInv, [Next]_vars
    PROVE  FacetsInv'
<1>c. /\ ctm = [protocolVersion |-> ctm.protocolVersion, initialCut |-> ctm.initialCut,
                upgradeCut |-> ctm.upgradeCut, deadline |-> ctm.deadline]
      /\ ctm.protocolVersion \in Versions
  BY Zenon DEF VersionsInv, ManagerOK
<1>n. /\ ctm.protocolVersion \in Nat /\ NewVersion \in Nat /\ OldVersion < NewVersion
      /\ \A v \in Versions : v \in Nat
  BY <1>c, VersionsAreNumbers, VersionNumbers, NewIsLater, Zenon
<1>s. chains = [c \in Chains |-> chains[c]]
  BY Zenon DEF VersionsInv, ChainsOK
<1>0. CASE UNCHANGED vars
  BY <1>0, Zenon DEF vars, FacetsInv, ArtifactOK, CreationOK, CutsOK
<1>1. CASE Deploy
  <2>1. (code \subseteq Addresses)'
    BY <1>1, NewFacetsAssumption, Zenon DEF Deploy, FacetsInv
  <2>2. ArtifactOK' /\ CreationOK' /\ CutsOK' /\ (\A c \in Range(chainIds) : RoutesOK(chains[c]))'
    BY <1>1, Zenon DEF Deploy, FacetsInv, ArtifactOK, CreationOK, CutsOK
  <2>3. QED
    BY <2>1, <2>2, Zenon DEF FacetsInv
<1>2. CASE Stage1
  <2>1. PICK a : a = accepted[1]
    BY Zenon
  <2>2. PICK cut : cut = [facetCuts |-> a.cuts, newVersion |-> a.new, l2Tx |-> TRUE]
    BY Zenon
  <2>3. a.old = ctm.protocolVersion /\ a.old = OldVersion /\ a.new = NewVersion /\ a.deadline = "max"
    BY <1>2, <2>1, Zenon DEF Stage1, CanSetNewVersionUpgrade, VersionsInv, AcceptedOK
  <2>4. UpgradeCuts(a.cuts) /\ CreationCuts(a.creation)
    BY <1>2, <2>1, Zenon DEF Stage1, FacetsInv, ArtifactOK
  <2>5. cut.facetCuts = a.cuts /\ cut.newVersion = NewVersion
    BY <2>2, <2>3, Zenon
  <2>6. CutOK(ctm.protocolVersion, cut)
    <3>1. ctm.protocolVersion < NewVersion /\ cut.newVersion >= NewVersion
      BY <1>n, <2>3, <2>5, SMTT(30)
    <3>2. QED
      BY <2>4, <2>5, <3>1, Zenon DEF CutOK
  <2>7. /\ ctm' = _setNewVersionUpgrade([ctm EXCEPT !.initialCut = a.creation], cut, ctm.protocolVersion, "max")
        /\ UNCHANGED <<code, chainIds, chains, accepted>>
    BY <1>2, <2>1, <2>2, <2>3, Zenon DEF Stage1
  <2>8. ctm' = [protocolVersion |-> cut.newVersion,
                initialCut |-> a.creation,
                upgradeCut |-> [ctm.upgradeCut EXCEPT ![ctm.protocolVersion] = cut],
                deadline |-> [ctm.deadline EXCEPT ![ctm.protocolVersion] = "max", ![cut.newVersion] = "max"]]
    BY <1>c, <2>7, Zenon DEF _setNewVersionUpgrade
  <2>9. ~(cut.newVersion < NewVersion)
    BY <1>n, <2>5
  <2>10. PICK initial : initial = a.creation
    BY Zenon
  <2>11. /\ ctm' = [protocolVersion |-> cut.newVersion,
                    initialCut |-> initial,
                    upgradeCut |-> [ctm.upgradeCut EXCEPT ![ctm.protocolVersion] = cut],
                    deadline |-> [ctm.deadline EXCEPT ![ctm.protocolVersion] = "max", ![cut.newVersion] = "max"]]
         /\ CreationCuts(initial)
    BY <2>4, <2>8, <2>10, Zenon
  <2>12. QED
    BY <2>6, <2>7, <2>9, <2>11, CutIsPublished, SMTT(30)
<1>3. ASSUME NEW v \in Patches, NEW d \in PatchDeadlines, createNewPatchUpgrade(v, d)
      PROVE  FacetsInv'
  <2>1. PICK cut : cut = [facetCuts |-> <<>>, newVersion |-> v, l2Tx |-> FALSE]
    BY Zenon
  <2>2. cut.facetCuts = <<>> /\ cut.newVersion = v
    BY <2>1, Zenon
  <2>3. v \in Nat /\ v > ctm.protocolVersion /\ Minor(v) = Minor(ctm.protocolVersion)
    BY <1>3, <1>n, Zenon DEF createNewPatchUpgrade, Patches
  <2>4. ctm.protocolVersion < NewVersion => Minor(v) = Minor(StartVersion) /\ v < NewVersion /\ ctm.initialCut = InitialCut
    BY <2>3, NewIsLater, Zenon DEF FacetsInv, CreationOK
  <2>5. ~(ctm.protocolVersion < NewVersion) => ~(v < NewVersion) /\ CreationCuts(ctm.initialCut)
    <3>1. ~(ctm.protocolVersion < NewVersion) => ~(v < NewVersion)
      BY <1>n, <2>3, SMTT(30)
    <3>2. QED
      BY <3>1, Zenon DEF FacetsInv, CreationOK
  <2>6. CutOK(ctm.protocolVersion, cut)
    <3>1. ~(ctm.protocolVersion < NewVersion /\ cut.newVersion >= NewVersion)
      BY <1>n, <2>2, <2>3, <2>4, SMTT(30)
    <3>2. QED
      BY <2>2, <3>1, Zenon DEF CutOK
  <2>7. /\ ctm' = _setNewVersionUpgrade(ctm, cut, ctm.protocolVersion, d)
        /\ UNCHANGED <<code, chainIds, chains, accepted>>
    BY <1>3, <2>1, Zenon DEF createNewPatchUpgrade
  <2>8. PICK initial : initial = ctm.initialCut
    BY Zenon
  <2>9. ctm' = [protocolVersion |-> cut.newVersion,
                initialCut |-> initial,
                upgradeCut |-> [ctm.upgradeCut EXCEPT ![ctm.protocolVersion] = cut],
                deadline |-> [ctm.deadline EXCEPT ![ctm.protocolVersion] = d, ![cut.newVersion] = "max"]]
    BY <1>c, <2>7, <2>8, Zenon DEF _setNewVersionUpgrade
  <2>10. IF cut.newVersion < NewVersion
         THEN Minor(cut.newVersion) = Minor(StartVersion) /\ initial = InitialCut
         ELSE CreationCuts(initial)
    BY <2>2, <2>4, <2>5, <2>8, Zenon
  <2>11. QED
    BY <2>6, <2>7, <2>9, <2>10, CutIsPublished, Zenon
<1>4. ASSUME NEW v \in Versions, Expire(v)
      PROVE  FacetsInv'
  BY <1>4, DeadlineKeepsFacets, Zenon DEF Expire
<1>5. ASSUME NEW v \in Versions, NEW d \in DeadlineChanges, setProtocolVersionDeadline(v, d)
      PROVE  FacetsInv'
  BY <1>5, DeadlineKeepsFacets, Zenon DEF setProtocolVersionDeadline
<1>6. ASSUME NEW c \in Chains, PrepareAndVerify(c)
      PROVE  FacetsInv'
  <2>1. PICK a : /\ verify_set_new_version_upgrade_payload(a) /\ verify_v31_chain_creation_facet_cuts(a)
                 /\ accepted' = <<a>>
    BY <1>6, Zenon DEF PrepareAndVerify
  <2>2. UpgradeCuts(a.cuts) /\ CreationCuts(a.creation)
    BY <2>1, AcceptedIsOK, Zenon
  <2>3. ArtifactOK'
    <3>1. accepted'[1] = a
      BY <2>1, Zenon
    <3>2. QED
      BY <2>2, <3>1, Zenon DEF ArtifactOK
  <2>4. UNCHANGED <<ctm, code, chainIds, chains>>
    BY <1>6, Zenon DEF PrepareAndVerify
  <2>5. QED
    BY <2>3, <2>4, Zenon DEF FacetsInv, CreationOK, CutsOK
<1>7. ASSUME NEW c \in Chains, createNewChain(c)
      PROVE  FacetsInv'
  BY <1>7, NewChainIsRouted, Zenon
<1>8. ASSUME NEW c \in Chains, upgradeChainFromVersion(c)
      PROVE  FacetsInv'
  BY <1>8, UpgradedChainIsRouted, Zenon
<1>9. ASSUME NEW c \in Chains, Commit(c)
      PROVE  FacetsInv'
  <2> DEFINE ch == chains[c]
             n == IF ch.tx = "set" THEN "batched" ELSE ch.tx
             x == [ch EXCEPT !.batch = 1, !.tx = n]
  <2>1. Live(c) /\ ChainOK(ch) /\ UNCHANGED <<ctm, code, chainIds, accepted>>
    BY <1>9, LiveChain, Zenon DEF Commit
  <2>2. chains' = [chains EXCEPT ![c] = x]
    BY <1>9, <1>s, Zenon DEF Commit
  <2>3. x.ds = ch.ds /\ x.version = ch.version
    BY <2>1 DEF ChainOK
  <2> HIDE DEF x
  <2>4. QED
    BY <2>1, <2>2, <2>3, ChainKeepsFacets, Zenon
<1>10. ASSUME NEW c \in Chains, Execute(c)
       PROVE  FacetsInv'
  <2> DEFINE ch == chains[c]
             x == [ch EXCEPT !.batch = 0, !.tx = "none"]
  <2>1. Live(c) /\ ChainOK(ch) /\ UNCHANGED <<ctm, code, chainIds, accepted>>
    BY <1>10, LiveChain, Zenon DEF Execute
  <2>2. chains' = [chains EXCEPT ![c] = x]
    BY <1>10, <1>s, Zenon DEF Execute
  <2>3. x.ds = ch.ds /\ x.version = ch.version
    BY <2>1 DEF ChainOK
  <2> HIDE DEF x
  <2>4. QED
    BY <2>1, <2>2, <2>3, ChainKeepsFacets, Zenon
<1>11. ASSUME NEW c \in Chains, Revert(c)
       PROVE  FacetsInv'
  <2> DEFINE ch == chains[c]
             n == IF ch.tx = "batched" THEN "set" ELSE ch.tx
             x == [ch EXCEPT !.batch = 0, !.tx = n]
  <2>1. Live(c) /\ ChainOK(ch) /\ UNCHANGED <<ctm, code, chainIds, accepted>>
    BY <1>11, LiveChain, Zenon DEF Revert
  <2>2. chains' = [chains EXCEPT ![c] = x]
    BY <1>11, <1>s, Zenon DEF Revert
  <2>3. x.ds = ch.ds /\ x.version = ch.version
    BY <2>1, Zenon DEF ChainOK
  <2> HIDE DEF x
  <2>4. QED
    BY <2>1, <2>2, <2>3, ChainKeepsFacets, Zenon
<1>12. ASSUME NEW c \in Chains, ToggleFreeze(c)
       PROVE  FacetsInv'
  <2>1. PICK ch : ch = chains[c]
    BY Zenon
  <2>2. PICK ds : ds = [ch.ds EXCEPT !.isFrozen = ~@]
    BY Zenon
  <2>3. PICK x : x = [ch EXCEPT !.ds = ds]
    BY Zenon
  <2>4. Live(c) /\ ChainOK(ch) /\ UNCHANGED <<ctm, code, chainIds, accepted>>
    BY <1>12, <2>1, LiveChain, Zenon DEF ToggleFreeze
  <2>5. chains' = [chains EXCEPT ![c] = x]
    BY <1>12, <1>s, <2>1, <2>2, <2>3, SMTT(30) DEF ToggleFreeze
  <2>6. x.ds = ds /\ x.version = ch.version
    BY <2>3, <2>4, Zenon DEF ChainOK
  <2>7. RoutesOK(ch)
    BY <2>1, <2>4, Zenon DEF FacetsInv, Live
  <2>8. PICK e : e = ch.ds
    BY Zenon
  <2>9. Good(e)
    BY <2>7, <2>8, Zenon DEF RoutesOK
  <2>10. Good(ds) /\ \A t \in Selectors : Same(ds, e, t)
    BY <2>2, <2>8, <2>9, FreezeKeepsFacets, Zenon
  <2>11. (OldRouted(e) => OldRouted(ds)) /\ (V31Routed(e) => V31Routed(ds))
    BY <2>10, RoutesOfTheMap, Zenon
  <2>12. RoutesOK(x)
    BY <2>6, <2>7, <2>8, <2>10, <2>11, Zenon DEF RoutesOK
  <2>13. chainIds' \in Seq(Chains) /\ Range(chainIds') \subseteq Range(chainIds) \cup {c}
    BY <2>4, Zenon DEF VersionsInv, ChainsOK
  <2>14. QED
    BY <2>4, <2>5, <2>12, <2>13, ChainIsRouted, Zenon
<1>13. QED
  BY <1>0, <1>1, <1>2, <1>3, <1>4, <1>5, <1>6, <1>7, <1>8, <1>9, <1>10, <1>11, <1>12, Zenon DEF Next

\* Chains of one version have the same routes.
LEMMA RoutesAreUniform ==
    ASSUME VersionsInv, FacetsInv
    PROVE  UniformFacets
<1>1. ASSUME NEW c \in Range(chainIds)
      PROVE  Consistent(chains[c].ds)
  <2>1. PICK ds : ds = chains[c].ds
    BY Zenon
  <2>2. Good(ds)
    BY <2>1, Zenon DEF FacetsInv, RoutesOK
  <2>3. QED
    BY <2>1, <2>2, GoodIsConsistent, Zenon
<1>2. ASSUME NEW c \in Range(chainIds), NEW d \in Range(chainIds), chains[c].version = chains[d].version
      PROVE  Routing(chains[c].ds) = Routing(chains[d].ds)
  <2>1. PICK ds, e : ds = chains[c].ds /\ e = chains[d].ds
    BY Zenon
  <2>2. RoutesOK(chains[c]) /\ RoutesOK(chains[d])
    BY Zenon DEF FacetsInv
  <2>3. (OldRouted(ds) /\ OldRouted(e)) \/ (V31Routed(ds) /\ V31Routed(e))
    BY <1>2, <2>1, <2>2, Zenon DEF RoutesOK
  <2>4. \A t \in Selectors : Same(ds, e, t)
    BY <2>3, OldRoutesAreSame, V31RoutesAreSame, Zenon
  <2>5. Routing(ds) = Routing(e)
    BY <2>4, Zenon DEF Same, At, Routing
  <2>6. QED
    BY <2>1, <2>5, Zenon
<1>3. QED
  BY <1>1, <1>2, Zenon DEF UniformFacets

\* Chains of one version route every call alike, whether created with that
\* version or upgraded to it (setChainCreationParams and setNewVersionUpgrade of
\* one accepted artifact), and each diamond's two maps and list agree after
\* every cut (Diamond.sol): for every set of chains, every facets before v31,
\* every bytecode of the v31 facets, and whatever artifact the verifier accepts.
THEOREM ChainsOfOneVersionAreAlike == Spec => []UniformFacets
<1>1. Init => VersionsInv /\ FacetsInv
  <2> SUFFICES ASSUME Init PROVE VersionsInv /\ FacetsInv
    BY Zenon
  <2>1. VersionsInv
    BY VersionsInvInit, Zenon
  <2>2. code \subseteq Addresses
    <3>1. \A i \in DOMAIN InitialCut : InitialCut[i].facet \in Addresses
      BY ConstantsAssumption, Zenon
    <3>2. code = {InitialCut[i].facet : i \in DOMAIN InitialCut}
      BY Zenon DEF Init
    <3>3. QED
      BY <3>1, <3>2, Zenon
  <2>3. ArtifactOK
    BY Zenon DEF Init, ArtifactOK
  <2>4. CreationOK
    <3>1. ctm.protocolVersion = StartVersion /\ ctm.initialCut = InitialCut
      BY Zenon DEF Init
    <3>2. QED
      BY <3>1, NewIsLater, Zenon DEF CreationOK
  <2>5. CutsOK
    <3>1. ctm.upgradeCut = [v \in Versions |-> NoCut]
      BY Zenon DEF Init
    <3>2. QED
      BY <3>1, Zenon DEF CutsOK
  <2>6. Range(chainIds) = {}
    <3>1. chainIds = <<>> /\ DOMAIN <<>> = {}
      BY DEF Init
    <3>2. QED
      BY <3>1, Zenon DEF Range
  <2>7. QED
    BY <2>1, <2>2, <2>3, <2>4, <2>5, <2>6, Zenon DEF FacetsInv
<1>2. VersionsInv /\ FacetsInv /\ [Next]_vars => (VersionsInv /\ FacetsInv)'
  BY VersionsInvStep, FacetsInvStep, Zenon
<1>3. VersionsInv /\ FacetsInv => UniformFacets
  BY RoutesAreUniform, Zenon
<1>4. QED
  BY <1>1, <1>2, <1>3, PTL DEF Spec

================================================================================
