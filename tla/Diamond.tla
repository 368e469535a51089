-------------------------------- MODULE Diamond --------------------------------
(***************************************************************************)
(* The diamond storage of a ZK chain (Diamond.sol) and the proxy's routing *)
(* (DiamondProxy.sol), as functions on a storage record:                   *)
(*   selectorToFacet   selector -> facet, position in the facet's list,    *)
(*                     freezability;                                       *)
(*   facetToSelectors  facet -> its list of selectors and its position in  *)
(*                     facets (left as it is when the facet goes);         *)
(*   facets            the list of facet addresses;                        *)
(*   isFrozen.                                                             *)
(* Positions count from 0 as in the code.  A call that reverts yields a    *)
(* result with ok FALSE; the casts to uint16 are out of reach.             *)
(***************************************************************************)
EXTENDS Integers, Sequences, Functions

CONSTANTS
    Selectors,  \* function selectors
    Addresses,  \* addresses of facets
    Zero        \* address(0)

ASSUME ZeroIsNoFacet == Zero \notin Addresses

NoFacet == [facetAddress |-> Zero, selectorPosition |-> 0, isFreezable |-> FALSE]

EmptyDiamond ==
    [selectorToFacet  |-> [s \in Selectors |-> NoFacet],
     facetToSelectors |-> [f \in Addresses |-> [selectors |-> <<>>, facetPosition |-> 0]],
     facets           |-> <<>>,
     isFrozen         |-> FALSE]

\* As in SequencesExt, which slows the proofs down.
Last(list) == list[Len(list)]

Front(list) == SubSeq(list, 1, Len(list) - 1)

Done(ds) == [ok |-> TRUE, ds |-> ds]

Reverted(ds) == [ok |-> FALSE, ds |-> ds]

(***************************************************************************)
(* One function.                                                           *)
(***************************************************************************)

_saveFacetIfNew(ds, f) ==
    IF ds.facetToSelectors[f].selectors # <<>> THEN ds
    ELSE [ds EXCEPT !.facetToSelectors[f].facetPosition = Len(ds.facets),
                    !.facets = Append(@, f)]

\* The selectors of a facet freeze together.
_addOneFunction(ds, f, s, freezable) ==
    LET list == ds.facetToSelectors[f].selectors
    IN  IF list # <<>> /\ ds.selectorToFacet[list[1]].isFreezable # freezable
        THEN Reverted(ds)
        ELSE Done([ds EXCEPT
                     !.selectorToFacet[s] = [facetAddress |-> f, selectorPosition |-> Len(list),
                                             isFreezable |-> freezable],
                     !.facetToSelectors[f].selectors = Append(@, s)])

\* The last facet takes the place of the one that goes.
_removeFacet(ds, f) ==
    LET position == ds.facetToSelectors[f].facetPosition
        last     == Last(ds.facets)
        moved    == IF position = Len(ds.facets) - 1 THEN ds
                    ELSE [ds EXCEPT !.facets[position + 1] = last,
                                    !.facetToSelectors[last].facetPosition = position]
    IN  [moved EXCEPT !.facets = Front(@)]

\* The last selector of the facet takes the place of the one that goes, and
\* a facet without selectors goes with it.
_removeOneFunction(ds, f, s) ==
    LET list     == ds.facetToSelectors[f].selectors
        position == ds.selectorToFacet[s].selectorPosition
        moved    == IF position = Len(list) - 1 THEN ds
                    ELSE [ds EXCEPT !.facetToSelectors[f].selectors[position + 1] = Last(list),
                                    !.selectorToFacet[Last(list)].selectorPosition = position]
        popped   == [moved EXCEPT !.facetToSelectors[f].selectors = Front(@),
                                  !.selectorToFacet[s] = NoFacet]
    IN  IF Len(list) = 1 THEN _removeFacet(popped, f) ELSE popped

(***************************************************************************)
(* A cut: [action, facet, isFreezable, selectors].  code is the set of     *)
(* addresses that have code.                                               *)
(***************************************************************************)

FacetCuts ==
    [facet : Addresses \cup {Zero}, action : {"Add", "Replace", "Remove"}, isFreezable : BOOLEAN,
     selectors : Seq(Selectors)]

\* One selector of a cut, by the cut's action.
OneFunction(ds, cut, s) ==
    LET old == ds.selectorToFacet[s].facetAddress
        add(d) == _addOneFunction(d, cut.facet, s, cut.isFreezable)
    IN  IF cut.action = "Add"
        THEN IF old # Zero THEN Reverted(ds) ELSE add(ds)
        ELSE IF old = Zero THEN Reverted(ds)
        ELSE IF cut.action = "Replace"
        THEN add(_saveFacetIfNew(_removeOneFunction(ds, old, s), cut.facet))
        ELSE Done(_removeOneFunction(ds, old, s))

\* After a revert nothing follows.
ThenFunction(result, cut, s) == IF result.ok THEN OneFunction(result.ds, cut, s) ELSE result

\* The loops over the selectors of a cut.
EachFunction(ds, cut) ==
    LET run[n \in 0 .. Len(cut.selectors)] ==
            IF n = 0 THEN Done(ds) ELSE ThenFunction(run[n - 1], cut, cut.selectors[n])
    IN  run[Len(cut.selectors)]

_addFunctions(ds, cut, code) ==
    IF cut.facet \notin code THEN Reverted(ds) ELSE EachFunction(_saveFacetIfNew(ds, cut.facet), cut)

_replaceFunctions(ds, cut, code) ==
    IF cut.facet \notin code THEN Reverted(ds) ELSE EachFunction(ds, cut)

_removeFunctions(ds, cut) ==
    IF cut.facet # Zero THEN Reverted(ds) ELSE EachFunction(ds, cut)

OneCut(ds, cut, code) ==
    IF cut.selectors = <<>> THEN Reverted(ds)
    ELSE IF cut.action = "Add" THEN _addFunctions(ds, cut, code)
    ELSE IF cut.action = "Replace" THEN _replaceFunctions(ds, cut, code)
    ELSE _removeFunctions(ds, cut)

ThenCut(result, cut, code) == IF result.ok THEN OneCut(result.ds, cut, code) ELSE result

\* The facet changes of diamondCut; a revert undoes all of them.
diamondCut(ds, cuts, code) ==
    LET run[n \in 0 .. Len(cuts)] == IF n = 0 THEN Done(ds) ELSE ThenCut(run[n - 1], cuts[n], code)
        result == run[Len(cuts)]
    IN  IF result.ok THEN result ELSE Reverted(ds)

(***************************************************************************)
(* Reading a diamond.                                                      *)
(***************************************************************************)

\* The fallback of the proxy finds a facet that is not frozen.
Reaches(ds, s) ==
    /\ ds.selectorToFacet[s].facetAddress # Zero
    /\ ~ds.isFrozen \/ ~ds.selectorToFacet[s].isFreezable

\* Getters.facets(): the selectors of each facet, in the list's order.
FacetList(ds) == [i \in DOMAIN ds.facets |-> ds.facetToSelectors[ds.facets[i]].selectors]

\* Where calls go: what users of the chain can tell of its facets.
Routing(ds) == [s \in Selectors |-> [facet |-> ds.selectorToFacet[s].facetAddress,
                                     freezable |-> ds.selectorToFacet[s].isFreezable]]

(***************************************************************************)
(* The two maps and the list agree: a selector is listed exactly once, at  *)
(* its position under its facet, a facet exactly once, at its position, if *)
(* it has selectors, and the selectors of a facet freeze together          *)
(* (Diamond.sol, _addOneFunction and _removeOneFunction).                  *)
(***************************************************************************)
Consistent(ds) ==
    /\ \A f \in Addresses :
         LET list == ds.facetToSelectors[f].selectors
         IN  /\ \A i \in DOMAIN list :
                  /\ ds.selectorToFacet[list[i]].facetAddress = f
                  /\ ds.selectorToFacet[list[i]].selectorPosition = i - 1
                  /\ ds.selectorToFacet[list[i]].isFreezable = ds.selectorToFacet[list[1]].isFreezable
             /\ list # <<>> => LET p == ds.facetToSelectors[f].facetPosition
                               IN  p < Len(ds.facets) /\ ds.facets[p + 1] = f
    /\ \A i \in DOMAIN ds.facets :
         LET f == ds.facets[i]
         IN  ds.facetToSelectors[f].selectors # <<>> /\ ds.facetToSelectors[f].facetPosition = i - 1
    /\ \A s \in Selectors : LET info == ds.selectorToFacet[s]
                            IN  info.facetAddress # Zero =>
                                  LET list == ds.facetToSelectors[info.facetAddress].selectors
                                  IN  /\ info.selectorPosition < Len(list)
                                      /\ list[info.selectorPosition + 1] = s

================================================================================
