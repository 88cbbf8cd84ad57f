-------------------------- MODULE SettlementProofs --------------------------
(***************************************************************************)
(* Proofs about the money of an order, for any number of returns, units    *)
(* and parcels: the settled number and the status agree, the number is     *)
(* current while no estimate is open, and a unit serves one return.        *)
(***************************************************************************)
EXTENDS Settlement, TLAPS

(***************************************************************************)
(* Sets of fees.                                                           *)
(***************************************************************************)

(* G holds the fees of F and possibly further open estimates.              *)
AddsEstimates(F, G) ==
  /\ F \subseteq G
  /\ \A g \in G \ F : g \in Fee /\ g.source = "ESTIMATE" /\ ~g.confirmed /\ g.unit = None

LEMMA EstimateType ==
  ASSUME NEW ty \in FeeTypes
  PROVE  /\ Estimate(ty) \in Fee
         /\ Estimate(ty).source = "ESTIMATE"
         /\ ~Estimate(ty).confirmed
         /\ Estimate(ty).unit = None
BY DEF Estimate, Fee, Refs

LEMMA WithEstimatesAdds ==
  ASSUME NEW F, NEW types \in SUBSET FeeTypes
  PROVE  AddsEstimates(F, WithEstimates(F, types))
<1>1. F \subseteq WithEstimates(F, types)
  BY DEF WithEstimates
<1>2. \A g \in WithEstimates(F, types) \ F : \E ty \in FeeTypes : g = Estimate(ty)
  BY DEF WithEstimates
<1> QED
  BY <1>1, <1>2, EstimateType DEF AddsEstimates

LEMMA AddingTwice ==
  ASSUME NEW F, NEW G, NEW H, AddsEstimates(F, G), AddsEstimates(G, H)
  PROVE  AddsEstimates(F, H)
BY DEF AddsEstimates

LEMMA ApplyEstimateAdds ==
  ASSUME NEW F, NEW tariff \in BOOLEAN
  PROVE  AddsEstimates(F, ApplyEstimate(F, tariff))
<1>1. BaseFees \cup (IF tariff THEN {"SHIPPING"} ELSE {}) \in SUBSET FeeTypes
  BY DEF BaseFees, FeeTypes
<1>2. AddsEstimates(F, F)
  BY DEF AddsEstimates
<1> QED
  BY <1>1, <1>2, WithEstimatesAdds DEF ApplyEstimate

LEMMA ReturnEstimatesAdd ==
  ASSUME NEW tariff \in BOOLEAN
  PROVE  AddsEstimates(fees, EstimateReturnOnClaim(tariff))
<1>1. ReturnEstimates(tariff) \in SUBSET FeeTypes
  BY DEF ReturnEstimates, FeeTypes, ReturnLegs
<1>2. AddsEstimates(fees, fees)
  BY DEF AddsEstimates
<1> DEFINE G == WithEstimates(fees, ReturnEstimates(tariff))
<1>3. AddsEstimates(fees, G)
  BY <1>1, WithEstimatesAdds
<1>4. AddsEstimates(G, ApplyEstimate(G, tariff))
  BY ApplyEstimateAdds
<1>5. AddsEstimates(fees, ApplyEstimate(G, tariff))
  <2> HIDE DEF G
  <2> QED
    BY <1>3, <1>4, AddingTwice
<1> QED
  BY <1>2, <1>5 DEF EstimateReturnOnClaim

(* Open estimates change nothing that the settled profit counts, and can   *)
(* only add to what is unresolved.                                         *)
LEMMA OpenEstimatesDoNotCount ==
  ASSUME NEW F, NEW G, AddsEstimates(F, G)
  PROVE  /\ Counted(G) = Counted(F)
         /\ HasUnresolvedEstimateFee(F) => HasUnresolvedEstimateFee(G)
<1>1. \A g \in G : Actual(g) => g \in F
  BY DEF AddsEstimates, Actual
<1>2. \A g \in G : g.confirmed => g \in F
  BY DEF AddsEstimates
<1>3. F \subseteq G
  BY DEF AddsEstimates
<1>4. SettledFees(G) = SettledFees(F)
  BY <1>1, <1>2, <1>3 DEF SettledFees
<1>5. RealCargo(G) => RealCargo(F)
  BY <1>1 DEF RealCargo, Actual
<1>6. Unresolved(F) \subseteq Unresolved(G)
  BY <1>3, <1>5 DEF Unresolved
<1> QED
  BY <1>4, <1>6 DEF Counted, HasUnresolvedEstimateFee

(***************************************************************************)
(* The inductive invariant: the two properties, and that a settled profit  *)
(* was computable and a cost belongs to a linked item, which no later step *)
(* takes back.                                                             *)
(***************************************************************************)
SettledIsComputable ==
  /\ order.settled => Computable
  /\ item.cost => item.linked

Inv ==
  /\ TypeOK
  /\ FullyHasNumber
  /\ SettledIsComputable
  /\ SettledIsCurrent
  /\ UnitsBelongToOneReturn

LEMMA CountedType ==
  ASSUME NEW F \in SUBSET Fee
  PROVE  Counted(F) \in SUBSET (FeeTypes \X {"ESTIMATE", "SETTLEMENT", "CARGO_INVOICE"} \X Refs)
BY DEF Counted, SettledFees, Fee

LEMMA BasisType ==
  ASSUME TypeOK, NEW F \in SUBSET Fee
  PROVE  Basis(F) \in [fees : SUBSET (FeeTypes \X {"ESTIMATE", "SETTLEMENT", "CARGO_INVOICE"} \X Refs),
                       commission : {"estimated", "settled"}, refunded : BOOLEAN]
BY CountedType DEF Basis, TypeOK, Item

LEMMA InitInv == Init => Inv
<1> SUFFICES ASSUME Init PROVE Inv
  OBVIOUS
<1>1. PICK tariff \in BOOLEAN : fees = ApplyEstimate({}, tariff)
  BY DEF Init
<1>2. fees \subseteq Fee /\ \A f \in fees : f.unit = None
  BY <1>1, ApplyEstimateAdds DEF AddsEstimates
<1>3. order \in Order /\ ~order.settled /\ order.status = "NOT_SETTLED"
  BY DEF Init
<1>4. TypeOK
  BY <1>2, <1>3 DEF Init, TypeOK
<1>5. item.cost => item.linked
  BY DEF Init
<1> QED
  BY <1>2, <1>3, <1>4, <1>5
  DEF Inv, FullyHasNumber, SettledIsComputable, SettledIsCurrent, UnitsBelongToOneReturn

(***************************************************************************)
(* Types.                                                                  *)
(***************************************************************************)
LEMMA LegType ==
  ASSUME NEW r \in Returns, NEW u \in Units \cup {None}, NEW ty \in FeeTypes
  PROVE  Leg(ty, r, u) \in Fee
BY DEF Leg, Fee, Refs

LEMMA UnitForType ==
  ASSUME TypeOK, NEW r \in Returns
  PROVE  UnitFor(r) \subseteq Units \cup {None}
<1>1. \A f \in Legs(r) : f.unit \in Units \cup {None}
  BY DEF Legs, TypeOK, Fee
<1> QED
  BY <1>1 DEF UnitFor, FreeUnits

LEMMA LinkedType ==
  ASSUME NEW f \in Fee, NEW u \in Units \cup {None}
  PROVE  /\ Linked(f, u) \in Fee
         /\ Linked(f, u).type = f.type
         /\ Linked(f, u).source = f.source
         /\ Linked(f, u).ref = f.ref
         /\ Linked(f, u).confirmed = f.confirmed
         /\ Linked(f, u).unit = IF f.unit = None THEN u ELSE f.unit
BY DEF Linked, Fee

LEMMA WithLegsType ==
  ASSUME TypeOK, NEW r \in Returns, NEW u \in UnitFor(r)
  PROVE  WithLegs(r, u) \subseteq Fee
<1>1. u \in Units \cup {None}
  BY UnitForType
<1>2. fees \subseteq Fee /\ Legs(r) \subseteq Fee
  BY DEF TypeOK, Legs
<1>3. {Linked(f, u) : f \in Legs(r)} \subseteq Fee
  BY <1>1, <1>2, LinkedType
<1>4. MissingLegs(r) \subseteq FeeTypes
  BY DEF MissingLegs, FeeTypes, ReturnLegs
<1>5. {Leg(ty, r, u) : ty \in MissingLegs(r)} \subseteq Fee
  BY <1>1, <1>4, LegType
<1> QED
  BY <1>2, <1>3, <1>5 DEF WithLegs

LEMMA ConfirmType ==
  ASSUME NEW f \in Fee
  PROVE  /\ [f EXCEPT !.confirmed = TRUE] \in Fee
         /\ [f EXCEPT !.confirmed = TRUE].type = f.type
         /\ [f EXCEPT !.confirmed = TRUE].ref = f.ref
         /\ [f EXCEPT !.confirmed = TRUE].unit = f.unit
BY DEF Fee

LEMMA ConfirmedType ==
  ASSUME NEW F \in SUBSET Fee
  PROVE  Confirmed(F) \subseteq Fee
BY ConfirmType DEF Confirmed

LEMMA CargoFeeType ==
  ASSUME NEW c \in Parcels \cup ReturnParcels
  PROVE  CargoFee(c) \in Fee /\ CargoFee(c).unit = None
BY DEF CargoFee, Fee, FeeTypes, ReturnLegs, Refs

LEMMA FinalizeType ==
  ASSUME TypeOK, NEW F \in SUBSET Fee, TryFinalizeReconciliation(F)
  PROVE  order' \in Order /\ basis' \in [fees : SUBSET (FeeTypes \X {"ESTIMATE", "SETTLEMENT", "CARGO_INVOICE"} \X Refs),
                                         commission : {"estimated", "settled"}, refunded : BOOLEAN]
<1>1. Computable \in BOOLEAN
  BY DEF Computable, TypeOK, Order, Item
<1>2. order' \in Order
  <2>1. order \in Order
    BY DEF TypeOK
  <2>2. order.settled \in BOOLEAN /\ (order.settled \/ Computable) \in BOOLEAN
    BY <1>1, <2>1 DEF Order
  <2>3. (IF Computable \/ order.excluded THEN "FULLY_SETTLED" ELSE order.status)
          \in {"NOT_SETTLED", "PARTIALLY_SETTLED", "FULLY_SETTLED"}
    BY <2>1 DEF Order
  <2>4. CASE order.paid /\ ~HasUnresolvedEstimateFee(F)
    <3>1. order' = [order EXCEPT
            !.settled = order.settled \/ Computable,
            !.status  = IF Computable \/ order.excluded THEN "FULLY_SETTLED" ELSE order.status]
      BY <2>4 DEF TryFinalizeReconciliation
    <3>2. QED
      BY <2>1, <2>2, <2>3, <3>1 DEF Order
  <2>5. CASE ~(order.paid /\ ~HasUnresolvedEstimateFee(F))
    BY <2>1, <2>5 DEF TryFinalizeReconciliation
  <2>6. QED
    BY <2>4, <2>5
<1>3. basis' \in {basis, Basis(F)}
  BY DEF TryFinalizeReconciliation, RecomputeSettledProfit
<1> QED
  BY <1>2, <1>3, BasisType DEF TypeOK

LEMMA TypeStep == TypeOK /\ [Next]_vars => TypeOK'
<1> SUFFICES ASSUME TypeOK, [Next]_vars PROVE TypeOK'
  OBVIOUS
<1>1. ASSUME NEW stamped \in BOOLEAN, HandleSale(stamped) PROVE TypeOK'
  BY <1>1 DEF HandleSale, TypeOK, Order, Item
<1>2. CASE HandleDiscount
  BY <1>2 DEF HandleDiscount, TypeOK, Item
<1>3. ASSUME NEW r \in Returns, HandleReturn(r) PROVE TypeOK'
  <2>1. fees' \subseteq Fee
    BY <1>3, WithLegsType DEF HandleReturn
  <2>2. basis' \in {basis, Basis(fees')}
    BY <1>3 DEF HandleReturn, RecomputeSettledProfit
  <2> QED
    BY <1>3, <2>1, <2>2, BasisType DEF HandleReturn, TypeOK
<1>4. CASE HandlePaymentOrderEntry
  <2>1. fees' \in SUBSET Fee
    BY <1>4, ConfirmedType DEF HandlePaymentOrderEntry, TypeOK
  <2> QED
    BY <1>4, <2>1, FinalizeType DEF HandlePaymentOrderEntry, TypeOK
<1>5. ASSUME NEW c \in Parcels \cup ReturnParcels, HandleCargoInvoiceItem(c) PROVE TypeOK'
  <2>1. fees' \in SUBSET Fee
    BY <1>5, CargoFeeType DEF HandleCargoInvoiceItem, TypeOK
  <2> QED
    BY <1>5, <2>1, FinalizeType DEF HandleCargoInvoiceItem, TypeOK
<1>6. CASE BumpReconciliationStatus
  BY <1>6 DEF BumpReconciliationStatus, Bumped, TypeOK, Order
<1>7. ASSUME NEW u \in Units, ClaimOpens(u) PROVE TypeOK'
  BY <1>7 DEF ClaimOpens, TypeOK
<1>8. ASSUME NEW u \in Units, ClaimAccepted(u) PROVE TypeOK'
  <2>1. fees' \subseteq Fee
    BY <1>8, ReturnEstimatesAdd DEF ClaimAccepted, AddsEstimates, TypeOK
  <2> QED
    BY <1>8, <2>1 DEF ClaimAccepted, TypeOK
<1>9. CASE LinkItem
  <2>1. fees' \subseteq Fee
    BY <1>9, ApplyEstimateAdds DEF LinkItem, AddsEstimates, TypeOK
  <2>2. item' \in Item
    BY <1>9 DEF LinkItem, TypeOK, Item
  <2> QED
    BY <1>9, <2>1, <2>2 DEF LinkItem, TypeOK
<1>10. CASE UpsertOrder
  <2>1. fees' \subseteq Fee
    BY <1>10, ApplyEstimateAdds DEF UpsertOrder, AddsEstimates, TypeOK
  <2>2. item' \in Item /\ order' \in Order
    BY <1>10 DEF UpsertOrder, TypeOK, Item, Order
  <2> QED
    BY <1>10, <2>1, <2>2 DEF UpsertOrder, TypeOK
<1>11. CASE RowsGrowOld \/ UNCHANGED vars
  BY <1>11 DEF RowsGrowOld, vars, TypeOK
<1> QED
  BY <1>1, <1>2, <1>3, <1>4, <1>5, <1>6, <1>7, <1>8, <1>9, <1>10, <1>11 DEF Next

(***************************************************************************)
(* The status and the settled profit.                                      *)
(***************************************************************************)
LEMMA FinalizeStatus ==
  ASSUME TypeOK, FullyHasNumber, SettledIsComputable, NEW F, TryFinalizeReconciliation(F)
  PROVE  /\ FullyHasNumber'
         /\ order'.settled => Computable
         /\ order'.excluded = order.excluded
         /\ order.settled => order'.settled
         /\ order.status = "FULLY_SETTLED" => order'.status = "FULLY_SETTLED"
<1>1. order \in Order
  BY DEF TypeOK
<1>2. CASE order.paid /\ ~HasUnresolvedEstimateFee(F)
  <2> DEFINE status == IF Computable \/ order.excluded THEN "FULLY_SETTLED" ELSE order.status
  <2>1. order' = [order EXCEPT !.settled = order.settled \/ Computable, !.status = status]
    BY <1>2 DEF TryFinalizeReconciliation
  <2>2. /\ order'.settled = (order.settled \/ Computable)
        /\ order'.status = status
        /\ order'.paid = order.paid
        /\ order'.excluded = order.excluded
    BY <1>1, <2>1 DEF Order
  <2> QED
    BY <1>2, <2>2 DEF FullyHasNumber, SettledIsComputable, Computable
<1>3. CASE ~(order.paid /\ ~HasUnresolvedEstimateFee(F))
  BY <1>3 DEF TryFinalizeReconciliation, FullyHasNumber, SettledIsComputable
<1> QED
  BY <1>2, <1>3

LEMMA KeepsStatus ==
  ASSUME TypeOK, FullyHasNumber, SettledIsComputable,
         NEW F, TryFinalizeReconciliation(F), item' = item
  PROVE  FullyHasNumber' /\ SettledIsComputable'
<1>1. /\ FullyHasNumber'
      /\ order'.settled => Computable
      /\ order'.excluded = order.excluded
  BY FinalizeStatus
<1>2. Computable' = Computable
  BY <1>1 DEF Computable
<1> QED
  BY <1>1, <1>2 DEF SettledIsComputable

LEMMA StatusStep ==
  ASSUME TypeOK, FullyHasNumber, SettledIsComputable, [Next]_vars
  PROVE  FullyHasNumber' /\ SettledIsComputable'
<1>1. ASSUME NEW stamped \in BOOLEAN, HandleSale(stamped)
      PROVE  FullyHasNumber' /\ SettledIsComputable'
  <2>1. order'.paid = (order.paid \/ stamped) /\ order'.settled = order.settled
        /\ order'.status = order.status /\ order'.excluded = order.excluded
    BY <1>1 DEF HandleSale, TypeOK, Order
  <2>2. item'.cost = item.cost /\ item'.linked = item.linked
    BY <1>1 DEF HandleSale, TypeOK, Item
  <2> QED
    BY <2>1, <2>2 DEF FullyHasNumber, SettledIsComputable, Computable
<1>2. CASE HandleDiscount
  <2>1. item'.cost = item.cost /\ item'.linked = item.linked
    BY <1>2 DEF HandleDiscount, TypeOK, Item
  <2> QED
    BY <1>2, <2>1 DEF HandleDiscount, FullyHasNumber, SettledIsComputable, Computable
<1>3. ASSUME NEW r \in Returns, HandleReturn(r)
      PROVE  FullyHasNumber' /\ SettledIsComputable'
  BY <1>3 DEF HandleReturn, FullyHasNumber, SettledIsComputable, Computable
<1>4. CASE HandlePaymentOrderEntry
  <2>1. TryFinalizeReconciliation(fees') /\ item' = item 
    BY <1>4 DEF HandlePaymentOrderEntry
  <2> QED
    BY <2>1, KeepsStatus
<1>5. ASSUME NEW c \in Parcels \cup ReturnParcels, HandleCargoInvoiceItem(c)
      PROVE  FullyHasNumber' /\ SettledIsComputable'
  <2>1. TryFinalizeReconciliation(fees') /\ item' = item
    BY <1>5 DEF HandleCargoInvoiceItem
  <2> QED
    BY <2>1, KeepsStatus
<1>6. CASE BumpReconciliationStatus
  <2>1. order'.paid = order.paid /\ order'.settled = order.settled /\ order'.excluded = order.excluded
    BY <1>6 DEF BumpReconciliationStatus, Bumped, TypeOK, Order
  <2>2. (order'.status = "FULLY_SETTLED") <=> (order.status = "FULLY_SETTLED")
    BY <1>6 DEF BumpReconciliationStatus, Bumped, TypeOK, Order
  <2> QED
    BY <1>6, <2>1, <2>2 DEF BumpReconciliationStatus, FullyHasNumber, SettledIsComputable, Computable
<1>7. ASSUME NEW u \in Units, ClaimOpens(u) \/ ClaimAccepted(u)
      PROVE  FullyHasNumber' /\ SettledIsComputable'
  BY <1>7 DEF ClaimOpens, ClaimAccepted, FullyHasNumber, SettledIsComputable, Computable
<1>8. CASE LinkItem
  BY <1>8 DEF LinkItem, FullyHasNumber, SettledIsComputable, Computable
<1>9. CASE UpsertOrder
  <2>1. order'.paid = order.paid /\ order'.settled = order.settled
        /\ order'.status = order.status /\ order'.excluded = order.excluded
    BY <1>9 DEF UpsertOrder, TypeOK, Order
  <2>2. item'.cost = item.cost /\ item'.linked = item.linked
    BY <1>9 DEF UpsertOrder, TypeOK, Item
  <2> QED
    BY <2>1, <2>2 DEF FullyHasNumber, SettledIsComputable, Computable
<1>10. CASE RowsGrowOld \/ UNCHANGED vars
  BY <1>10 DEF RowsGrowOld, vars, FullyHasNumber, SettledIsComputable, Computable
<1> QED
  BY <1>1, <1>2, <1>3, <1>4, <1>5, <1>6, <1>7, <1>8, <1>9, <1>10 DEF Next

(***************************************************************************)
(* The settled profit is current.                                          *)
(***************************************************************************)

(* Linking a row's legs to a unit changes nothing that is counted.         *)
LEMMA LinkingDoesNotCount ==
  ASSUME TypeOK, NEW r \in Returns, NEW u \in UnitFor(r), MissingLegs(r) = {}
  PROVE  /\ Counted(WithLegs(r, u)) = Counted(fees)
         /\ HasUnresolvedEstimateFee(fees) => HasUnresolvedEstimateFee(WithLegs(r, u))
<1> DEFINE G == WithLegs(r, u)
           Same(f, g) == f.type = g.type /\ f.source = g.source /\ f.ref = g.ref
                         /\ f.confirmed = g.confirmed
<1>1. fees \subseteq Fee /\ Legs(r) \subseteq fees /\ u \in Units \cup {None}
  BY UnitForType DEF TypeOK, Legs
<1>2. G = (fees \ Legs(r)) \cup {Linked(f, u) : f \in Legs(r)}
  BY DEF WithLegs
<1>3. \A f \in Legs(r) : Same(Linked(f, u), f)
  BY <1>1, LinkedType
<1>4. \A g \in G : \E f \in fees : Same(g, f)
  BY <1>1, <1>2, <1>3
<1>5. \A f \in fees : \E g \in G : Same(g, f)
  BY <1>1, <1>2, <1>3
<1>6. ASSUME NEW A, NEW B, \A a \in A : \E b \in B : Same(a, b), \A b \in B : \E a \in A : Same(a, b)
      PROVE  /\ SettledFees(A) \subseteq A /\ SettledFees(B) \subseteq B
             /\ \A a \in SettledFees(A) : \E b \in SettledFees(B) : Same(a, b)
  <2>1. \A b \in B : Actual(b) => \E a \in A : Actual(a) /\ a.type = b.type
    BY <1>6 DEF Actual
  <2>2. ASSUME NEW a \in SettledFees(A), NEW b \in B, Same(a, b)
        PROVE  b \in SettledFees(B)
    BY <2>1, <2>2 DEF SettledFees, Actual
  <2> QED
    BY <1>6, <2>2 DEF SettledFees
<1>7. \A g \in SettledFees(G) : \E f \in SettledFees(fees) : Same(g, f)
  <2> HIDE DEF G
  <2> QED
    BY <1>4, <1>5, <1>6
<1>8. \A f \in SettledFees(fees) : \E g \in SettledFees(G) : Same(f, g)
  <2>1. \A f \in fees : \E g \in G : Same(f, g)
    BY <1>5
  <2>2. \A g \in G : \E f \in fees : Same(f, g)
    BY <1>4
  <2> HIDE DEF G
  <2> QED
    BY <2>1, <2>2, <1>6
<1>9. Counted(G) = Counted(fees)
  <2> HIDE DEF G
  <2>1. Counted(G) \subseteq Counted(fees)
    BY <1>7 DEF Counted
  <2>2. Counted(fees) \subseteq Counted(G)
    BY <1>8 DEF Counted
  <2> QED
    BY <2>1, <2>2
<1>10. HasUnresolvedEstimateFee(fees) => HasUnresolvedEstimateFee(G)
  <2>1. \A f \in Legs(r) : f.source = "SETTLEMENT"
    BY DEF Legs
  <2>2. \A f \in Unresolved(fees) : f \in G
    BY <1>2, <2>1 DEF Unresolved
  <2>3. RealCargo(G) => RealCargo(fees)
    <3> HIDE DEF G
    <3> QED
      BY <1>4 DEF RealCargo
  <2> HIDE DEF G
  <2>4. Unresolved(fees) \subseteq Unresolved(G)
    BY <2>2, <2>3 DEF Unresolved
  <2> QED
    BY <2>4 DEF HasUnresolvedEstimateFee
<1> QED
  BY <1>9, <1>10

LEMMA EstimatesKeepCurrent ==
  ASSUME SettledIsCurrent, AddsEstimates(fees, fees'), order'.settled = order.settled, basis' = basis
  PROVE  SettledIsCurrent'
<1>1. Counted(fees') = Counted(fees)
      /\ (HasUnresolvedEstimateFee(fees) => HasUnresolvedEstimateFee(fees'))
  BY OpenEstimatesDoNotCount
<1> QED
  BY <1>1 DEF SettledIsCurrent

LEMMA FinalizeIsCurrent ==
  ASSUME TypeOK, FullyHasNumber, SettledIsComputable, TryFinalizeReconciliation(fees')
  PROVE  SettledIsCurrent'
<1>1. SUFFICES ASSUME order'.settled, ~HasUnresolvedEstimateFee(fees')
               PROVE  basis'.fees = Counted(fees')
  BY DEF SettledIsCurrent
<1>2. CASE order.paid
  <2>1. Computable
    BY <1>1, FinalizeStatus
  <2>2. basis' = Basis(fees')
    BY <1>1, <1>2, <2>1 DEF TryFinalizeReconciliation, RecomputeSettledProfit
  <2> QED
    BY <2>2 DEF Basis
<1>3. CASE ~order.paid
  <2>1. order' = order
    BY <1>3 DEF TryFinalizeReconciliation
  <2>2. ~order.settled
    BY <1>3 DEF FullyHasNumber
  <2> QED
    BY <1>1, <2>1, <2>2
<1> QED
  BY <1>2, <1>3

LEMMA CurrentStep ==
  ASSUME TypeOK, FullyHasNumber, SettledIsComputable, SettledIsCurrent, [Next]_vars
  PROVE  SettledIsCurrent'
<1>1. ASSUME fees' = fees, basis' = basis, order'.settled = order.settled
      PROVE  SettledIsCurrent'
  BY <1>1 DEF SettledIsCurrent
<1>2. ASSUME NEW stamped \in BOOLEAN, HandleSale(stamped) PROVE SettledIsCurrent'
  <2>1. order'.settled = order.settled
    BY <1>2 DEF HandleSale, TypeOK, Order
  <2> QED
    BY <1>1, <1>2, <2>1 DEF HandleSale
<1>3. CASE HandleDiscount
  BY <1>1, <1>3 DEF HandleDiscount
<1>4. ASSUME NEW r \in Returns, HandleReturn(r) PROVE SettledIsCurrent'
  <2>1. PICK u \in UnitFor(r) : fees' = WithLegs(r, u)
    BY <1>4 DEF HandleReturn
  <2>2. order' = order
    BY <1>4 DEF HandleReturn
  <2>3. CASE ~order.settled
    BY <2>2, <2>3 DEF SettledIsCurrent
  <2>4. CASE order.settled /\ MissingLegs(r) # {}
    <3>1. basis' = Basis(fees')
      BY <1>4, <2>4 DEF HandleReturn, RecomputeSettledProfit, SettledIsComputable
    <3> QED
      BY <3>1 DEF SettledIsCurrent, Basis
  <2>5. CASE MissingLegs(r) = {}
    <3>1. basis' = basis
      BY <1>4, <2>5 DEF HandleReturn
    <3>2. Counted(fees') = Counted(fees)
          /\ (HasUnresolvedEstimateFee(fees) => HasUnresolvedEstimateFee(fees'))
      BY <2>1, <2>5, LinkingDoesNotCount
    <3> QED
      BY <2>2, <3>1, <3>2 DEF SettledIsCurrent
  <2> QED
    BY <2>3, <2>4, <2>5
<1>5. CASE HandlePaymentOrderEntry
  BY <1>5, FinalizeIsCurrent DEF HandlePaymentOrderEntry
<1>6. ASSUME NEW c \in Parcels \cup ReturnParcels, HandleCargoInvoiceItem(c) PROVE SettledIsCurrent'
  BY <1>6, FinalizeIsCurrent DEF HandleCargoInvoiceItem
<1>7. CASE BumpReconciliationStatus
  <2>1. order'.settled = order.settled
    BY <1>7 DEF BumpReconciliationStatus, Bumped, TypeOK, Order
  <2> QED
    BY <1>1, <1>7, <2>1 DEF BumpReconciliationStatus
<1>8. ASSUME NEW u \in Units, ClaimOpens(u) PROVE SettledIsCurrent'
  BY <1>1, <1>8 DEF ClaimOpens
<1>9. ASSUME NEW u \in Units, ClaimAccepted(u) PROVE SettledIsCurrent'
  <2>1. AddsEstimates(fees, fees') /\ order' = order /\ basis' = basis
    BY <1>9, ReturnEstimatesAdd DEF ClaimAccepted
  <2> QED
    BY <2>1, EstimatesKeepCurrent
<1>10. CASE LinkItem
  <2>1. AddsEstimates(fees, fees') /\ order' = order /\ basis' = basis
    BY <1>10, ApplyEstimateAdds DEF LinkItem
  <2> QED
    BY <2>1, EstimatesKeepCurrent
<1>11. CASE UpsertOrder
  <2>1. AddsEstimates(fees, fees') /\ basis' = basis
    BY <1>11, ApplyEstimateAdds DEF UpsertOrder
  <2>2. order'.settled = order.settled
    BY <1>11 DEF UpsertOrder, TypeOK, Order
  <2> QED
    BY <2>1, <2>2, EstimatesKeepCurrent
<1>12. CASE RowsGrowOld \/ UNCHANGED vars
  BY <1>1, <1>12 DEF RowsGrowOld, vars
<1> QED
  BY <1>2, <1>3, <1>4, <1>5, <1>6, <1>7, <1>8, <1>9, <1>10, <1>11, <1>12 DEF Next

(***************************************************************************)
(* Units and returns.                                                      *)
(***************************************************************************)
LEMMA EstimatesKeepUnits ==
  ASSUME UnitsBelongToOneReturn, AddsEstimates(fees, fees')
  PROVE  UnitsBelongToOneReturn'
BY DEF UnitsBelongToOneReturn, AddsEstimates

LEMMA UnitsStep ==
  ASSUME TypeOK, UnitsBelongToOneReturn, [Next]_vars
  PROVE  UnitsBelongToOneReturn'
<1>1. ASSUME fees' = fees PROVE UnitsBelongToOneReturn'
  BY <1>1 DEF UnitsBelongToOneReturn
<1>2. ASSUME NEW r \in Returns, HandleReturn(r) PROVE UnitsBelongToOneReturn'
  <2>1. PICK u \in UnitFor(r) : fees' = WithLegs(r, u)
    BY <1>2 DEF HandleReturn
  <2>2. u \in Units \cup {None} /\ fees \subseteq Fee
    BY UnitForType DEF TypeOK
  <2>3. \A f \in fees : f.unit = u /\ u # None => f.ref = r
    <3>1. \A f \in Legs(r) : f \in fees /\ f.ref = r
      BY DEF Legs
    <3>2. CASE {f.unit : f \in Legs(r)} \ {None} # {}
      <4>1. \E f \in Legs(r) : f.unit = u
        BY <3>2 DEF UnitFor
      <4> QED
        BY <3>1, <4>1 DEF UnitsBelongToOneReturn
    <3>3. CASE {f.unit : f \in Legs(r)} \ {None} = {}
      BY <3>3 DEF UnitFor, FreeUnits
    <3> QED
      BY <3>2, <3>3
  <2>4. \A g \in fees' : (g \in fees) \/ (g.unit = u /\ g.ref = r)
                         \/ (\E f \in fees : g.unit = f.unit /\ g.ref = f.ref)
    <3>1. \A f \in Legs(r) : f \in fees /\ f \in Fee /\ f.ref = r
      BY <2>2 DEF Legs
    <3>2. \A f \in Legs(r) : Linked(f, u).ref = r /\ Linked(f, u).unit \in {u, f.unit}
      BY <2>2, <3>1, LinkedType
    <3>3. \A ty \in MissingLegs(r) : Leg(ty, r, u).unit = u /\ Leg(ty, r, u).ref = r
      BY DEF Leg
    <3> QED
      BY <2>1, <3>1, <3>2, <3>3 DEF WithLegs
  <2> QED
    BY <2>3, <2>4 DEF UnitsBelongToOneReturn
<1>3. CASE HandlePaymentOrderEntry
  <2>1. \A g \in fees' : \/ g \in fees
                         \/ \E f \in fees : g = [f EXCEPT !.confirmed = TRUE]
    BY <1>3 DEF HandlePaymentOrderEntry, Confirmed
  <2>2. \A g \in fees' : \E f \in fees : g.unit = f.unit /\ g.ref = f.ref
    <3>1. TAKE g \in fees'
    <3>2. CASE g \in fees
      BY <3>2
    <3>3. ASSUME NEW f \in fees, g = [f EXCEPT !.confirmed = TRUE]
          PROVE  g.unit = f.unit /\ g.ref = f.ref
      <4>1. f \in Fee
        BY DEF TypeOK
      <4> QED
        BY <3>3, <4>1, ConfirmType
    <3> QED
      BY <2>1, <3>2, <3>3
  <2> QED
    BY <2>2 DEF UnitsBelongToOneReturn
<1>4. ASSUME NEW c \in Parcels \cup ReturnParcels, HandleCargoInvoiceItem(c)
      PROVE  UnitsBelongToOneReturn'
  BY <1>4, CargoFeeType DEF HandleCargoInvoiceItem, UnitsBelongToOneReturn
<1>5. ASSUME NEW u \in Units, ClaimAccepted(u) PROVE UnitsBelongToOneReturn'
  BY <1>5, ReturnEstimatesAdd, EstimatesKeepUnits DEF ClaimAccepted
<1>6. CASE LinkItem
  BY <1>6, ApplyEstimateAdds, EstimatesKeepUnits DEF LinkItem
<1>7. CASE UpsertOrder
  BY <1>7, ApplyEstimateAdds, EstimatesKeepUnits DEF UpsertOrder
<1>8. CASE \/ \E stamped \in BOOLEAN : HandleSale(stamped)
           \/ HandleDiscount
           \/ BumpReconciliationStatus
           \/ \E u \in Units : ClaimOpens(u)
           \/ RowsGrowOld
           \/ UNCHANGED vars
  BY <1>1, <1>8 DEF HandleSale, HandleDiscount, BumpReconciliationStatus, ClaimOpens, RowsGrowOld, vars
<1> QED
  BY <1>2, <1>3, <1>4, <1>5, <1>6, <1>7, <1>8 DEF Next

(***************************************************************************)
(* The theorems.                                                           *)
(***************************************************************************)
LEMMA Invariance == Spec => []Inv
<1>1. Inv /\ [Next]_vars => Inv'
  BY TypeStep, StatusStep, CurrentStep, UnitsStep DEF Inv
<1> QED
  BY InitInv, <1>1, PTL DEF Spec

(* Every row of the model keeps its type, for any number of returns, units *)
(* and parcels.                                                            *)
THEOREM TypeCorrect == Spec => []TypeOK
<1>1. Inv => TypeOK
  BY DEF Inv
<1> QED
  BY <1>1, Invariance, PTL

(* FULLY_SETTLED and the settled profit come together, after the payment   *)
(* order, and an excluded order is the only one without a number.          *)
THEOREM StatusAgreesWithNumber == Spec => []FullyHasNumber
<1>1. Inv => FullyHasNumber
  BY DEF Inv
<1> QED
  BY <1>1, Invariance, PTL

(* Late returns and late invoices reach the settled profit in the step     *)
(* that brings them, as long as no estimate is open.                       *)
THEOREM NumberIsCurrent == Spec => []SettledIsCurrent
<1>1. Inv => SettledIsCurrent
  BY DEF Inv
<1> QED
  BY <1>1, Invariance, PTL

(* No two Return rows are ever linked to one unit of a claim.              *)
THEOREM OneReturnPerUnit == Spec => []UnitsBelongToOneReturn
<1>1. Inv => UnitsBelongToOneReturn
  BY DEF Inv
<1> QED
  BY <1>1, Invariance, PTL

(* No step takes FULLY_SETTLED or a settled profit back, or gives an       *)
(* excluded order one.                                                     *)
THEOREM SettledForGood == Spec => SettlementIsFinal
<1> DEFINE Final == /\ order.status = "FULLY_SETTLED" => order'.status = "FULLY_SETTLED"
                    /\ order.settled => order'.settled
                    /\ order.excluded => ~order'.settled /\ basis' = basis
<1>1. ASSUME Inv, Inv', [Next]_vars PROVE Final
  <2> USE <1>1
  <2>1. TypeOK /\ FullyHasNumber /\ SettledIsComputable /\ SettledIsComputable'
    BY DEF Inv
  <2>2. ASSUME NEW F, TryFinalizeReconciliation(F) PROVE Final
    <3>1. order.excluded => ~order'.settled
      BY <2>1, <2>2, FinalizeStatus DEF Computable
    <3>2. order.excluded => basis' = basis
      BY <2>2 DEF TryFinalizeReconciliation, RecomputeSettledProfit, Computable
    <3> QED
      BY <2>1, <2>2, <3>1, <3>2, FinalizeStatus
  <2>3. ASSUME NEW r \in Returns, HandleReturn(r) PROVE Final
    BY <2>1, <2>3 DEF HandleReturn, RecomputeSettledProfit, Computable, SettledIsComputable
  <2>4. ASSUME basis' = basis, order'.settled = order.settled,
               order.status = "FULLY_SETTLED" => order'.status = "FULLY_SETTLED"
        PROVE  Final
    BY <2>1, <2>4 DEF SettledIsComputable, Computable
  <2>5. ASSUME NEW stamped \in BOOLEAN, HandleSale(stamped) PROVE Final
    <3>1. order'.settled = order.settled /\ order'.status = order.status
      BY <2>1, <2>5 DEF HandleSale, TypeOK, Order
    <3> QED
      BY <2>4, <2>5, <3>1 DEF HandleSale
  <2>6. CASE BumpReconciliationStatus
    <3>1. order'.settled = order.settled
          /\ (order.status = "FULLY_SETTLED" => order'.status = "FULLY_SETTLED")
      BY <2>1, <2>6 DEF BumpReconciliationStatus, Bumped, TypeOK, Order
    <3> QED
      BY <2>4, <2>6, <3>1 DEF BumpReconciliationStatus
  <2>7. CASE UpsertOrder
    <3>1. order'.settled = order.settled /\ order'.status = order.status
      BY <2>1, <2>7 DEF UpsertOrder, TypeOK, Order
    <3> QED
      BY <2>4, <2>7, <3>1 DEF UpsertOrder
  <2>8. CASE \/ HandleDiscount
             \/ \E u \in Units : ClaimOpens(u) \/ ClaimAccepted(u)
             \/ LinkItem
             \/ RowsGrowOld
             \/ UNCHANGED vars
    BY <2>4, <2>8 DEF HandleDiscount, ClaimOpens, ClaimAccepted, LinkItem, RowsGrowOld, vars
  <2>9. CASE \/ HandlePaymentOrderEntry
             \/ \E c \in Parcels \cup ReturnParcels : HandleCargoInvoiceItem(c)
    BY <2>2, <2>9 DEF HandlePaymentOrderEntry, HandleCargoInvoiceItem
  <2> QED
    BY <2>3, <2>5, <2>6, <2>7, <2>8, <2>9 DEF Next
<1>2. Inv /\ Inv' /\ [Next]_vars => [Final]_vars
  BY <1>1
<1> QED
  BY <1>2, Invariance, PTL DEF Spec, SettlementIsFinal
(***************************************************************************)
(* The identity of a fee.                                                  *)
(***************************************************************************)
\* What the partial unique indexes of order_fees compare.
SameKey(f, g) == f.type = g.type /\ f.source = g.source /\ f.ref = g.ref

Keyed(F) == \A f, g \in F : SameKey(f, g) => f = g

\* A fee of F is in G still: its confirmation and its unit are not taken back.
Retained(F, G) ==
  \A f \in F : \E g \in G : /\ SameKey(f, g)
                            /\ f.confirmed => g.confirmed
                            /\ f.unit # None => g.unit = f.unit

LEMMA SubsetRetained ==
  ASSUME NEW F, NEW G, F \subseteq G
  PROVE  Retained(F, G)
BY DEF Retained, SameKey

LEMMA EstimatesKeyed ==
  ASSUME NEW F, Keyed(F), NEW types \in SUBSET FeeTypes
  PROVE  Keyed(WithEstimates(F, types))
<1> DEFINE New == {ty \in types : \A f \in F : ~(f.source = "ESTIMATE" /\ f.type = ty)}
<1>1. WithEstimates(F, types) = F \cup {Estimate(ty) : ty \in New}
  BY DEF WithEstimates
<1>2. \A ty \in New : Estimate(ty).source = "ESTIMATE" /\ Estimate(ty).type = ty
  BY DEF Estimate
<1>3. \A ty \in New, f \in F : ~SameKey(f, Estimate(ty)) /\ ~SameKey(Estimate(ty), f)
  BY <1>2 DEF SameKey
<1> HIDE DEF New
<1> QED
  BY <1>1, <1>2, <1>3 DEF Keyed, SameKey

LEMMA ApplyKeyed ==
  ASSUME NEW F, Keyed(F), NEW tariff \in BOOLEAN
  PROVE  Keyed(ApplyEstimate(F, tariff))
<1>1. BaseFees \cup (IF tariff THEN {"SHIPPING"} ELSE {}) \in SUBSET FeeTypes
  BY DEF BaseFees, FeeTypes
<1> QED
  BY <1>1, EstimatesKeyed DEF ApplyEstimate

LEMMA ReturnEstimatesKeyed ==
  ASSUME Keyed(fees), NEW tariff \in BOOLEAN
  PROVE  Keyed(EstimateReturnOnClaim(tariff))
<1>1. ReturnEstimates(tariff) \in SUBSET FeeTypes
  BY DEF ReturnEstimates, FeeTypes, ReturnLegs
<1>2. Keyed(WithEstimates(fees, ReturnEstimates(tariff)))
  BY <1>1, EstimatesKeyed
<1> QED
  BY <1>2, ApplyKeyed DEF EstimateReturnOnClaim

\* If every fee of G is the image of one fee of F and keeps its key, G is
\* keyed, too.
LEMMA ImageKeyed ==
  ASSUME NEW F, Keyed(F), NEW M, \A f \in F : SameKey(f, M[f])
  PROVE  Keyed({M[f] : f \in F})
BY DEF Keyed, SameKey

LEMMA ConfirmedKeyed ==
  ASSUME NEW F \in SUBSET Fee, Keyed(F)
  PROVE  Keyed(Confirmed(F)) /\ Retained(F, Confirmed(F))
<1> DEFINE Due == {f \in F : /\ f.source = "ESTIMATE"
                             /\ f.type \in ConfirmableFeeTypes
                                  \cup (IF order.sellerCargo /\ ~RealCargo(F) THEN {"SHIPPING"} ELSE {})}
           Now == [f \in F |-> IF f \in Due THEN [f EXCEPT !.confirmed = TRUE] ELSE f]
<1>1. Confirmed(F) = {Now[f] : f \in F}
  <2>1. Confirmed(F) = (F \ Due) \cup {[f EXCEPT !.confirmed = TRUE] : f \in Due}
    BY DEF Confirmed
  <2>2. Due \subseteq F
    OBVIOUS
  <2> HIDE DEF Due
  <2> QED
    BY <2>1, <2>2
<1>2. \A f \in F : SameKey(f, Now[f]) /\ Now[f].unit = f.unit /\ (f.confirmed => Now[f].confirmed)
  BY DEF Fee, SameKey
<1> HIDE DEF Now, Due
<1>3. Keyed({Now[f] : f \in F})
  BY <1>2, ImageKeyed
<1> QED
  BY <1>1, <1>2, <1>3 DEF Retained

LEMMA WithLegsKeyed ==
  ASSUME TypeOK, Keyed(fees), NEW r \in Returns, NEW u \in UnitFor(r)
  PROVE  Keyed(WithLegs(r, u)) /\ Retained(fees, WithLegs(r, u))
<1> DEFINE Now == [f \in fees |-> IF f \in Legs(r) THEN Linked(f, u) ELSE f]
           New == {Leg(ty, r, u) : ty \in MissingLegs(r)}
           Old == {Now[f] : f \in fees}
<1>1. fees \subseteq Fee /\ Legs(r) \subseteq fees /\ u \in Units \cup {None}
  BY UnitForType DEF TypeOK, Legs
<1>2. WithLegs(r, u) = Old \cup New
  BY <1>1 DEF WithLegs
<1>3. \A f \in fees : /\ SameKey(f, Now[f])
                      /\ f.confirmed => Now[f].confirmed
                      /\ f.unit # None => Now[f].unit = f.unit
  BY <1>1, LinkedType DEF SameKey
<1>4. \A ty \in MissingLegs(r) : /\ Leg(ty, r, u).type = ty /\ Leg(ty, r, u).ref = r
                                 /\ Leg(ty, r, u).source = "SETTLEMENT"
  BY DEF Leg
<1>5. ASSUME NEW f \in fees, NEW ty \in MissingLegs(r)
      PROVE  ~SameKey(f, Leg(ty, r, u))
  <2>1. f \in Legs(r) => f.type # ty
    BY DEF MissingLegs
  <2> QED
    BY <1>4, <2>1 DEF SameKey, Legs
<1> HIDE DEF Now
<1>6. Keyed(Old)
  BY <1>3, ImageKeyed
<1>7. \A f \in Old, g \in New : ~SameKey(f, g) /\ ~SameKey(g, f)
  BY <1>3, <1>5 DEF SameKey
<1>8. \A f, g \in New : SameKey(f, g) => f = g
  BY <1>4 DEF SameKey
<1>9. Retained(fees, WithLegs(r, u))
  BY <1>2, <1>3 DEF Retained
<1> HIDE DEF Old, New
<1> QED
  BY <1>2, <1>6, <1>7, <1>8, <1>9 DEF Keyed

LEMMA FeesStep ==
  ASSUME TypeOK, Keyed(fees), [Next]_vars
  PROVE  Keyed(fees') /\ Retained(fees, fees')
<1>1. ASSUME fees' = fees PROVE Keyed(fees') /\ Retained(fees, fees')
  BY <1>1, SubsetRetained
<1>2. ASSUME NEW r \in Returns, HandleReturn(r) PROVE Keyed(fees') /\ Retained(fees, fees')
  BY <1>2, WithLegsKeyed DEF HandleReturn
<1>3. CASE HandlePaymentOrderEntry
  BY <1>3, ConfirmedKeyed DEF HandlePaymentOrderEntry, TypeOK
<1>4. ASSUME NEW c \in Parcels \cup ReturnParcels, HandleCargoInvoiceItem(c)
      PROVE  Keyed(fees') /\ Retained(fees, fees')
  <2>1. CargoFee(c).ref = c /\ fees' = fees \cup {CargoFee(c)} /\ \A f \in fees : f.ref # c
    BY <1>4 DEF HandleCargoInvoiceItem, CargoFee
  <2>2. fees \subseteq fees'
    BY <2>1
  <2> QED
    BY <2>1, <2>2, SubsetRetained DEF Keyed, SameKey
<1>5. ASSUME NEW u \in Units, ClaimAccepted(u) PROVE Keyed(fees') /\ Retained(fees, fees')
  BY <1>5, ReturnEstimatesKeyed, ReturnEstimatesAdd, SubsetRetained DEF ClaimAccepted, AddsEstimates
<1>6. CASE LinkItem \/ UpsertOrder
  <2>1. PICK tariff \in BOOLEAN : fees' = ApplyEstimate(fees, tariff)
    BY <1>6 DEF LinkItem, UpsertOrder
  <2>2. fees \subseteq fees'
    BY <2>1, ApplyEstimateAdds DEF AddsEstimates
  <2> QED
    BY <2>1, <2>2, ApplyKeyed, SubsetRetained
<1>7. CASE \/ \E stamped \in BOOLEAN : HandleSale(stamped)
           \/ HandleDiscount
           \/ BumpReconciliationStatus
           \/ \E u \in Units : ClaimOpens(u)
           \/ RowsGrowOld
           \/ UNCHANGED vars
  BY <1>1, <1>7 DEF HandleSale, HandleDiscount, BumpReconciliationStatus, ClaimOpens, RowsGrowOld, vars
<1> QED
  BY <1>2, <1>3, <1>4, <1>5, <1>6, <1>7 DEF Next

LEMMA KeyedInit == Init => Keyed(fees)
<1>1. Keyed({})
  BY DEF Keyed
<1> QED
  BY <1>1, ApplyKeyed DEF Init

(* However rows are repeated and estimates applied again, no fee is ever   *)
(* written twice: the handlers look before they write, and so, one at a    *)
(* time, never run into the unique indexes of order_fees.                  *)
THEOREM FeesAreWrittenOnce == Spec => []Keyed(fees)
<1>1. TypeOK /\ Keyed(fees) /\ [Next]_vars => Keyed(fees)'
  BY FeesStep
<1> QED
  BY <1>1, KeyedInit, TypeCorrect, PTL DEF Spec

(* No step of any of the writers takes a fee away, opens a confirmed       *)
(* estimate again, or moves a return leg to another unit.                  *)
THEOREM FeesAreRetained == Spec => [][Retained(fees, fees')]_vars
<1>1. TypeOK /\ Keyed(fees) /\ [Next]_vars => [Retained(fees, fees')]_vars
  BY FeesStep
<1> QED
  BY <1>1, FeesAreWrittenOnce, TypeCorrect, PTL DEF Spec

=============================================================================
