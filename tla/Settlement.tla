----------------------------- MODULE Settlement -----------------------------
(***************************************************************************)
(* The money of one order: the estimated fees it was created with, the     *)
(* vendor's rows that settle it over the following weeks, the returns of   *)
(* its units, and the settled profit.                                      *)
(*                                                                         *)
(* A settlements run reads sixty days of rows, slice by slice, and gives   *)
(* every row a transaction of its own; a row that fails is passed over,    *)
(* and every row is read again by later runs as long as it is among these  *)
(* sixty days.  So rows take effect in any order and any number of times,  *)
(* or not at all.  Claims sync, variant resolution and order intake write  *)
(* the same order in transactions of their own.                            *)
(*                                                                         *)
(* Amounts are abstracted: the settled profit is a function of the fees it *)
(* counts and of the commission, so basis records those.  The order has    *)
(* one line and is not cancelled (a micro export that is loses its fee).   *)
(***************************************************************************)
EXTENDS FiniteSets

CONSTANTS
  Returns,        (* Return rows of the vendor, one per returned unit      *)
  SparseReturns,  (* those that carry no commission amount                 *)
  Units,          (* claim items, one per returned unit                    *)
  Parcels,        (* outbound lines of cargo invoices                      *)
  ReturnParcels,  (* return lines of cargo invoices                        *)
  None            (* NULL                                                  *)

ASSUME NamesAssumption ==
  /\ SparseReturns \subseteq Returns
  /\ None \notin Returns \cup Units \cup Parcels \cup ReturnParcels
  /\ Returns \cap (Parcels \cup ReturnParcels) = {}
  /\ Parcels \cap ReturnParcels = {}

VARIABLES
  order,    (* the orders row                                              *)
  item,     (* its order item                                              *)
  fees,     (* its order_fees rows; unique indexes make them a set         *)
  units,    (* units[u]: the claim item u, as soon as it has an order item *)
  basis,    (* what the settled profit was last computed from              *)
  recent    (* the rows that pay the order are among the sixty days        *)

vars == <<order, item, fees, units, basis, recent>>

ReturnLegs == {"REFUND_DEDUCTION", "COMMISSION_REFUND", "COST_RETURN",
               "RETURN_SHIPPING", "STOPPAGE_REFUND"}
FeeTypes == ReturnLegs \cup {"PLATFORM_SERVICE", "STOPPAGE", "SHIPPING",
                             "INTERNATIONAL_SERVICE", "OVERSEAS_RETURN_OPERATION"}

Refs == Returns \cup Parcels \cup ReturnParcels \cup {None}

Fee == [type : FeeTypes, source : {"ESTIMATE", "SETTLEMENT", "CARGO_INVOICE"},
        ref : Refs, unit : Units \cup {None}, confirmed : BOOLEAN]

Order == [paid : BOOLEAN, status : {"NOT_SETTLED", "PARTIALLY_SETTLED", "FULLY_SETTLED"},
          settled : BOOLEAN, excluded : BOOLEAN, sellerCargo : BOOLEAN, micro : BOOLEAN]

Item == [linked : BOOLEAN, cost : BOOLEAN,
         commission : {"estimated", "settled"}, refunded : BOOLEAN]

Estimate(ty) == [type |-> ty, source |-> "ESTIMATE", ref |-> None,
                 unit |-> None, confirmed |-> FALSE]

\* The estimates of a new order, but for shipping.
BaseFees == IF order.micro THEN {"INTERNATIONAL_SERVICE"} ELSE {"PLATFORM_SERVICE", "STOPPAGE"}

\* Estimates of these types, updated where they exist.
WithEstimates(F, types) ==
  F \cup {Estimate(ty) : ty \in {ty \in types :
            \A f \in F : ~(f.source = "ESTIMATE" /\ f.type = ty)}}

\* applyEstimateOnOrderCreate; the shipping tariff may not be resolvable.
ApplyEstimate(F, tariff) ==
  IF order.excluded THEN F
  ELSE WithEstimates(F, BaseFees \cup (IF tariff THEN {"SHIPPING"} ELSE {}))

Init ==
  /\ order \in {o \in Order : ~o.paid /\ o.status = "NOT_SETTLED" /\ ~o.settled}
  /\ item \in {i \in Item : /\ i.commission = "estimated" /\ ~i.refunded
                            /\ i.cost => i.linked /\ ~order.excluded}
  /\ \E tariff \in BOOLEAN : fees = ApplyEstimate({}, tariff)
  /\ units = [u \in Units |-> "absent"]
  /\ basis = [fees |-> {}, commission |-> "estimated", refunded |-> FALSE]
  /\ recent = TRUE

-----------------------------------------------------------------------------
(* Reading the fees.                                                       *)
RealCargo(F) == \E f \in F : f.source = "CARGO_INVOICE" /\ f.type = "SHIPPING"

\* A shipping estimate is resolved by an invoice, any other by confirmation.
Unresolved(F) ==
  {f \in F : /\ f.source = "ESTIMATE" /\ ~f.confirmed
             /\ f.type = "SHIPPING" => ~RealCargo(F)}

HasUnresolvedEstimateFee(F) == Unresolved(F) # {}

\* What the settled profit is computed from: actual fees and confirmed
\* estimates, and of a return leg the actual ones where there are any.
Actual(f) == f.source # "ESTIMATE"

SettledFees(F) ==
  {f \in F : Actual(f) \/ (f.confirmed /\ (f.type \in ReturnLegs =>
                             ~\E g \in F : Actual(g) /\ g.type = f.type))}

Counted(F) == {<<f.type, f.source, f.ref>> : f \in SettledFees(F)}

Basis(F) == [fees |-> Counted(F), commission |-> item.commission, refunded |-> item.refunded]

Computable == ~order.excluded /\ item.cost

-----------------------------------------------------------------------------
(* Faulty forms of some definitions, for the properties to tell apart.     *)
RecomputeOnce(F) == basis' = IF Computable /\ ~order.settled THEN Basis(F) ELSE basis
AnyUnit == {u \in Units : units[u] # "absent"}
FinalizeWithoutNumber(F) ==
  IF order.paid /\ ~HasUnresolvedEstimateFee(F)
  THEN order' = [order EXCEPT !.status = "FULLY_SETTLED"] /\ UNCHANGED basis
  ELSE UNCHANGED <<order, basis>>
BumpEveryStatus == [order EXCEPT !.status = "PARTIALLY_SETTLED"]
ConfirmedButOwnCargo(F) ==
  LET due == {f \in F : f.source = "ESTIMATE" /\ f.type \in
                          (FeeTypes \ ReturnLegs) \ {"SHIPPING"}}
  IN  (F \ due) \cup {[f EXCEPT !.confirmed = TRUE] : f \in due}
LegWithoutType(ty, r, u) ==
  [type |-> "RETURN", source |-> "SETTLEMENT", ref |-> r, unit |-> u, confirmed |-> FALSE]
-----------------------------------------------------------------------------
RecomputeSettledProfit(F) == basis' = IF Computable THEN Basis(F) ELSE basis

\* tryFinalizeReconciliation, on the fees as they are by now.
TryFinalizeReconciliation(F) ==
  IF order.paid /\ ~HasUnresolvedEstimateFee(F)
  THEN /\ RecomputeSettledProfit(F)
       /\ order' = [order EXCEPT
            !.settled = order.settled \/ Computable,
            !.status  = IF Computable \/ order.excluded THEN "FULLY_SETTLED" ELSE order.status]
  ELSE UNCHANGED <<order, basis>>

(***************************************************************************)
(* Rows of the settlements scan.  A row whose item is not linked to a      *)
(* variant is skipped.                                                     *)
(***************************************************************************)
\* stamped: the row carries the payment order's id already.
HandleSale(stamped) ==
  /\ recent
  /\ item.linked
  /\ item' = [item EXCEPT !.commission = "settled"]
  /\ order' = [order EXCEPT !.paid = order.paid \/ stamped]
  /\ UNCHANGED <<fees, units, basis, recent>>

HandleDiscount ==
  /\ recent
  /\ item.linked
  /\ item' = [item EXCEPT !.refunded = TRUE]
  /\ UNCHANGED <<order, fees, units, basis, recent>>

Legs(r) == {f \in fees : f.source = "SETTLEMENT" /\ f.ref = r}

FreeUnits == {u \in Units : units[u] # "absent" /\ \A f \in fees : f.unit # u}

\* The unit of the row's earlier legs; else a free one; else none yet.
UnitFor(r) ==
  LET inherited == {f.unit : f \in Legs(r)} \ {None}
  IN  IF inherited # {} THEN inherited
      ELSE IF FreeUnits # {} THEN FreeUnits ELSE {None}

Leg(ty, r, u) ==
  [type |-> ty, source |-> "SETTLEMENT", ref |-> r, unit |-> u, confirmed |-> FALSE]

\* The legs that the row should have by now, and does not.
MissingLegs(r) ==
  ({"REFUND_DEDUCTION"} \cup (IF r \in SparseReturns THEN {} ELSE {"COMMISSION_REFUND"})
                        \cup (IF item.cost THEN {"COST_RETURN"} ELSE {}))
    \ {f.type : f \in Legs(r)}

Linked(f, u) == [f EXCEPT !.unit = IF f.unit = None THEN u ELSE f.unit]

WithLegs(r, u) ==
  (fees \ Legs(r)) \cup {Linked(f, u) : f \in Legs(r)}
                   \cup {Leg(ty, r, u) : ty \in MissingLegs(r)}

HandleReturn(r) ==
  /\ item.linked
  /\ \E u \in UnitFor(r) : fees' = WithLegs(r, u)
  /\ IF MissingLegs(r) # {} /\ order.settled
     THEN RecomputeSettledProfit(fees')
     ELSE UNCHANGED basis
  /\ UNCHANGED <<order, item, units, recent>>

ConfirmableFeeTypes ==
  {"PLATFORM_SERVICE", "STOPPAGE", "INTERNATIONAL_SERVICE", "OVERSEAS_RETURN_OPERATION"}

\* The seller's own cargo has no invoice: its estimate is confirmed too.
Confirmed(F) ==
  LET types == ConfirmableFeeTypes
                 \cup (IF order.sellerCargo /\ ~RealCargo(F) THEN {"SHIPPING"} ELSE {})
      due   == {f \in F : f.source = "ESTIMATE" /\ f.type \in types}
  IN  (F \ due) \cup {[f EXCEPT !.confirmed = TRUE] : f \in due}

\* The payment order finds its orders by the id that a Sale row has stamped.
HandlePaymentOrderEntry ==
  /\ recent
  /\ order.paid
  /\ fees' = Confirmed(fees)
  /\ TryFinalizeReconciliation(fees')
  /\ UNCHANGED <<item, units, recent>>

CargoFee(c) ==
  [type |-> IF c \in Parcels THEN "SHIPPING" ELSE "RETURN_SHIPPING",
   source |-> "CARGO_INVOICE", ref |-> c, unit |-> None, confirmed |-> FALSE]

\* A line that was written before is skipped.
HandleCargoInvoiceItem(c) ==
  /\ \A f \in fees : f.ref # c
  /\ fees' = fees \cup {CargoFee(c)}
  /\ TryFinalizeReconciliation(fees')
  /\ UNCHANGED <<item, units, recent>>

Bumped == [order EXCEPT !.status =
             IF order.status = "NOT_SETTLED" THEN "PARTIALLY_SETTLED" ELSE order.status]

\* The end of a settlements run.
BumpReconciliationStatus ==
  /\ order.paid \/ \E f \in fees : Actual(f)
  /\ order' = Bumped
  /\ UNCHANGED <<item, fees, units, basis, recent>>

(***************************************************************************)
(* Claims sync: the state of a unit, and the estimate of the accepted      *)
(* returns.  Accepted is final.                                            *)
(***************************************************************************)
ReturnEstimates(tariff) ==
  IF order.micro THEN {"OVERSEAS_RETURN_OPERATION"}
  ELSE {"REFUND_DEDUCTION", "COMMISSION_REFUND", "STOPPAGE_REFUND"}
         \cup (IF item.cost THEN {"COST_RETURN"} ELSE {})
         \cup (IF tariff THEN {"RETURN_SHIPPING"} ELSE {})

EstimateReturnOnClaim(tariff) ==
  IF order.excluded THEN fees
  ELSE ApplyEstimate(WithEstimates(fees, ReturnEstimates(tariff)), tariff)

ClaimOpens(u) ==
  /\ units[u] = "absent"
  /\ units' = [units EXCEPT ![u] = "open"]
  /\ UNCHANGED <<order, item, fees, basis, recent>>

ClaimAccepted(u) ==
  /\ units' = [units EXCEPT ![u] = "accepted"]
  /\ \E tariff \in BOOLEAN : fees' = EstimateReturnOnClaim(tariff)
  /\ UNCHANGED <<order, item, basis, recent>>

(***************************************************************************)
(* Variant resolution, and a later event of the package.                   *)
(***************************************************************************)
LinkItem ==
  /\ ~item.linked
  /\ \E cost \in IF order.excluded THEN {FALSE} ELSE BOOLEAN :
       item' = [item EXCEPT !.linked = TRUE, !.cost = cost]
  /\ \E tariff \in BOOLEAN : fees' = ApplyEstimate(fees, tariff)
  /\ UNCHANGED <<order, units, basis, recent>>

\* The commission is refreshed as long as no settlement has brought it.
UpsertOrder ==
  /\ \E sellerCargo \in BOOLEAN : order' = [order EXCEPT !.sellerCargo = sellerCargo]
  /\ item' \in {item, [item EXCEPT !.refunded = item.refunded /\ item.commission = "settled"]}
  /\ \E tariff \in BOOLEAN : fees' = ApplyEstimate(fees, tariff)
  /\ UNCHANGED <<units, basis, recent>>

\* The rows that pay the order fall out of the sixty days.  Returns and
\* invoices have dates, and sixty days, of their own.
RowsGrowOld ==
  /\ recent
  /\ recent' = FALSE
  /\ UNCHANGED <<order, item, fees, units, basis>>

Next ==
  \/ \E stamped \in BOOLEAN : HandleSale(stamped)
  \/ HandleDiscount
  \/ \E r \in Returns : HandleReturn(r)
  \/ HandlePaymentOrderEntry
  \/ \E c \in Parcels \cup ReturnParcels : HandleCargoInvoiceItem(c)
  \/ BumpReconciliationStatus
  \/ \E u \in Units : ClaimOpens(u) \/ ClaimAccepted(u)
  \/ LinkItem
  \/ UpsertOrder
  \/ RowsGrowOld

Spec == Init /\ [][Next]_vars

(***************************************************************************)
(* Fairness: the vendor pays, and bills what it carried itself, and what   *)
(* is among the sixty days is read again and again, which they may end     *)
(* before a row has taken effect.  Returns, claims, links and further      *)
(* events may never come, and the latter do not change the carrier for     *)
(* ever.                                                                   *)
(***************************************************************************)
Fairness ==
  /\ WF_vars(HandleSale(TRUE))
  /\ WF_vars(HandlePaymentOrderEntry)
  /\ \A c \in Parcels : WF_vars(~order.sellerCargo /\ HandleCargoInvoiceItem(c))
  /\ <>[][order'.sellerCargo = order.sellerCargo]_vars

FairSpec == Spec /\ Fairness

-----------------------------------------------------------------------------
(* Types of all the variables.                                             *)
TypeOK ==
  /\ order \in Order
  /\ item \in Item
  /\ fees \subseteq Fee
  /\ units \in [Units -> {"absent", "open", "accepted"}]
  /\ basis \in [fees : SUBSET (FeeTypes \X {"ESTIMATE", "SETTLEMENT", "CARGO_INVOICE"} \X Refs),
                commission : {"estimated", "settled"}, refunded : BOOLEAN]
  /\ recent \in BOOLEAN

(* An order shows a settled profit exactly when it is FULLY_SETTLED, or is *)
(* FULLY_SETTLED without one because it is excluded, and never before its  *)
(* payment order: no premature and no missing final number, whatever       *)
(* arrives first, payment, cargo invoice, return or claim.                 *)
FullyHasNumber ==
  /\ order.settled => order.status = "FULLY_SETTLED"
  /\ order.status = "FULLY_SETTLED" => order.paid /\ (order.settled \/ order.excluded)

(* While no estimate is open, the settled profit counts every fee that has *)
(* landed, each return leg once: late returns and late invoices are taken  *)
(* into the final number in the step that brings them.                     *)
SettledIsCurrent ==
  order.settled /\ ~HasUnresolvedEstimateFee(fees) => basis.fees = Counted(fees)

(* All legs of one unit belong to one Return row, although rows and claims *)
(* arrive in any order and legs are linked to units after the fact.        *)
UnitsBelongToOneReturn ==
  \A f, g \in fees : f.unit = g.unit /\ f.unit # None => f.ref = g.ref

(* FULLY_SETTLED is never taken back, nor is the settled profit, and an    *)
(* excluded order never gets one.                                          *)
SettlementIsFinal ==
  [][/\ order.status = "FULLY_SETTLED" => order'.status = "FULLY_SETTLED"
     /\ order.settled => order'.settled
     /\ order.excluded => ~order'.settled /\ basis' = basis]_vars

\* A claim has left the estimate of a return leg behind.
ReturnEstimated == \E f \in fees : f.source = "ESTIMATE" /\ f.type \in ReturnLegs

\* Everything but the invoice of the vendor's cargo has come.
AwaitsInvoice ==
  /\ order.paid
  /\ ~order.sellerCargo
  /\ HasUnresolvedEstimateFee(fees)
  /\ \A f \in Unresolved(fees) : f.type = "SHIPPING"

\* The sixty days are over, and more than an invoice is missing.
ReadTooLate == ~recent /\ ~AwaitsInvoice

Settleable == item.linked /\ (item.cost \/ order.excluded)

(* An order that can be settled (its item is linked, with a cost or kept   *)
(* out of the profit) is settled in the end, in whatever order payment,    *)
(* invoice and link arrive and whoever carried it, unless a return was     *)
(* accepted, or the rows that pay it grew too old before they had all      *)
(* taken effect; an invoice may come as late as it likes.                  *)
SettlesUnlessReturned ==
  Settleable ~> order.status = "FULLY_SETTLED" \/ ReadTooLate \/ ReturnEstimated

(* What finalize-reconciliation.ts:22-23 says: after the payment order the *)
(* only fee without its real value is a shipping estimate whose invoice is *)
(* missing; so an order that can be settled is settled once it is billed,  *)
(* if its rows were read in time.                                          *)
Settles ==
  Settleable ~> order.status = "FULLY_SETTLED" \/ ReadTooLate

(* While its rows are read, the settled profit catches up with commissions *)
(* and refunds that arrive after it was computed.                          *)
NumberCatchesUp ==
  <>[](order.settled /\ recent => ReturnEstimated \/ basis = Basis(fees))

=============================================================================
