----------------------------- MODULE SaleWindow -----------------------------
(***************************************************************************)
(* What every part of the system shares about a sale: the ids, the e-mail  *)
(* addresses, the selling window and the three places that decide whether  *)
(* an instant lies in it.  Instants are natural numbers; no code updates   *)
(* starts_at or ends_at, so they are constants.                            *)
(***************************************************************************)
EXTENDS Integers, FiniteSets

CONSTANTS
    Sales,            \* sale ids a request may name
    Emails,           \* e-mail addresses as clients spell them
    normalizeEmail,   \* [Emails -> Emails]: the lower-case spelling
    StartsAt,         \* [Sales -> Nat]
    EndsAt            \* [Sales -> Nat]

ASSUME WindowConstants ==
    /\ IsFiniteSet(Sales)
    /\ IsFiniteSet(Emails)
    /\ normalizeEmail \in [Emails -> Emails]
    /\ \A e \in Emails : normalizeEmail[normalizeEmail[e]] = normalizeEmail[e]
    /\ StartsAt \in [Sales -> Nat]
    /\ EndsAt \in [Sales -> Nat]
    /\ \A s \in Sales : StartsAt[s] < EndsAt[s]

\* The test of the reservation script, half open.
outsideScriptWindow(s, now) == now < StartsAt[s] \/ now >= EndsAt[s]

\* The test of the Postgres-only path, half open.
isSaleOpen(s, isCancelled, now) ==
    ~isCancelled /\ StartsAt[s] <= now /\ now < EndsAt[s]

\* The trigger check_purchase_within_sale_period, closed at both ends.
WithinSalePeriod(s, purchasedAt) ==
    StartsAt[s] <= purchasedAt /\ purchasedAt <= EndsAt[s]

=============================================================================
