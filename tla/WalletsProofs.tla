--------------------------- MODULE WalletsProofs ---------------------------
(***************************************************************************)
(* What the primitives of Wallets preserve, for any number of calls and    *)
(* wallets.  The proofs about the services cite these lemmas.              *)
(***************************************************************************)
EXTENDS Wallets, TLAPS

WalletsInv == WalletsTypeOK /\ InFlightCovered

(* Before the first call nothing is in flight.                             *)
LEMMA WalletsInitInv ==
    ASSUME NEW opening \in Purses, WalletsInit(opening)
    PROVE  WalletsInv
<1>1. WalletsTypeOK
  BY DEF WalletsInit, WalletsTypeOK, NoDelta, Purses
<1>2. InFlightCovered
  BY WalletsAssumption
  DEF WalletsInit, InFlightCovered, NoDelta, Seen, Purses
<1>. QED
  BY <1>1, <1>2 DEF WalletsInv

(* The guarded UPDATE of credit and debit (wallet_service.py) keeps the    *)
(* wallets covered when its result stays within bounds.                    *)
LEMMA UpdateKeepsInv ==
    ASSUME WalletsInv,
           NEW c \in Call, NEW u \in User, NEW cur \in Currency, NEW a \in Int,
           CanLock(c, u),
           Seen(c, u, cur) + a \in 0 .. MaxBalance,
           Update(c, u, cur, a)
    PROVE  WalletsInv'
<1>. USE DEF WalletsInv, WalletsTypeOK, Purses
<1>1. WalletsTypeOK'
  BY DEF Update
<1>2. ASSUME NEW d \in Call, NEW w \in User, NEW k \in Currency
      PROVE  /\ delta'[d][w][k] # 0 => holder'[w] = d
             /\ holder'[w] = d => Seen(d, w, k)' \in 0 .. MaxBalance
  <2>1. CASE w = u /\ d = c
    BY <2>1, WalletsAssumption DEF Update, Seen, InFlightCovered, CanLock
  <2>2. CASE w = u /\ d # c
    BY <2>2, WalletsAssumption DEF Update, Seen, InFlightCovered, CanLock
  <2>3. CASE w # u
    BY <2>3 DEF Update, Seen, InFlightCovered
  <2>. QED
    BY <2>1, <2>2, <2>3
<1>. QED
  BY <1>1, <1>2 DEF InFlightCovered

(* credit keeps the wallets covered.                                       *)
LEMMA CreditKeepsInv ==
    ASSUME WalletsInv,
           NEW c \in Call, NEW u \in User, NEW cur \in Currency, NEW a \in Int,
           Credit(c, u, cur, a)
    PROVE  WalletsInv'
<1>1. Seen(c, u, cur) + a \in 0 .. MaxBalance
  BY WalletsAssumption
  DEF Credit, CanLock, Seen, WalletsInv, WalletsTypeOK, InFlightCovered, Purses
<1>. QED
  BY <1>1, UpdateKeepsInv DEF Credit

(* debit keeps the wallets covered.                                        *)
LEMMA DebitKeepsInv ==
    ASSUME WalletsInv,
           NEW c \in Call, NEW u \in User, NEW cur \in Currency, NEW a \in Int,
           Debit(c, u, cur, a)
    PROVE  WalletsInv'
<1>1. Seen(c, u, cur) + (-a) \in 0 .. MaxBalance
  BY WalletsAssumption
  DEF Debit, CanLock, Seen, WalletsInv, WalletsTypeOK, InFlightCovered, Purses
<1>2. -a \in Int
  OBVIOUS
<1>. QED
  BY <1>1, <1>2, UpdateKeepsInv DEF Debit

(* session.commit publishes balances within bounds.                        *)
LEMMA CommitKeepsInv ==
    ASSUME WalletsInv, NEW c \in Call, CommitWallets(c)
    PROVE  WalletsInv'
<1>. USE DEF WalletsInv, WalletsTypeOK, Purses
<1>1. ASSUME NEW w \in User, NEW k \in Currency
      PROVE  /\ balance'[w][k] \in 0 .. MaxBalance
             /\ holder[w] # c => balance'[w][k] = balance[w][k]
  BY DEF CommitWallets, InFlightCovered, Seen
<1>2. WalletsTypeOK'
  <2>1. balance' \in Purses
    BY <1>1 DEF CommitWallets
  <2>. QED
    BY <2>1 DEF CommitWallets, Unlocked, NoDelta
<1>3. ASSUME NEW d \in Call, NEW w \in User, NEW k \in Currency
      PROVE  /\ delta'[d][w][k] # 0 => holder'[w] = d
             /\ holder'[w] = d => Seen(d, w, k)' \in 0 .. MaxBalance
  <2>1. CASE d = c
    BY <2>1, WalletsAssumption DEF CommitWallets, Unlocked, NoDelta
  <2>2. CASE d # c
    BY <2>2, <1>1, WalletsAssumption
    DEF CommitWallets, Unlocked, NoDelta, InFlightCovered, Seen
  <2>. QED
    BY <2>1, <2>2
<1>. QED
  BY <1>2, <1>3 DEF InFlightCovered

(* session.rollback leaves nothing of the call in any wallet.              *)
LEMMA RollbackKeepsInv ==
    ASSUME WalletsInv, NEW c \in Call, RollbackWallets(c)
    PROVE  WalletsInv'
<1>. USE DEF WalletsInv, WalletsTypeOK, Purses
<1>1. WalletsTypeOK'
  BY DEF RollbackWallets, Unlocked, NoDelta
<1>2. ASSUME NEW d \in Call, NEW w \in User, NEW k \in Currency
      PROVE  /\ delta'[d][w][k] # 0 => holder'[w] = d
             /\ holder'[w] = d => Seen(d, w, k)' \in 0 .. MaxBalance
  BY WalletsAssumption
  DEF RollbackWallets, Unlocked, NoDelta, InFlightCovered, Seen
<1>. QED
  BY <1>1, <1>2 DEF InFlightCovered
=============================================================================
