------------------------------ MODULE MCTable -------------------------------
(* Tables of a few internal keys: two versions of one user key, and        *)
(* neighbours that a separator can and cannot be shortened between.        *)
EXTENDS Table, TLC

MCUserKeys == <<<<1, 1>>, <<2>>, <<3>>, <<3, 0>>>>
MCTags == 2 * (kMaxSequenceNumber + 1)

(* Every user key with all its tags, the largest first.                    *)
MCIKey ==
  [i \in 1 .. Len(MCUserKeys) * MCTags |->
     LET n == (i - 1) % MCTags
     IN  InternalKey(MCUserKeys[((i - 1) \div MCTags) + 1], kMaxSequenceNumber - (n \div 2), 1 - (n % 2))]

MCDataKey ==
  {i \in DOMAIN MCIKey :
     MCIKey[i] \in {InternalKey(<<1, 1>>, 2, kTypeValue), InternalKey(<<1, 1>>, 1, kTypeDeletion),
                    InternalKey(<<2>>, 1, kTypeValue), InternalKey(<<3, 0>>, 0, kTypeDeletion)}}

(* <<3>> and <<3, 0>> collide.                                             *)
MCBloomHash ==
  (<<1, 1>> :> 43981 @@ <<2>> :> 4660 @@ <<3>> :> 22136 @@ <<3, 0>> :> 22136)
=============================================================================
