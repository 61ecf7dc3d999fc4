------------------------- MODULE MCAssetUsageLedger -------------------------
(* Small buckets for TLC: two UTC days of two instants each, two policies   *)
(* with different daily caps (the owner may lower the cap while a day is    *)
(* under way), and one key of each namespace under test.                   *)
EXTENDS AssetUsageLedger

CONSTANTS kDirect, kBridge, kOwner, kPermit2, kMerchant, kNative, kToken,
          wide, tight, profile,
          MaxRows    \* bound: reservations in the bucket

MCLane == [k \in Keys |->
  CASE k = kDirect -> "direct"           [] k = kBridge -> "bridge"
    [] k = kOwner -> "owner_cap"         [] k = kPermit2 -> "permit2"
    [] k = kMerchant -> "merchant_native" [] k = kNative -> "metamask_native"
    [] OTHER -> "metamask_token"]
MCAllowlist == {wide, tight}
MCProfile == {profile}
MCPerTransfer == [p \in {wide, tight, profile} |-> 2]
MCDailyLimit == [p \in {wide, tight} |-> IF p = wide THEN 3 ELSE 2]
MCExpiresAt == [p \in {wide, tight} |-> IF p = wide THEN 3 ELSE 2]

(* Any two of the lanes in one bucket, in every order.                      *)
FewRows == Next /\ Cardinality(DOMAIN rows') <= MaxRows
FewSpec == Init /\ [][FewRows]_vars
=============================================================================
