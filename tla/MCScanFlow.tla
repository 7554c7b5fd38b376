----------------------------- MODULE MCScanFlow -----------------------------
(***************************************************************************)
(* Instances of ScanFlow for TLC: one domain that is monitored only, and   *)
(* one that dnstwist finds and that may be promoted into the feed.         *)
(***************************************************************************)
EXTENDS ScanFlow

CONSTANTS target, variant

BothDomains == {target, variant}
OnlyTarget  == {target}
OnlyVariant == {variant}
=============================================================================
