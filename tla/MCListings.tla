----------------------------- MODULE MCListings -----------------------------
(***************************************************************************)
(* An instance of Listings for TLC: keys of one byte for addresses, and    *)
(* names of which one extends another.                                     *)
(***************************************************************************)
EXTENDS Listings

MCBidders == {<<2>>, <<4>>}
MCTokens == {<<3>>, <<5>>}
MCAssets == {<<2>>, <<2, 2>>, <<2, 3>>, <<4>>}
MCLimits == {1, 5}
=============================================================================
