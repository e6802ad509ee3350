------------------------------- MODULE Quoting -------------------------------
(***************************************************************************)
(* From a seller's payment requirements to a quote (src/gate.ts,           *)
(* quoteFromRequirements) in the currency of an envelope                   *)
(* (src/currency.ts).  An offer is the requirements the x402 client        *)
(* selected from a 402: its scheme, network, asset and amount.             *)
(***************************************************************************)
EXTENDS Integers

CONSTANTS
    Offers,        \* [scheme, network, asset, amount]
    KnownAssets,   \* KNOWN_ASSETS: a sequence of [network, asset, currency]
    Malformed      \* an amount that is not an integer string

(* The entries of the table with this asset, on whatever network: the      *)
(* daemon looks an asset up without the network of the offer.              *)
Entries(asset) == {i \in DOMAIN KnownAssets : KnownAssets[i].asset = asset}

(* currencyForAsset: the first such entry decides.                         *)
CurrencyForAsset(asset) ==
    KnownAssets[CHOOSE i \in Entries(asset) : \A j \in Entries(asset) : i <= j].currency

(* What the hook does not turn into a quote it aborts: an asset that is    *)
(* not known, another scheme, an amount that cannot be read.               *)
Usable(offer) ==
    /\ Entries(offer.asset) # {}
    /\ offer.scheme = "exact"
    /\ offer.amount # Malformed

QuoteFromRequirements(offer) ==
    [price |-> offer.amount, currency |-> CurrencyForAsset(offer.asset)]

Quotes == {QuoteFromRequirements(offer) : offer \in {o \in Offers : Usable(o)}}

=============================================================================
