---------------------------- MODULE SourceRegistry ----------------------------
(***************************************************************************)
(* Services and the sources their tokens may be used from (services.ts).   *)
(* A source is a text: an address, a block of addresses ("10.0.0.0/8"),    *)
(* the region of some text ("region:eu") or any other name.  Addresses     *)
(* have AddressBits bits instead of 32.                                    *)
(***************************************************************************)
EXTENDS Naturals

CONSTANTS
    AddressBits,   \* bound: width of an address
    NoService      \* a token that is not for a service

VARIABLE services  \* org and name -> the registered sources

Addresses == 0 .. 2 ^ AddressBits - 1

Bits == 0 .. AddressBits - 1

Address(a) == [kind |-> "address", address |-> a]
Block(a, bits) == [kind |-> "block", address |-> a, bits |-> bits]
RegionOf(text) == [kind |-> "region", of |-> text]
Name(name) == [kind |-> "name", name |-> name]
NoText == Name("")

\* The bits that are set in a number.
BitsOf(a) == {i \in Bits : (a \div 2 ^ i) % 2 = 1}

\* JavaScript shifts by a count modulo the width, and cuts off what does not
\* fit.
ShiftedOnes(count) == {i \in Bits : i >= count % AddressBits}

\* A bug to catch: the mask without its special case.
MaskOfAnyBits(bits) == ShiftedOnes(AddressBits - bits)

\* A block of no bits would keep all of them if it were not for this case.
Mask(bits) == IF bits = 0 THEN {} ELSE ShiftedOnes(AddressBits - bits)

\* sourceMatchesIp: the same text, or equal under the mask.  A number of bits
\* that is too large makes the source match nothing.
SourceMatchesIp(source, ip) ==
    \/ source = Address(ip)
    \/ /\ source.kind = "block" /\ source.bits <= AddressBits
       /\ BitsOf(source.address) \cap Mask(source.bits) = BitsOf(ip) \cap Mask(source.bits)

\* The sources that the request's service has now; {} without a service.
SourcesOf(org, name) ==
    IF name # NoService /\ <<org, name>> \in DOMAIN services
    THEN services[<<org, name>>] ELSE {}

\* serviceWarningForRequest: no warning without a registered source; otherwise
\* the address must match, or the region header must be the text of a source,
\* with or without "region:" before it.  An empty header matches nothing.
SourceWarning(org, name, ip, region) ==
    LET sources == SourcesOf(org, name)
    IN  /\ sources # {}
        /\ \A source \in sources :
              /\ ~SourceMatchesIp(source, ip)
              /\ region = NoText \/ source \notin {RegionOf(region), region}

\* upsertService replaces the sources of the service.
UpsertService(org, name, sources) ==
    services' = [s \in DOMAIN services \cup {<<org, name>>} |->
                    IF s = <<org, name>> THEN sources ELSE services[s]]

=============================================================================
