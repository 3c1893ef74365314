---------------------------- MODULE Identifiers ----------------------------
(***************************************************************************)
(* Identifiers as bytes and as text: addresses, DReps, governance          *)
(* credentials and ids of governance actions.  One is written as text, or  *)
(* an address as bytes, what was written is read back, and what was read   *)
(* is written again; or the bytes are those of another program.            *)
(*                                                                         *)
(* Bytes are sequences of 0..255, with the sizes of the ledger.  A part is *)
(* a [hash], of [kind] key or script, a pointer with three [numbers], or   *)
(* NoPart; an address has [form] shelley, [payment, staking, network], or  *)
(* byron, [hash, attrs, type, crc, network].  A text has [form] bech32,    *)
(* [hrp, data], the data in groups of five bits; base58, [bytes]; or       *)
(* [word]; the checksum of bech32 is external: a text of this form has the *)
(* right one.  The bytes of an address have [form] octets or, for Byron,   *)
(* array, [arity, tag, payload, crc], the payload being [arity, hash,      *)
(* attrs, type, canonical].                                                *)
(***************************************************************************)
EXTENDS Integers, Sequences, Results

CONSTANTS
  Digests,     \* the hashes of keys and scripts
  TxIds,       \* the ids of transactions
  Indexes,     \* the indexes of governance actions
  Numbers,     \* the slots and indexes of pointers
  OtherBytes   \* bytes of other programs that are read as an address

HashSize == 28
TxIdSize == 32
Cip129Size == 29
MaxText == 108

Octet == 0..255
IsHash(s, size) == s \in Seq(Octet) /\ Len(s) = size

ByronAttrs == {"none", "mainnet", "testnet", "list"}
IsByronPayload(p) ==
  /\ p = [arity |-> p.arity, hash |-> p.hash, attrs |-> p.attrs, type |-> p.type, canonical |-> p.canonical]
  /\ p.canonical \in BOOLEAN
IsWire(w) ==
  \/ w.form = "octets" /\ w = [form |-> "octets", octets |-> w.octets] /\ w.octets \in Seq(Octet)
  \/ /\ w.form = "array" /\ IsByronPayload(w.payload) /\ w.arity \in 0..15
     /\ w = [form |-> "array", arity |-> w.arity, tag |-> w.tag, payload |-> w.payload, crc |-> w.crc]

ASSUME IdAssumption ==
  /\ \A h \in Digests : IsHash(h, HashSize)
  /\ \A t \in TxIds : IsHash(t, TxIdSize)
  /\ \A n \in Indexes : n \in Nat /\ n < 65536
  /\ Numbers \subseteq Nat
  /\ \A w \in OtherBytes : IsWire(w)

VARIABLES
  type,    \* the class of the identifier
  object,  \* what is written, Nil for the bytes of another program
  wire,    \* the text or the bytes that are read
  got,     \* what reading it comes to
  again,   \* the text or the bytes of what was read
  phase

idVars == <<type, object, wire, got, again, phase>>

-----------------------------------------------------------------------------
(* bech32 *)

Power == <<1, 2, 4, 8, 16, 32, 64, 128>>

BitsOf(data, width) ==
  [i \in 1..(Len(data) * width) |->
     (data[(i - 1) \div width + 1] \div Power[width - ((i - 1) % width)]) % 2]

Word(bits, first, width) ==
  LET value[k \in 0..width] == IF k = 0 THEN 0 ELSE 2 * value[k - 1] + bits[first + k - 1]
  IN  value[width]

Words(bits, width) == [g \in 1..(Len(bits) \div width) |-> Word(bits, (g - 1) * width + 1, width)]

\* convertbits, Nil where it returns None.
ConvertBits(data, from, to, pad) ==
  LET bits == BitsOf(data, from)
      rest == Len(bits) % to
  IN  IF pad THEN Words(bits \o [i \in 1..((to - rest) % to) |-> 0], to)
      ELSE IF rest >= from \/ (\E i \in 1..rest : bits[Len(bits) - rest + i] = 1) THEN Nil
      ELSE Words(bits, to)

HrpSize ==
  [addr |-> 4, addr_test |-> 9, stake |-> 5, stake_test |-> 10, cc_hot |-> 6, cc_cold |-> 7, drep |-> 4,
   cc_hot_script |-> 13, cc_cold_script |-> 14, drep_script |-> 11, gov_action |-> 10]

\* The longest is a base address on a testnet.
TooLongText(t) == HrpSize[t.hrp] + 1 + Len(t.data) + 6 > MaxText

\* What bech32_decode accepts.
IsBech32(t) == t.form = "bech32" /\ ~TooLongText(t)

\* encode: None where the text could not be read back.
Bech32(hrp, bytes) ==
  LET t == [form |-> "bech32", hrp |-> hrp, data |-> ConvertBits(bytes, 8, 5, TRUE)]
  IN  IF IsBech32(t) THEN t ELSE Nil

\* bech32_decode and convertbits as their callers use them; Nil stands for their TypeError.
BytesOfText(t) == IF IsBech32(t) THEN ConvertBits(t.data, 5, 8, FALSE) ELSE Nil

-----------------------------------------------------------------------------
(* PointerAddress *)

UpperDigits(n) ==
  LET digits[m \in 0..n] == IF m = 0 THEN <<>> ELSE Append(digits[m \div 128], 128 + (m % 128))
  IN  digits[n]
EncodeInt(n) == Append(UpperDigits(n \div 128), n % 128)
EncodePointer(p) == EncodeInt(p[1]) \o EncodeInt(p[2]) \o EncodeInt(p[3])

NextByte(s, b) ==
  LET n == s.cur + (b % 128)
  IN  IF b < 128 THEN [ints |-> Append(s.ints, n), cur |-> 0] ELSE [ints |-> s.ints, cur |-> n * 128]

\* Leading zeros are accepted, and a last number that does not end is dropped.
DecodePointer(data) ==
  LET read[i \in 0..Len(data)] == IF i = 0 THEN [ints |-> <<>>, cur |-> 0] ELSE NextByte(read[i - 1], data[i])
      ints == read[Len(data)].ints
  IN  IF Len(ints) # 3 THEN Undecodable ELSE Ok([kind |-> "pointer", numbers |-> ints])

-----------------------------------------------------------------------------
(* Address *)

NoPart == [kind |-> "nil"]

\* AddressType and _infer_address_type: by the kinds of payment and staking part.
AddressType ==
  [key    |-> [key |-> 0, script |-> 2, pointer |-> 4, nil |-> 6],
   script |-> [key |-> 1, script |-> 3, pointer |-> 5, nil |-> 7],
   nil    |-> [key |-> 14, script |-> 15]]
ByronType == 8

PaymentKind(n) == IF n \in {14, 15} THEN "nil" ELSE IF n \in {1, 3, 5, 7} THEN "script" ELSE "key"
StakingKind(n) ==
  IF n \in {6, 7} THEN "nil" ELSE IF n \in {4, 5} THEN "pointer" ELSE IF n \in {2, 3, 15} THEN "script" ELSE "key"

HeaderByte(a) == 16 * AddressType[a.payment.kind][a.staking.kind] + a.network
Hrp(a) ==
  IF a.payment.kind = "nil" THEN IF a.network = 1 THEN "stake" ELSE "stake_test"
  ELSE IF a.network = 1 THEN "addr" ELSE "addr_test"

PartBytes(p) ==
  IF p.kind = "nil" THEN <<>> ELSE IF p.kind = "pointer" THEN EncodePointer(p.numbers) ELSE p.hash

Octets(s) == [form |-> "octets", octets |-> s]

\* The CBOR library writes a canonical payload; the checksum is the one that was read.
ByronBytes(b) ==
  [form |-> "array", arity |-> 2, tag |-> 24, crc |-> b.crc,
   payload |-> [arity |-> 3, hash |-> b.hash, attrs |-> b.attrs, type |-> b.type, canonical |-> TRUE]]

ShelleyBytes(a) == <<HeaderByte(a)>> \o PartBytes(a.payment) \o PartBytes(a.staking)

AddressBytes(a) == IF a.form = "byron" THEN ByronBytes(a) ELSE Octets(ShelleyBytes(a))

AddressText(a) ==
  IF a.form = "byron" THEN [form |-> "base58", bytes |-> ByronBytes(a)] ELSE Bech32(Hrp(a), ShelleyBytes(a))

\* Different payloads have different checksums.
Crc32(payload) == payload

\* _infer_byron_network
ByronNetwork(attrs) == IF attrs = "testnet" THEN 0 ELSE 1

ByronAddress(p, crc) ==
  [form |-> "byron", hash |-> p.hash, attrs |-> p.attrs, type |-> p.type, crc |-> crc,
   network |-> ByronNetwork(p.attrs)]

\* _from_byron_cbor
FromByronCbor(w) ==
  IF \/ w.arity # 2 \/ w.tag # 24
     \/ w.crc # Crc32(w.payload)
     \/ w.payload.arity # 3
     \/ Len(w.payload.hash) # HashSize \/ w.payload.attrs = "list" \/ w.payload.type \notin {0, 2}
  THEN Undecodable
  ELSE Ok(ByronAddress(w.payload, w.crc))

\* A part from its bytes: a hash of the wrong size raises AssertionError.
Part(kind, bytes) ==
  IF kind = "pointer" THEN DecodePointer(bytes)
  ELSE IF kind = "nil" THEN IF bytes = <<>> THEN Ok(NoPart) ELSE Raises
  ELSE IF Len(bytes) = HashSize THEN Ok([kind |-> kind, hash |-> bytes]) ELSE Raises

\* Mutant: the network is the last bit of the header.
NetworkOfBit(header) == IF header % 2 \in {0, 1} THEN Ok(header % 2) ELSE Raises

NetworkOf(header) == IF header % 16 \in {0, 1} THEN Ok(header % 16) ELSE Raises

\* The slices of from_primitive: where both parts are there the first has the size
\* of a hash; where one is, it takes all.
Split(n, payload) ==
  IF PaymentKind(n) = "nil" THEN 0
  ELSE IF StakingKind(n) = "nil" \/ Len(payload) < HashSize THEN Len(payload)
  ELSE HashSize

FromParts(n, network, payload) ==
  LET payment == Part(PaymentKind(n), SubSeq(payload, 1, Split(n, payload)))
      staking == Part(StakingKind(n), SubSeq(payload, Split(n, payload) + 1, Len(payload)))
  IN  IF Failed(staking) THEN staking
      ELSE IF Failed(payment) THEN payment
      ELSE Ok([form |-> "shelley", payment |-> payment.ok, staking |-> staking.ok, network |-> network])

FromShelley(v) ==
  LET n == v[1] \div 16
      network == NetworkOf(v[1])
  IN  IF v = <<>> THEN Raises
      ELSE IF n \notin 0..8 \cup {14, 15} THEN Raises
      ELSE IF Failed(network) THEN network
      ELSE IF n = ByronType THEN Refused
      ELSE FromParts(n, network.ok, Tail(v))

\* The first bytes of the encoding of an array.
ArrayHeader(w) == <<128 + w.arity>>

\* from_primitive of bytes: an array of two with tag 24 is a Byron address.
AddressOfBytes(w) ==
  IF w.form = "octets" THEN FromShelley(w.octets)
  ELSE IF w.arity = 2 /\ w.tag = 24 THEN FromByronCbor(w) ELSE FromShelley(ArrayHeader(w))

\* from_primitive of a text, of whatever prefix: what is not bech32 is taken for base58.
AddressOfText(t) ==
  LET v == BytesOfText(t) IN
  IF t.form = "base58" THEN FromByronCbor(t.bytes)
  ELSE IF v = Nil THEN Undecodable
  ELSE IF Len(v) < 2 THEN Undecodable
  ELSE FromShelley(v)
-----------------------------------------------------------------------------
(* GovernanceCredential, [gov, credential, format], and DRep, [drep, credential, format] *)

KeyTypes == [cc_hot |-> 0, cc_cold |-> 1, drep |-> 2]
CredentialTypes == [key |-> 2, script |-> 3]

CredentialBytes(x) ==
  IF x.format = "cip129"
  THEN <<16 * KeyTypes[x.gov] + CredentialTypes[x.credential.kind]>> \o x.credential.hash
  ELSE x.credential.hash

ScriptHrps == [cc_hot |-> "cc_hot_script", cc_cold |-> "cc_cold_script", drep |-> "drep_script"]
CredentialHrp(x) ==
  IF x.format = "cip105" /\ x.credential.kind = "script" THEN ScriptHrps[x.gov] ELSE x.gov

CredentialText(x) == Bech32(CredentialHrp(x), CredentialBytes(x))

\* Mutant: the header is checked for the kind of credential only.
Cip129AnyKey(gov, v) ==
  IF v[1] \div 16 \notin 0..2 \/ v[1] % 16 \notin {2, 3} THEN Raises
  ELSE Part(IF v[1] % 16 = 2 THEN "key" ELSE "script", Tail(v))

Cip129(gov, v) ==
  IF v[1] \div 16 \notin 0..2 \/ v[1] % 16 \notin {2, 3} THEN Raises
  ELSE IF v[1] \div 16 # KeyTypes[gov] THEN Undecodable
  ELSE Part(IF v[1] % 16 = 2 THEN "key" ELSE "script", Tail(v))

\* decode: the prefix of a text of CIP-105 says which hash it is, and that is all.
DecodeCredential(gov, t) ==
  LET v == BytesOfText(t) IN
  IF v = Nil THEN Raises
  ELSE IF Len(v) = HashSize
  THEN Part(IF t.hrp \in {"cc_hot_script", "cc_cold_script", "drep_script"} THEN "script" ELSE "key", v)
  ELSE IF Len(v) = Cip129Size THEN Cip129(gov, v)
  ELSE Undecodable

CredentialRead(gov, c) == [gov |-> gov, credential |-> c, format |-> "cip129"]

CredentialOfText(gov, t) ==
  LET c == DecodeCredential(gov, t) IN IF Failed(c) THEN c ELSE Ok(CredentialRead(gov, c.ok))

WordText(word) == [form |-> "word", word |-> word]

DRepText(d) ==
  IF d.drep = 2 THEN WordText("drep_always_abstain")
  ELSE IF d.drep = 3 THEN WordText("drep_always_no_confidence")
  ELSE CredentialText([gov |-> "drep", credential |-> d.credential, format |-> d.format])

DRepRead(number, c) == [drep |-> number, credential |-> c, format |-> "cip129"]

DRepOfText(t) ==
  LET c == DecodeCredential("drep", t) IN
  IF t = WordText("drep_always_abstain") THEN Ok(DRepRead(2, NoPart))
  ELSE IF t = WordText("drep_always_no_confidence") THEN Ok(DRepRead(3, NoPart))
  ELSE IF Failed(c) THEN c
  ELSE Ok(DRepRead(IF c.ok.kind = "key" THEN 0 ELSE 1, c.ok))

-----------------------------------------------------------------------------
(* GovActionId: [tx, index] *)

\* The hexadecimal digits, padded to an even number.
IndexBytes(n) == IF n < 256 THEN <<n>> ELSE <<n \div 256, n % 256>>

GovActionText(g) == Bech32("gov_action", g.tx \o IndexBytes(g.index))

\* The number in the last two bytes, all there is unless a byte before them is not 0.
IndexOf(b) == (IF Len(b) = 1 THEN 0 ELSE 256 * b[Len(b) - 1]) + b[Len(b)]

\* The constructor raises ValueError for an index of more than two bytes.
GovActionOfText(t) ==
  LET v == BytesOfText(t)
      index == SubSeq(v, TxIdSize + 1, Len(v))
  IN  IF v = Nil THEN Raises
      ELSE IF t.hrp # "gov_action" \/ Len(v) <= TxIdSize THEN Undecodable
      ELSE IF \E i \in 1..(Len(index) - 2) : index[i] # 0 THEN Raises
      ELSE Ok([tx |-> SubSeq(v, 1, TxIdSize), index |-> IndexOf(index)])

-----------------------------------------------------------------------------
IdClasses == {"address", "cc_hot", "cc_cold", "drep credential", "drep", "action"}
GovOf(class) == IF class = "drep credential" THEN "drep" ELSE class

IdText(class, x) ==
  IF class = "address" THEN AddressText(x)
  ELSE IF class = "action" THEN GovActionText(x)
  ELSE IF class = "drep" THEN DRepText(x)
  ELSE CredentialText(x)

IdOfText(class, t) ==
  IF class = "address" THEN AddressOfText(t)
  ELSE IF class = "action" THEN GovActionOfText(t)
  ELSE IF class = "drep" THEN DRepOfText(t)
  ELSE CredentialOfText(GovOf(class), t)

\* An address is also written as bytes, and read from them.
IsBytes(w) == w.form \in {"octets", "array"}
ReadWire(class, w) == IF IsBytes(w) THEN AddressOfBytes(w) ELSE IdOfText(class, w)
WriteLike(w, class, x) == IF IsBytes(w) THEN AddressBytes(x) ELSE IdText(class, x)

-----------------------------------------------------------------------------
(* What there is to write *)

KeyHashes == [kind : {"key"}, hash : Digests]
ScriptHashes == [kind : {"script"}, hash : Digests]
Pointers == [kind : {"pointer"}, numbers : Numbers \X Numbers \X Numbers]

ShelleyAddresses ==
  [form : {"shelley"}, payment : KeyHashes \cup ScriptHashes,
   staking : KeyHashes \cup ScriptHashes \cup Pointers \cup {NoPart}, network : {0, 1}]
  \cup [form : {"shelley"}, payment : {NoPart}, staking : KeyHashes \cup ScriptHashes, network : {0, 1}]

ByronPayload(h, attrs, n) == [arity |-> 3, hash |-> h, attrs |-> attrs, type |-> n, canonical |-> TRUE]
ByronAddresses ==
  {ByronAddress(ByronPayload(h, attrs, n), Crc32(ByronPayload(h, attrs, n))) :
     h \in Digests, attrs \in ByronAttrs \ {"list"}, n \in {0, 2}}

Formats == {"cip129", "cip105"}
GovCredentials(gov) == [gov : {gov}, credential : KeyHashes \cup ScriptHashes, format : Formats]
DRepIds ==
  [drep : {0}, credential : KeyHashes, format : Formats]
  \cup [drep : {1}, credential : ScriptHashes, format : Formats]
  \cup [drep : {2, 3}, credential : {NoPart}, format : Formats]
Actions == [tx : TxIds, index : Indexes]

Identifiers(class) ==
  IF class = "address" THEN ShelleyAddresses \cup ByronAddresses
  ELSE IF class = "action" THEN Actions
  ELSE IF class = "drep" THEN DRepIds
  ELSE GovCredentials(GovOf(class))

-----------------------------------------------------------------------------
IdInit ==
  /\ wire = Nil /\ got = Nil /\ again = Nil
  /\ phase = "id"
  /\ type \in IdClasses
  /\ object \in Identifiers(type)

\* The bytes of another program.
OtherInit ==
  /\ wire \in OtherBytes /\ got = Nil /\ again = Nil
  /\ phase = "id written"
  /\ type = "address"
  /\ object = Nil

WriteId ==
  /\ phase = "id" /\ phase' = "id written"
  /\ \/ wire' = IdText(type, object)
     \/ type = "address" /\ wire' = AddressBytes(object)
  /\ UNCHANGED <<type, object, got, again>>

\* There is no text to read where encode returned None.
ReadId ==
  /\ phase = "id written" /\ wire # Nil /\ phase' = "id read"
  /\ got' = ReadWire(type, wire)
  /\ UNCHANGED <<type, object, wire, again>>

RewriteId ==
  /\ phase = "id read" /\ ~Failed(got) /\ phase' = "id rewritten"
  /\ again' = WriteLike(wire, type, got.ok)
  /\ UNCHANGED <<type, object, wire, got>>

IdNext == WriteId \/ ReadId \/ RewriteId

IdSpec == (IdInit \/ OtherInit) /\ [][IdNext]_idVars

-----------------------------------------------------------------------------
(* Properties *)

HasFormat(x) == "format" \in DOMAIN x
AsCip129(x) == IF HasFormat(x) THEN [x EXCEPT !.format = "cip129"] ELSE x

\* A text of 108 characters holds 57 bytes of a testnet and 60 of the mainnet.
Oversized(a) ==
  /\ type = "address" /\ a.form = "shelley" /\ a.staking.kind = "pointer"
  /\ Len(EncodePointer(a.staking.numbers)) > (IF a.network = 1 THEN 31 ELSE 28)

\* A number of a pointer that begins with zeros, or the last one does not end.
Padded(w) ==
  /\ w.form = "octets" /\ w.octets[1] \div 16 \in {4, 5}
  /\ \/ \E i \in (HashSize + 2)..Len(w.octets) :
          w.octets[i] = 128 /\ (i = HashSize + 2 \/ w.octets[i - 1] < 128)
     \/ w.octets[Len(w.octets)] >= 128
NotCanonical(w) == w.form = "array" /\ ~w.payload.canonical

\* Every identifier has a text, unless a pointer makes it too long, and is read back
\* from it, and every address from its bytes, with the kinds of its hashes, which
\* Python's equality does not compare (Address.from_primitive,
\* GovernanceCredential.decode, DRep.decode and GovActionId.decode against their
\* encode); only the format is forgotten.  Bytes that Address.from_primitive accepts
\* are written again unchanged, so that a transaction that was read keeps its id;
\* numbers of a pointer that are padded or do not end are brought to another form
\* that is read as the same address.  The payload of a Byron address that is not
\* canonical is left out: with the checksum of the old one, the new one is not
\* readable.
IdentifierKept ==
  /\ wire = Nil /\ phase = "id written" => Oversized(object)
  /\ phase \in {"id read", "id rewritten"} /\ object # Nil => got = Ok(AsCip129(object))
  /\ phase = "id rewritten" /\ ~NotCanonical(wire) =>
       /\ ReadWire(type, again) = got
       /\ IsBytes(wire) /\ ~Padded(wire) => again = wire

\* A text is read by its own class only, although most readers ignore the prefix:
\* the headers tell an address from a credential and one role from another.  A text
\* of CIP-105 tells no roles, and the id of a governance action whose first byte is
\* the header of an address with a pointer may be read as one.
NotMistaken ==
  phase = "id written" /\ wire # Nil /\ ~IsBytes(wire) =>
    \A c \in IdClasses \ {type} :
      ~Failed(IdOfText(c, wire)) =>
        \/ {c, type} = {"drep", "drep credential"}
        \/ c # "address" /\ HasFormat(object) /\ object.format = "cip105"
        \/ type = "action" /\ c = "address" /\ object.tx[1] \in {64, 65, 80, 81}

=============================================================================
