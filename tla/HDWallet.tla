------------------------------ MODULE HDWallet ------------------------------
(***************************************************************************)
(* HDWallet of bip32.py: a tree of keys, whose children are derived with   *)
(* the private key of a node or with its public key and chain code alone.  *)
(*                                                                         *)
(* Cryptography is external and symbolic.  A scalar is the sequence of its *)
(* summands, the root key and a hash for each step; a point is written     *)
(* [point] with the scalar it is the multiple of, so that adding points    *)
(* joins the summands; two hashes are equal if what they are made of is.   *)
(*                                                                         *)
(* A wallet is [xprv, pub, chain] and the history of its derivation: mode, *)
(* and its twin, the node that the private keys derive along the same      *)
(* indexes.                                                                *)
(***************************************************************************)
EXTENDS Integers, Sequences

CONSTANTS
  Seeds,
  Half,     \* 2^31, from where on an index is hardened
  Indexes,  \* arguments of derive
  Paths,    \* arguments of derive_from_path: sequences of [index, hardened]
  NotInt,   \* an index that is no int, as the one element of "m/"
  NoKey     \* None

ASSUME HalfAssumption == Half \in Nat
ASSUME PathAssumption == \A p \in Paths : p # <<>>

VARIABLES
  hd,         \* the wallet of the program
  work,       \* derived_hdwallet of derive_from_path, hd when it does not run
  todo,       \* elements of its path to come
  privately,  \* its argument private
  raised      \* the last call raised an exception

hdVars == <<hd, work, todo, privately, raised>>

-----------------------------------------------------------------------------
Point(scalar) == [point |-> scalar]
AddPoints(a, b) == [point |-> a.point \o b.point]

\* _Fk: the two halves of an HMAC, and another HMAC for the chain code.
Hash(of, data, index, key) == [hash |-> of, data |-> data, index |-> index, key |-> key]

Node(w) == [xprv |-> w.xprv, pub |-> w.pub, chain |-> w.chain]

\* _derive_private_child_key_by_index
PrivateChild(n, i) ==
  LET data == IF i < Half THEN n.pub ELSE n.xprv
      left == n.xprv.left \o <<Hash("ZL", data, i, n.chain)>>
      right == n.xprv.right \o <<Hash("ZR", data, i, n.chain)>>
  IN  [xprv |-> [left |-> left, right |-> right], pub |-> Point(left), chain |-> Hash("c", data, i, n.chain)]

\* Mutant: the hash of a public child is made with the index alone.
PublicChildUnkeyed(n, i) ==
  [n EXCEPT !.pub = AddPoints(@, Point(<<Hash("ZL", n.chain, i, n.chain)>>)),
            !.chain = Hash("c", n.pub, i, n.chain)]

\* _derive_public_child_key_by_index: the private key stays that of the parent.
PublicChild(n, i) ==
  [n EXCEPT !.pub = AddPoints(@, Point(<<Hash("ZL", n.pub, i, n.chain)>>)),
            !.chain = Hash("c", n.pub, i, n.chain)]

Number(index, hardened) == IF hardened THEN index + Half ELSE index

\* derive does not raise.
Derives(w, index, private, hardened) ==
  /\ index # NotInt
  /\ private => w.xprv # NoKey
  /\ Number(index, hardened) \in 0..(2 * Half - 1)
  /\ ~private => Number(index, hardened) < Half

\* "private", "public" after a public step, "stale" after a private one behind that,
\* "stale public" after another public one.
Mode(mode, private) ==
  IF private THEN IF mode = "private" THEN "private" ELSE "stale"
  ELSE IF mode \in {"private", "public"} THEN "public" ELSE "stale public"

Child(w, i, private) ==
  LET n == IF private THEN PrivateChild(Node(w), i) ELSE PublicChild(Node(w), i)
  IN  [xprv |-> n.xprv, pub |-> n.pub, chain |-> n.chain,
       mode |-> Mode(w.mode, private), twin |-> PrivateChild(w.twin, i)]

\* from_seed
Root(seed) ==
  LET n == [xprv |-> [left |-> <<seed>>, right |-> <<seed>>], pub |-> Point(<<seed>>),
            chain |-> Hash("c", seed, 0, seed)]
  IN  [xprv |-> n.xprv, pub |-> n.pub, chain |-> n.chain, mode |-> "private", twin |-> n]

Idle == todo = <<>>

Derive(index, private, hardened) ==
  LET i == Number(index, hardened) IN
  /\ Idle
  /\ IF Derives(hd, index, private, hardened)
     THEN hd' = Child(hd, i, private) /\ raised' = FALSE
     ELSE UNCHANGED hd /\ raised' = TRUE
  /\ work' = hd'
  /\ UNCHANGED <<todo, privately>>

\* derive_from_path: the path is relative to the wallet, whatever its m says.
DeriveFromPath(path, private) ==
  /\ Idle
  /\ todo' = path /\ privately' = private
  /\ raised' = FALSE
  /\ UNCHANGED <<hd, work>>

PathStep ==
  LET e == Head(todo) IN
  /\ todo # <<>>
  /\ Derives(work, e.index, privately, e.hardened)
  /\ work' = Child(work, Number(e.index, e.hardened), privately)
  /\ todo' = Tail(todo)
  /\ hd' = IF Tail(todo) = <<>> THEN work' ELSE hd
  /\ UNCHANGED <<privately, raised>>

PathRaises ==
  LET e == Head(todo) IN
  /\ todo # <<>>
  /\ ~Derives(work, e.index, privately, e.hardened)
  /\ todo' = <<>> /\ work' = hd /\ raised' = TRUE
  /\ UNCHANGED <<hd, privately>>

\* HDWallet(public_key=..., chain_code=...), of another wallet.
WatchOnly ==
  /\ Idle
  /\ hd.xprv # NoKey
  /\ hd' = [hd EXCEPT !.xprv = NoKey]
  /\ work' = hd'
  /\ raised' = FALSE
  /\ UNCHANGED <<todo, privately>>

HDInit ==
  /\ hd \in {Root(s) : s \in Seeds}
  /\ work = hd /\ todo = <<>> /\ privately = TRUE /\ raised = FALSE

HDNext ==
  \/ \E index \in Indexes, private, hardened \in BOOLEAN : Derive(index, private, hardened)
  \/ \E path \in Paths, private \in BOOLEAN : DeriveFromPath(path, private)
  \/ PathStep \/ PathRaises
  \/ WatchOnly

HDSpec == HDInit /\ [][HDNext]_hdVars

-----------------------------------------------------------------------------
(* Properties *)

Agrees(w) ==
  /\ w.mode \in {"private", "public"} => w.pub = w.twin.pub /\ w.chain = w.twin.chain
  /\ w.mode = "private" /\ w.xprv # NoKey => w.xprv = w.twin.xprv

\* Public derivation comes to the public key and chain code that private derivation
\* comes to, along any indexes, also without a private key and through
\* derive_from_path (bip32.py:293-504).  Only private derivation after a public
\* one, from the private key of the parent that the wallet still holds, does not.
PublicMeetsPrivate == Agrees(hd) /\ Agrees(work)

Paired(w) == w.xprv # NoKey /\ w.mode \in {"private", "stale"} => w.pub = Point(w.xprv.left)

\* The public key of a wallet belongs to its private key, unless the last of its
\* derivations was public (bip32.py:490-503 keeps the private key of the parent).
KeysPaired == Paired(hd) /\ Paired(work)

\* What the two rest on: the twins are nodes with their own key, and
\* derive_from_path starts with a copy of the wallet.
HDInv ==
  /\ PublicMeetsPrivate /\ KeysPaired
  /\ \A w \in {hd, work} : w.twin.pub = Point(w.twin.xprv.left)
  /\ Idle => work = hd

=============================================================================
