------------------------------ MODULE KomodoKV ------------------------------
(***************************************************************************)
(* The on-chain key-value store (komodo_kv.h).  A store maps each key to   *)
(* an entry or to None.  An update comes from an output of a transaction;  *)
(* ok says that it pays its fee and that its sizes add up, sig names the   *)
(* key that signed it together with the value it replaces (the signature   *)
(* scheme is external), transfer the new owner a "transfer:" value names.  *)
(* Flags hold the days an entry lives and whether it is write-once.        *)
(***************************************************************************)
EXTENDS Integers

CONSTANTS Keys, None,
          KvDay       \* KOMODO_KVDURATION, blocks per day

\* What flags = 0 means: komodo_kvnumdays adds one.
NoFlags == [days |-> 1, protected |-> FALSE]

KvDuration(flags) == flags.days * KvDay

Expired(entry, height) == height > entry.height + KvDuration(entry.flags)

\* komodo_kvsearch deletes the entry it finds expired at the height it is given.
KvSearch(kv, key, height) ==
    IF kv[key] # None /\ Expired(kv[key], height) THEN [kv EXCEPT ![key] = None] ELSE kv

\* komodo_kvupdate: searches at the height written in the update, checks the
\* owner's signature, and writes the entry.  The search also overwrites `flags',
\* by zero when it finds nothing, before they are stored.
KvUpdate(kv, u) ==
    LET alive == KvSearch(kv, u.key, u.height)
        old == alive[u.key]
    IN IF ~u.ok THEN kv
       ELSE IF old = None
       THEN [alive EXCEPT ![u.key] = [value |-> u.value, pubkey |-> u.pubkey,
                                      height |-> u.height, flags |-> NoFlags]]
       ELSE IF old.pubkey # None /\ u.sig # old.pubkey THEN alive
       ELSE [alive EXCEPT ![u.key] =
                [value |-> IF old.flags.protected THEN old.value ELSE u.value,
                 pubkey |-> IF u.transfer # None THEN u.transfer ELSE u.pubkey,
                 height |-> u.height, flags |-> old.flags]]
=============================================================================
