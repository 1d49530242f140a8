------------------------------ MODULE CloudAuth ------------------------------
(***************************************************************************)
(* Who may change the control plane (crates/cloud/src/http.rs, keys.rs,    *)
(* oidc.rs, devices.rs and the device tables of store.rs): org keys,       *)
(* OIDC tokens, and phones paired with a one-time code that sign every     *)
(* request.  Signed requests travel over a network that delays and         *)
(* duplicates them; a restart keeps the devices and forgets pairing codes  *)
(* and nonces.                                                             *)
(***************************************************************************)
EXTENDS Integers, Sequences, FiniteSets

CONSTANTS
  Keys,         \* parse_keys: bearer -> [org, role]
  Tokens,       \* OIDC tokens that may be presented
  Jwks,         \* kid -> key type
  Issuer, Audience, AdminRole,
  Leeway,       \* seconds jsonwebtoken tolerates after exp
  Devices,      \* device ids; a device's read token identifies it
  Codes,
  Absent,       \* a header field or claim that is missing
  PairTtl,      \* 600 s
  MaxSkew,      \* 120 s
  NonceCap,     \* NONCE_CAP
  MaxRequests,  \* bound: signed requests
  MaxAudit,     \* bound: audit entries
  MaxNow        \* bound: the clock

(* What an instance must satisfy.                                          *)
AuthConstants == {PairTtl, MaxSkew, Leeway} \subseteq Nat /\ NonceCap \in Nat \ {0}

VARIABLES
  pairings,   \* code -> [org, role, expires]
  devices,    \* id -> [org, role, apns]
  nonces,     \* id -> the nonces remembered, oldest first
  wire,       \* signed requests sent so far
  executed,   \* history: request -> times it took effect since the last restart
  audit,      \* [org, kind, actor, action, at]; kind: by what the actor is known
  codes,      \* history: code -> [org, devices paired with it]
  now

vars == <<pairings, devices, nonces, wire, executed, audit, codes, now>>

Init ==
  /\ pairings = <<>>
  /\ devices = <<>>
  /\ nonces = <<>>
  /\ wire = {}
  /\ executed = <<>>
  /\ audit = <<>>
  /\ codes = <<>>
  /\ now = 1

Get(f, k, default) == IF k \in DOMAIN f THEN f[k] ELSE default
Put(f, k, v) == [x \in DOMAIN f \cup {k} |-> IF x = k THEN v ELSE f[x]]
Entry(org, kind, actor, action) == [org |-> org, kind |-> kind, actor |-> actor, action |-> action, at |-> now]
Log(e) == Len(audit) < MaxAudit /\ audit' = Append(audit, e)

-----------------------------------------------------------------------------
Algorithms(type) == CASE type = "RSA" -> {"RS256", "RS384", "RS512"}
                      [] type = "EC"  -> {"ES256", "ES384"}
                      [] OTHER        -> {}

(* oidc::verify.  The signature holds when the key named by kid made it,   *)
(* with an algorithm of that key's type; exp, iss and aud must be there.   *)
Verify(t) ==
  /\ t.kid \in DOMAIN Jwks
  /\ t.alg \in Algorithms(Jwks[t.kid]) /\ t.signer = t.kid
  /\ t.exp # Absent /\ t.exp + Leeway >= now
  /\ t.iss = Issuer /\ t.aud = Audience
  /\ t.org # Absent

RoleOf(t) == IF AdminRole \in t.roles THEN "admin" ELSE "viewer"
OidcActor(t) == IF t.sub = Absent THEN t.org ELSE t.sub

-----------------------------------------------------------------------------
(* verify_device_signature, but for the nonce, which is looked at last.    *)
SignatureValid(q) ==
  /\ q.dev \in DOMAIN devices
  /\ q.header = q.dev
  /\ now - q.ts <= MaxSkew /\ q.ts - now <= MaxSkew

NonceUnseen(q) == \A i \in DOMAIN Get(nonces, q.dev, <<>>) : nonces[q.dev][i] # q.nonce

\* Mutant of Recorded: the cap is applied before the new nonce is pushed.
RecordedShort(q) ==
  LET seen == Append(Get(nonces, q.dev, <<>>), q.nonce)
  IN Put(nonces, q.dev, IF Len(seen) >= NonceCap THEN Tail(seen) ELSE seen)

(* check_and_record_nonce: a ring of the last NonceCap.                    *)
Recorded(q) ==
  LET seen == Append(Get(nonces, q.dev, <<>>), q.nonce)
  IN Put(nonces, q.dev, IF Len(seen) > NonceCap THEN Tail(seen) ELSE seen)

Effect(q) == executed' = Put(executed, q, Get(executed, q, 0) + 1)

-----------------------------------------------------------------------------
(* POST /v1/pair/new: an admin org key, never a token or a device.         *)
PairNew(key, code, role) ==
  /\ code \notin DOMAIN codes
  /\ Keys[key].role = "admin"
  /\ pairings' = Put(pairings, code, [org |-> Keys[key].org, role |-> role, expires |-> now + PairTtl])
  /\ codes' = Put(codes, code, [org |-> Keys[key].org, issued |-> now, paired |-> {}])
  /\ UNCHANGED <<devices, nonces, wire, executed, audit, now>>

(* The code is gone whether or not it was still valid.                     *)
Redeemed(code) == [c \in DOMAIN pairings \ {code} |-> pairings[c]]

(* POST /v1/pair: registration and audit entry under one lock.             *)
Pair(code, d) ==
  /\ code \in DOMAIN pairings /\ d \notin DOMAIN devices
  /\ pairings' = Redeemed(code)
  /\ LET p == pairings[code]
         k == codes[code] IN
       IF p.expires < now THEN UNCHANGED <<devices, audit, codes>>
       ELSE /\ devices' = Put(devices, d, [org |-> p.org, role |-> p.role, apns |-> Absent])
            /\ codes' = Put(codes, code, [org |-> k.org, issued |-> k.issued, paired |-> k.paired \cup {[device |-> d, at |-> now]}])
            /\ Log(Entry(p.org, "device", d, "control.pair"))
  /\ UNCHANGED <<nonces, wire, executed, now>>

(* A device signs a request, at most NonceCap within two clock windows;    *)
(* its header may name another device.  Nonces are random: fresh.          *)
Sign(d, header, op) ==
  /\ d \in DOMAIN devices
  /\ Cardinality(wire) < MaxRequests
  /\ Cardinality({q \in wire : q.dev = d /\ q.ts >= now - 2 * MaxSkew}) < NonceCap
  /\ wire' = wire \cup {[dev |-> d, header |-> header, op |-> op, ts |-> now, nonce |-> Cardinality(wire)]}
  /\ UNCHANGED <<pairings, devices, nonces, executed, audit, codes, now>>

(* authorize_mutation with neither a key nor a valid OIDC token: the       *)
(* signature, then the nonce, then the role.  A viewer's nonce is spent.   *)
DeviceMutate(q) ==
  /\ q.op = "kill" /\ SignatureValid(q) /\ NonceUnseen(q)
  /\ nonces' = Recorded(q)
  /\ IF devices[q.dev].role = "admin"
     THEN /\ Effect(q)
          /\ Log(Entry(devices[q.dev].org, "device", q.dev, "control.kill"))
     ELSE UNCHANGED <<executed, audit>>
  /\ UNCHANGED <<pairings, devices, wire, codes, now>>

(* POST /v1/devices/{id}/apns and /activity: any role, only for itself;    *)
(* the request's operation names the id.                                   *)
RegisterApns(q) ==
  /\ q.op \in Devices /\ SignatureValid(q) /\ NonceUnseen(q)
  /\ nonces' = Recorded(q)
  /\ IF q.op = q.dev
     THEN /\ Effect(q)
          /\ devices' = Put(devices, q.dev, [org |-> devices[q.dev].org, role |-> devices[q.dev].role, apns |-> q.nonce])
     ELSE UNCHANGED <<executed, devices>>
  /\ UNCHANGED <<pairings, wire, audit, codes, now>>

KeyMutate(key) ==
  /\ Keys[key].role = "admin"
  /\ Log(Entry(Keys[key].org, "key", key, "control.kill"))
  /\ UNCHANGED <<pairings, devices, nonces, wire, executed, codes, now>>

OidcMutate(t) ==
  /\ Verify(t) /\ RoleOf(t) = "admin"
  /\ Log(Entry(t.org, "oidc", OidcActor(t), "control.kill"))
  /\ UNCHANGED <<pairings, devices, nonces, wire, executed, codes, now>>

(* The snapshot has the devices and the audit trail.                       *)
Restart ==
  /\ pairings' = <<>> /\ nonces' = <<>>
  /\ executed' = <<>>
  /\ UNCHANGED <<devices, wire, audit, codes, now>>

Tick ==
  /\ now < MaxNow
  /\ now' = now + 1
  /\ UNCHANGED <<pairings, devices, nonces, wire, executed, audit, codes>>

Deliver(q) == DeviceMutate(q) \/ RegisterApns(q)

Next ==
  \/ \E key \in DOMAIN Keys, code \in Codes, role \in {"admin", "viewer"} : PairNew(key, code, role)
  \/ \E code \in Codes, d \in Devices : Pair(code, d)
  \/ \E d, h \in Devices, op \in {"kill"} \cup Devices : Sign(d, h, op)
  \/ \E q \in wire : Deliver(q)
  \/ \E key \in DOMAIN Keys : KeyMutate(key)
  \/ \E t \in Tokens : OidcMutate(t)
  \/ Restart \/ Tick

Spec == Init /\ [][Next]_vars

-----------------------------------------------------------------------------
(* check_and_record_nonce: a signed request that the network delivers      *)
(* again, however late, takes effect once while the process runs, although *)
(* only the last NonceCap nonces are remembered.                           *)
ExecutedOnce == \A q \in DOMAIN executed : executed[q] = 1

(* Every entry of the audit trail names a principal that was entitled to   *)
(* it: an admin key, a token the issuer made for this audience with the    *)
(* admin role and within its lifetime, or a device whose code an admin of  *)
(* that org issued (an admin device, unless the entry is its pairing).     *)
AuditActorsEntitled ==
  \A i \in DOMAIN audit : LET e == audit[i] IN
    \/ /\ e.kind = "key" /\ e.action = "control.kill"
       /\ e.actor \in DOMAIN Keys /\ Keys[e.actor].org = e.org /\ Keys[e.actor].role = "admin"
    \/ /\ e.kind = "oidc" /\ e.action = "control.kill"
       /\ \E t \in Tokens : /\ t.iss = Issuer /\ t.aud = Audience /\ t.signer \in DOMAIN Jwks
                            /\ t.org = e.org /\ AdminRole \in t.roles
                            /\ t.exp # Absent /\ t.exp + Leeway >= e.at
                            /\ e.actor \in {t.sub, t.org}
    \/ /\ e.kind = "device" /\ e.actor \in DOMAIN devices /\ devices[e.actor].org = e.org
       /\ e.action # "control.pair" => devices[e.actor].role = "admin"
       /\ \E code \in DOMAIN codes : codes[code].org = e.org
            /\ \E p \in codes[code].paired : p.device = e.actor

(* A pairing code is good for one device and for PairTtl seconds, across   *)
(* restarts.                                                               *)
PairedOnce ==
  \A code \in DOMAIN codes :
    /\ \A p, r \in codes[code].paired : p = r
    /\ \A p \in codes[code].paired : p.at <= codes[code].issued + PairTtl

(* What authorize_mutation and the pairing of devices promise.             *)
OperatorsEntitled == ExecutedOnce /\ AuditActorsEntitled /\ PairedOnce
=============================================================================
