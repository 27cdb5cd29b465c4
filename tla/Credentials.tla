---------------------------- MODULE Credentials ----------------------------
(* hub-extra/auth.py: what the secret of a user holds.  Cryptography is       *)
(* symbolic: a key is named by the call that made it, a signature is the key  *)
(* it was made with, and a key that is derived is what it was derived from.   *)
EXTENDS Naturals, Sequences, TLC

CONSTANTS
    PoolPassword,  \* the password of the HTCondor pool, a sequence of bytes
    Macaroons      \* whether pymacaroons is installed

ASSUME MacaroonsAssumption == Macaroons \in BOOLEAN
Byte == [value : 0..255, pads : SUBSET (0..3)]
ASSUME PoolPasswordAssumption == PoolPassword \in Seq(Byte)

(* Certificates: name, the issuer's name, the key, the key it is signed with, *)
(* whether it is an authority's and what it may be used for.                  *)
GenerateCa(key, common_name) ==
  [key |-> key,
   cert |-> [subject |-> common_name, issuer |-> common_name, public |-> key,
             signer |-> key, ca |-> TRUE, usage |-> {}]]

\* for both ends of a connection
GenerateServerCert(ca, key, common_name) ==
  [key |-> key,
   cert |-> [subject |-> common_name, issuer |-> ca.cert.subject, public |-> key,
             signer |-> ca.key, ca |-> FALSE, usage |-> {"client", "server"}]]

GenerateCsr(key, common_name) ==
  [key |-> key,
   csr |-> [subject |-> common_name, public |-> key, signer |-> key, extensions |-> {}]]

\* a request that is not signed with its own key, or asks for more, is refused
Signable(csr) == csr.signer = csr.public /\ csr.extensions = {}
SignCsr(ca, csr) ==
  [subject |-> csr.subject, issuer |-> ca.cert.subject, public |-> csr.public,
   signer |-> ca.key, ca |-> FALSE, usage |-> {"client"}]

\* mutant: the authority's key is the same in every call
GenerateX509OneCa(n) ==
  LET ca == GenerateCa(<<0, "ca">>, "Coffea farm development CA")
      request == GenerateCsr(<<n, "user">>, "Coffea user")
  IN  [ca_key |-> [key |-> ca.key, password |-> "password"], ca |-> ca.cert,
       host |-> GenerateServerCert(ca, <<n, "host">>, "Coffea dask cluster"),
       user |-> [key |-> request.key, cert |-> SignCsr(ca, request.csr)]]
\* the n-th call: keys of its own, the authority's under a password, and a
\* certificate together with its key in one file
GenerateX509(n) ==
  LET ca == GenerateCa(<<n, "ca">>, "Coffea farm development CA")
      request == GenerateCsr(<<n, "user">>, "Coffea user")
  IN  [ca_key |-> [key |-> ca.key, password |-> "password"], ca |-> ca.cert,
       host |-> GenerateServerCert(ca, <<n, "host">>, "Coffea dask cluster"),
       user |-> [key |-> request.key, cert |-> SignCsr(ca, request.csr)]]

\* External: what TLS asks of the certificate that a peer presents.
Verifies(cert, ca, purpose) ==
  /\ ca.ca /\ cert.issuer = ca.subject /\ cert.signer = ca.public
  /\ purpose \in cert.usage
\* External: distributed asks it of both ends of a connection.
Handshake(client, server) ==
  /\ client.host.key = client.host.cert.public /\ server.host.key = server.host.cert.public
  /\ Verifies(server.host.cert, client.ca, "server")
  /\ Verifies(client.host.cert, server.ca, "client")

-----------------------------------------------------------------------------
(* Tokens.  A byte is a value and the pads it is XORed with: one more time     *)
(* with the same pad takes the pad off.                                       *)
Scrambled(byte, pad) ==
  [value |-> byte.value, pads |-> (byte.pads \ {pad}) \cup ({pad} \ byte.pads)]
SimpleScramble(in_buf) == [i \in DOMAIN in_buf |-> Scrambled(in_buf[i], (i - 1) % 4)]

DeriveMasterKey(password) == [salt |-> "htcondor", info |-> "master jwt", of |-> password]
DeriveServicexMasterKey(password) ==
  [salt |-> "servicex", info |-> "master jwt", of |-> password]

SignToken(identity, issuer, kid, master_key) ==
  [sub |-> identity, iss |-> issuer, kid |-> kid, key |-> master_key]
SignServicexToken(identity, issuer, master_key) ==
  [sub |-> identity, iss |-> issuer, key |-> master_key]

\* mutant: the pool's password is taken once
GenerateCondorOnce(token_value, issuer, name, kid) ==
  SignToken(name, issuer, kid, DeriveMasterKey(SimpleScramble(token_value)))
GenerateCondor(token_value, issuer, name, kid) ==
  LET password == SimpleScramble(token_value)
      whole == IF kid = "POOL" THEN password \o password ELSE password
  IN  SignToken(name, issuer, kid, DeriveMasterKey(whole))

\* without pymacaroons, no token
GenerateXcache(token_value, location, user_name) ==
  IF ~Macaroons THEN <<>>
  ELSE <<[location |-> location, key |-> token_value,
          caveats |-> {<<"name", user_name>>, <<"activity", "DOWNLOAD">>,
                       <<"path", "/store">>, <<"before", "52 weeks">>}]>>

GenerateServicex(token_value, issuer, name) ==
  SignServicexToken(name, issuer, DeriveServicexMasterKey(SimpleScramble(token_value)))

\* External: the pool keeps its password scrambled, as the secret has it.
PoolFile == SimpleScramble(PoolPassword)
\* External: the pool takes a token signed with a key of its doubled password.
CondorAccepts(token) ==
  token.kid = "POOL" /\ token.key = DeriveMasterKey(PoolPassword \o PoolPassword)

-----------------------------------------------------------------------------
\* pre_spawn_hook: the fields of the secret that the n-th spawn writes
Secret(n) ==
  [x509 |-> GenerateX509(n),
   xcache_token |-> GenerateXcache(PoolFile, "T2_US_Nebraska", "cms-jovyan"),
   condor_token |-> GenerateCondor(PoolFile, "condor", "submituser", "POOL"),
   servicex |-> GenerateServicex(PoolFile, "cmsaf-jh.unl.edu", "cms-jovyan@unl.edu")]
=============================================================================
