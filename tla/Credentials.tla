---------------------------- MODULE Credentials ----------------------------
(***************************************************************************)
(* internal/auth: what BuildHeaders makes of a target's auth section, the  *)
(* chain of secret resolvers behind it, the default OAuth validator, and   *)
(* the mock redirect endpoint (provider.go, mock_redirect.go).             *)
(*                                                                         *)
(* A reference names a scheme and is well formed or not.  The store behind *)
(* the scheme cannot be read, has no such entry, or holds a text: words,   *)
(* with or without white space around them.  Each store has a token of its *)
(* own, here named after the scheme, and may hold it with or without the   *)
(* word "Bearer" in front, or hold neither.                                *)
(***************************************************************************)
EXTENDS Decision

Providers == <<"env", "file", "keychain">>       \* NewManager's chain
Refs == [scheme : {"env", "file", "keychain", "vault"}, formed : BOOLEAN]
Stored ==
    [state : {"there"}, pad : BOOLEAN, prefix : {Blank, "Bearer", "bearer"}, token : BOOLEAN]
    \cup [state : {"missing", "unreadable"}, pad : {FALSE}, prefix : {Blank}, token : {FALSE}]

(* Texts, and the one a store holds.                                       *)
Words(pad, words) == [pad |-> pad, words |-> words]
Held(scheme, stored) ==
    Words(stored.pad, IF stored.token
                      THEN IF stored.prefix = Blank THEN <<scheme>> ELSE <<stored.prefix, scheme>>
                      ELSE IF stored.prefix = Blank THEN <<>> ELSE <<stored.prefix>>)
TrimSpace(text) == Words(FALSE, text.words)
IsEmpty(text) == ~text.pad /\ text.words = <<>>

(* The errors that let the chain go on, and one that ends it.              *)
Failed(err) == [err |-> err, secret |-> Words(FALSE, <<>>)]
Unsupported == Failed("unsupported")
Invalid == Failed("invalid")
NotFound == Failed("not-found")
Broken == Failed("broken")
Found(text) == [err |-> Blank, secret |-> text]

(* The value as it stands, white space and all.                            *)
EnvResolve(ref, stored) ==
    CASE ref.scheme # "env" -> Unsupported
      [] ref.scheme = "env" /\ ~ref.formed -> Invalid
      [] OTHER -> IF stored.state = "missing" \/ IsEmpty(Held("env", stored)) THEN NotFound
                  ELSE Found(Held("env", stored))

(* A file that is there is a secret, also when there is nothing in it.     *)
FileResolve(ref, stored) ==
    CASE ref.scheme # "file" -> Unsupported
      [] ref.scheme = "file" /\ ~ref.formed -> Invalid
      [] ref.scheme = "file" /\ ref.formed /\ stored.state = "missing" -> NotFound
      [] ref.scheme = "file" /\ ref.formed /\ stored.state = "unreadable" -> Broken
      [] OTHER -> Found(TrimSpace(Held("file", stored)))

(* parseKeyringRef, then the keyring of the host, if it has one.           *)
KeyringResolve(ref, stored, keyring) ==
    LET text == TrimSpace(Held("keychain", stored))
    IN  CASE ref.scheme # "keychain" \/ (ref.formed /\ ~keyring) -> Unsupported
          [] ref.scheme = "keychain" /\ ~ref.formed -> Invalid
          [] OTHER -> IF stored.state = "there" /\ ~IsEmpty(text) THEN Found(text) ELSE NotFound

ResolveBy(provider, ref, stored, keyring) ==
    CASE provider = "env" -> EnvResolve(ref, stored)
      [] provider = "file" -> FileResolve(ref, stored)
      [] provider = "keychain" -> KeyringResolve(ref, stored, keyring)

(* ChainResolver: the first that finds it or breaks; else all errors.      *)
ChainResolve(ref, stored, keyring) ==
    LET tried == [i \in 1 .. Len(Providers) |-> ResolveBy(Providers[i], ref, stored, keyring)]
        ends == {i \in 1 .. Len(Providers) : tried[i].err \in {Blank, "broken"}}
    IN  IF ends = {} THEN NotFound
        ELSE tried[CHOOSE i \in ends : \A j \in ends : i <= j]

(* ------------------------------ OAuth ---------------------------------- *)
URLs == {Blank, "https", "local-http", "remote-http"}
(* DefaultOAuthValidator: both addresses are TLS or loopback, and a client *)
(* secret for the unattended flow.                                         *)
OAuthValidate(cfg, secret) ==
    /\ cfg.tokenURL \in {"https", "local-http"}
    /\ cfg.redirectURL \in {"https", "local-http"}
    /\ ~IsEmpty(secret)

(* --------------------------- BuildHeaders ------------------------------ *)
Refused == [err |-> TRUE, headers |-> <<>>]
Material(headers) == [err |-> FALSE, headers |-> headers]

(* Is there a prefix, in either case, with something after it?             *)
HasBearer(text) == Len(text.words) >= 2 /\ text.words[1] \in {"Bearer", "bearer"}

(* Mutant of BearerValue: always with a prefix of its own.                 *)
BearerValueTwice(text) == Words(text.pad, <<"Bearer">> \o text.words)

(* "Bearer " in front, unless the secret is stored with it.                *)
BearerValue(text) == IF HasBearer(text) THEN text ELSE Words(text.pad, <<"Bearer">> \o text.words)

BuildHeaders(cfg, stored, keyring) ==
    LET r == ChainResolve(cfg.ref, stored, keyring)
        resolved == cfg.hasRef /\ r.err = Blank
    IN  CASE cfg.type \in {Blank, "none"} -> Material(<<>>)
          [] cfg.type = "bearer" -> IF resolved THEN Material(<<BearerValue(r.secret)>>) ELSE Refused
          [] cfg.type = "apikey" -> IF resolved /\ cfg.keyName
                                    THEN Material(<<r.secret>>) ELSE Refused
          [] cfg.type = "oauth" ->
                 IF /\ cfg.clientID /\ cfg.callbackID /\ cfg.tokenURL # Blank /\ cfg.redirectURL # Blank
                    /\ resolved \/ ~cfg.hasRef
                    /\ OAuthValidate(cfg, IF cfg.hasRef THEN r.secret ELSE Words(FALSE, <<>>))
                 THEN Material(<<>>) ELSE Refused
          [] OTHER -> Refused

(* ------------------------- the mock redirect --------------------------- *)
CallbackInputs ==
    [method : {"GET", "POST", "PUT"}, mode : {Blank, "allow", "fail", "other"},
     code : BOOLEAN, callbackID : BOOLEAN, error : BOOLEAN]

(* The mode decides, none is allow; a code that is not given is made up.   *)
HandleCallback(c) ==
    CASE c.method = "PUT" -> [status |-> 405, code |-> FALSE]
      [] c.method # "PUT" /\ c.mode \in {Blank, "allow"} -> [status |-> 200, code |-> TRUE]
      [] c.method # "PUT" /\ c.mode = "fail" -> [status |-> 401, code |-> FALSE]
      [] OTHER -> [status |-> 400, code |-> FALSE]
-----------------------------------------------------------------------------
HeaderTypes ==
    [type : {Blank, "none", "bearer", "apikey", "bad"}, hasRef : BOOLEAN, ref : Refs,
     keyName : BOOLEAN, clientID : {TRUE}, callbackID : {TRUE}, tokenURL : {Blank}, redirectURL : {Blank}]
OAuthTypes ==
    [type : {"oauth"}, hasRef : BOOLEAN, ref : Refs, keyName : {FALSE}, clientID : BOOLEAN,
     callbackID : BOOLEAN, tokenURL : URLs, redirectURL : URLs]
(* An environment variable can always be read.                             *)
AuthInputs ==
    {i \in [cfg : HeaderTypes \cup OAuthTypes, stored : Stored, keyring : BOOLEAN] :
        ~(i.cfg.ref.scheme = "env" /\ i.stored.state = "unreadable")}

AuthAsk == Ask("auth", AuthInputs) \/ Ask("callback", CallbackInputs)
AuthReply ==
    \/ Reply("auth", BuildHeaders(in.cfg, in.stored, in.keyring))
    \/ Reply("callback", HandleCallback(in))
-----------------------------------------------------------------------------
(* The secret that is meant by what a store holds: its token, or else the  *)
(* only word there is.                                                     *)
Meant(scheme, stored) ==
    CASE stored.token -> <<scheme>>
      [] ~stored.token /\ stored.prefix # Blank -> <<stored.prefix>>
      [] OTHER -> <<>>

(* A probe that is sent with credentials carries the secret its reference  *)
(* names, from the store of its own scheme and no other: as a bearer with  *)
(* one prefix, whether or not it was stored with it, as a key word for     *)
(* word.  It is empty in two corners only: a file with nothing in it,      *)
(* which FileResolver alone takes for a secret, and a variable that is all *)
(* white space.                                                            *)
HeadersCarryTheSecret ==
    Answered("auth") /\ ~Answer.err /\ in.cfg.type \in {"bearer", "apikey"} =>
        LET scheme == in.cfg.ref.scheme
            sent == Answer.headers[1].words
            secret == Meant(scheme, in.stored)
        IN  /\ in.cfg.hasRef /\ in.cfg.ref.formed /\ in.stored.state = "there"
            /\ in.cfg.type = "bearer" =>
                  \E prefix \in {"Bearer", "bearer"} : sent = <<prefix>> \o secret
            /\ in.cfg.type = "apikey" => sent = Held(scheme, in.stored).words
            /\ secret = <<>> => scheme = "file" \/ (scheme = "env" /\ in.stored.pad)

(* A secret never travels in the clear on behalf of OAuth: a target passes *)
(* only if the token address and the redirect address are both TLS or      *)
(* local, and its reference leads to a client secret to run unattended,    *)
(* which only a variable of white space can pretend to be.                 *)
OAuthStaysPrivate ==
    Answered("auth") /\ ~Answer.err /\ in.cfg.type = "oauth" =>
        /\ in.cfg.tokenURL # "remote-http" /\ in.cfg.redirectURL # "remote-http"
        /\ in.cfg.hasRef /\ in.stored.state = "there"
        /\ in.stored.token \/ in.stored.prefix # Blank \/ (in.cfg.ref.scheme = "env" /\ in.stored.pad)

(* A mock in fail mode never hands out a code, whatever the callback       *)
(* carries, and one that answers 200 always does: the mode alone decides.  *)
MockModeDecides ==
    Answered("callback") =>
        /\ Answer.code <=> Answer.status = 200
        /\ Answer.code => in.mode \in {Blank, "allow"}
        /\ in.mode = "allow" /\ in.method # "PUT" => Answer.code

(* config.Validate calls redirect_url and callback_id optional; a target   *)
(* without them can never authenticate.                                    *)
RedirectIsOptional ==
    Answered("auth") /\ in.cfg.type = "oauth" /\ in.cfg.clientID /\ in.cfg.tokenURL = "https"
        /\ in.cfg.hasRef /\ in.cfg.ref = [scheme |-> "env", formed |-> TRUE]
        /\ in.stored.state = "there" /\ in.stored.token
        /\ in.cfg.redirectURL \in {Blank, "https"}
        => ~Answer.err

(* A header carries the secret its reference names or is not there; a      *)
(* token endpoint is private or local; a callback is judged by the mode it *)
(* was configured with.                                                    *)
CredentialsSound ==
    /\ HeadersCarryTheSecret
    /\ OAuthStaysPrivate
    /\ MockModeDecides
=============================================================================
