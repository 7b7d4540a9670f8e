----------------------------- MODULE ClientOptions -----------------------------
(***************************************************************************)
(* NewClient and its options (client.go), as far as they decide how long a *)
(* request may take.  An option changes the client under construction; the *)
(* options run in the order given.  http.Clients are shared by reference:  *)
(* timeout says what each of them allows a request, 0 for no limit.        *)
(***************************************************************************)
EXTENDS Integers, SequencesExt

CONSTANTS
    OwnClient,       \* the http.Client NewClient makes
    GivenClients,    \* the http.Clients a caller may supply
    DefaultTimeout   \* defaultHTTPTimeout

ASSUME ClientsAssumption == OwnClient \notin GivenClients
ASSUME DefaultTimeoutAssumption == DefaultTimeout \in Nat \ {0}

NoClient == "nil"
Unlimited == 0

WithHTTPClient(httpClient) == [option |-> "client", client |-> httpClient]
WithTimeout(timeout)       == [option |-> "timeout", timeout |-> timeout]
WithLabel                  == [option |-> "label"]   \* WithUserAgent, WithLogger

Apply(c, opt) ==
    CASE opt.option = "client" /\ opt.client # NoClient
            -> [c EXCEPT !.HTTPClient = opt.client]
      [] opt.option = "timeout" /\ opt.timeout > 0
            -> [c EXCEPT !.timeout[c.HTTPClient] = opt.timeout]
      [] OTHER -> c

\* The client before any option, when the supplied http.Clients allow given.
DefaultClient(given) ==
    [HTTPClient |-> OwnClient,
     timeout |-> [h \in GivenClients |-> given[h]] @@ (OwnClient :> DefaultTimeout)]

NewClient(opts, given) == FoldLeft(Apply, DefaultClient(given), opts)

\* Whether a request of this client ends although the server stays silent.
RequestsEnd(c) == c.timeout[c.HTTPClient] # Unlimited

(***************************************************************************)
(* What the caller asked for, read from the list of options alone: the     *)
(* last http.Client supplied has a limit of its own, or a positive         *)
(* WithTimeout follows it; a caller who supplies none gets the default.    *)
(***************************************************************************)
AsksForTimeout(opts, given) ==
    LET supplied == {i \in DOMAIN opts : opts[i].option = "client" /\ opts[i].client # NoClient}
        limits   == {i \in DOMAIN opts : opts[i].option = "timeout" /\ opts[i].timeout > 0}
    IN \/ supplied = {}
       \/ LET last == CHOOSE i \in supplied : \A j \in supplied : j <= i
          IN \/ \E i \in limits : i > last
             \/ given[opts[last].client] # Unlimited
=============================================================================
