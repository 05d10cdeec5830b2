--------------------------- MODULE MCWebhookServer ---------------------------
(* Model values and bodies for WebhookServer. *)
EXTENDS WebhookServer

Token(user, org, service) == [user |-> user, org |-> org, service |-> service]

\* ann is admin of acme, where bob has a token for a service; dan is admin of
\* delta, an org that is in PostgreSQL only; one caller has no valid token.
MCTokens ==
    {Token("ann", "acme", NoService), Token("bob", "acme", "api"),
     Token("dan", "delta", NoService), Token(NoUser, NoOrg, NoService)}

MCAdmins == {<<"ann", "acme">>, <<"dan", "delta">>}

Here == Name("here")

\* Nothing; a lower half beside a region; everything, as a block of no bits;
\* one address beside a block with too many bits.
MCSourceSets ==
    {{}, {Block(1, 1), RegionOf(Here)}, {Block(2, 0)}, {Address(1), Block(2, 3)}}

\* The last header repeats the text of a registered address.
MCPlaces == {<<0, NoText>>, <<1, NoText>>, <<2, Here>>, <<3, Address(1)>>}

MCEventSets == {{"put", "warning"}, {"webhook", "nonsense"}}

MCPatches ==
    {[events |-> {}, enabled |-> "off"], [events |-> {}, enabled |-> "on"],
     [events |-> {"*"}, enabled |-> "unset"]}

=============================================================================
