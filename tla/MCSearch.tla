------------------------------ MODULE MCSearch ------------------------------
EXTENDS Search

MCUrls  == {"p", "q", "r"}
MCWords == {"hello", "world", "11"}

\* "hello world" has eleven letters.
MCLengthOf == [p \in {<<"hello", "world">>} |-> "11"]

Document(title, content, depth, owner, at) ==
    [title |-> title, content |-> content, depth |-> depth, owner |-> owner, at |-> at]

\* Equal scores with different times, equal times with different scores, equal in
\* both, one without the word; days of two seconds.
MCDocuments == {
    Document(<<"hello">>, <<"hello">>, 0, "w1", 0),
    Document(<<"hello">>, <<"hello", "hello">>, 2, "w2", 1),
    Document(<<"hello">>, <<"world", "hello", "hello">>, 0, "w1", 3),
    Document(<<"world">>, <<"world">>, 0, "w1", 2)}

Ask1(limit, sortBy) ==
    [words |-> <<"hello">>, domain |-> None, owner |-> None, from |-> None, to |-> None,
     sortBy |-> sortBy, limit |-> limit]

\* A plain search, one in a domain with a page size the storage corrects, and one
\* with the filters of the command line.
MCQueries == {
    Ask1(2, "relevance"),
    [Ask1(0, "recent") EXCEPT !.domain = {"p", "q"}],
    [Ask1(1, "relevance") EXCEPT !.owner = "w1", !.from = 0, !.to = 0]}

\* One document has the phrase in its content, one as its title, one is its length.
PhraseDocuments == {
    Document(<<"hello">>, <<"hello", "world">>, 0, "w1", 0),
    Document(<<"hello", "world">>, <<"world">>, 0, "w1", 1),
    Document(<<"world">>, <<"11">>, 0, "w1", 2)}

Phrase == [Ask1(2, "relevance") EXCEPT !.words = <<"hello", "world">>]

PhraseQueries == {Phrase, [Phrase EXCEPT !.domain = {"p"}]}
=============================================================================
