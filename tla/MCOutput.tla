------------------------------ MODULE MCOutput ------------------------------
(***************************************************************************)
(* An instance of Output for TLC.                                          *)
(***************************************************************************)
EXTENDS Output

Bad == {"bad"}

(* A variable that nothing was assigned to may hold a format or no format.   *)
Leftovers == {2, 77}

Names == [t \in SinkTypes |-> IF t \in {CONSOLE_SINK, CUSTOM_SINK} THEN "Console" ELSE t]

Options ==
    {<<CONSOLE_SINK, "CONSOLE_DISABLE_COLOR", <<"bool", 1>>>>,
     <<CONSOLE_SINK, "CONSOLE_DISABLE_CONTEXT_INFO", <<"bool", 0>>>>,
     <<CONSOLE_SINK, "CONSOLE_DISABLE_CONTEXT_INFO", <<"text", Word>>>>,
     <<CONSOLE_SINK, "LINE_FORMAT", <<"int", JSON>>>>,
     <<CONSOLE_SINK, "LINE_FORMAT", <<"text", Blank>>>>,
     <<FILE_SINK, "LINE_FORMAT", <<"int", 7>>>>,
     <<FILE_SINK, "FILE_DISABLE_CONTEXT_INFO", <<"bool", 0>>>>,
     <<FILE_SINK, "FILE_DISABLE_CONTEXT_INFO", <<"bool", 1>>>>,
     <<FILE_SINK, "FILE_NO_DATE_ON_NAME", <<"bool", 1>>>>,
     <<FILE_SINK, "FILE_NO_TIME_ON_NAME", <<"bool", 0>>>>,
     <<SYSLOG_SINK, "LINE_FORMAT", <<"text", Word>>>>,
     <<CONSOLE_JSON_SINK, "LOG_THREAD_ID", <<"bool", 1>>>>,
     <<CUSTOM_SINK, "LOG_THREAD_ID", <<"bool", 1>>>>}

StreamNames == {[by |-> BY_EXTRA_ID, origin |-> <<>>], [by |-> BY_EXTRA_ID, origin |-> <<"service">>],
                [by |-> BY_CHANNEL, origin |-> <<>>], [by |-> BY_BOTH, origin |-> <<>>]}

Levels    == {<<"text", Word>>, <<"int", 300>>, <<"int", NOTICE>>}
Spellings == {<<"warning", "mixed">>, <<"quiet", "lower">>, <<"loud", "UPPER">>}

Lists == {<<>>, <<"ALL">>, <<"AUTHV4", "CURL">>, <<"CURL", "COOKIES">>}

Context(v) == [k |-> v]
NoContext  == <<>>

Logs ==
    {[level |-> l, extra |-> "", channel |-> <<"c">>, message |-> <<"text">>, own |-> NoContext, info |-> NoContext, global |-> NoContext] :
        l \in {TRACE, INFO, NOTICE, WARNING, ERROR}}
    \cup {[level |-> WARNING, extra |-> x, channel |-> <<"c">>, message |-> <<"text">>, own |-> o, info |-> i, global |-> Context("g")] :
            x \in {"", "id"}, o \in {NoContext, Context("o"), Context("bad")}, i \in {NoContext, Context("i")}}
    \cup {[level |-> ERROR, extra |-> "id", channel |-> <<"c">>, message |-> <<"bad">>, own |-> ("session_id" :> "o"), info |-> Context("i"),
           global |-> NoContext],
          [level |-> ERROR, extra |-> "bad", channel |-> <<"c">>, message |-> <<"text">>, own |-> NoContext, info |-> NoContext,
           global |-> NoContext],
          [level |-> ERROR, extra |-> "", channel |-> <<>>, message |-> <<"text">>, own |-> NoContext, info |-> NoContext,
           global |-> NoContext],
          [level |-> ERROR, extra |-> "id", channel |-> <<>>, message |-> <<"text">>, own |-> NoContext, info |-> ("bad" :> "i"),
           global |-> NoContext],
          [level |-> ERROR, extra |-> "id", channel |-> <<"c">>, message |-> <<"text">>, own |-> ("session_id" :> "o"), info |-> Context("i"),
           global |-> Context("bad")]}

Process == Context("global")

Of(tag, messages) == {<<tag, m>> : m \in messages}

Messages ==
    Of("CURL", {<<"(HeaderIn)", " ">>, <<"(HeaderIn)", ":", "Host:">>, <<"(HeaderOut)">>, <<"(HeaderIn)", " ", "Host:", " ", "value", "\n">>,
                <<"(HeaderIn)", " ", "X-Key", ":", "Host:", "secret">>, <<"(HeaderIn)", "X-Key", " ", "secret">>,
                <<"(HeaderIn)", "X-Key", "Host:", "secret">>,
                <<"(HeaderOut)", "GET", "\n", "secret", "\n", "secret">>, <<"(DataIn)", "secret">>, <<"(Text)", "value">>, <<"GET">>, <<" ">>})
    \cup Of("CurlHttpClient", {<<"Making request to", " ", "https", ":", "//">>, <<"X-Key", ":", " ", "secret", ":", "secret">>, <<"X-Key", ":">>,
                <<"Host:", "value">>, <<"HTTP/", "1.1">>, <<"secret">>, <<"secret", "Including headers:", "secret">>, <<"80", " ", "bytes written to response">>})
    \cup Of("AWSClient", {<<"Server time is", " ", "value">>, <<"HTTP response code:", "404", "\n", "secret">>,
                <<"HTTP response code:", "404">>, <<"secret">>})
    \cup Of("AWSAuthV4Signer", {<<"Signing request with:", "secret">>, <<"Signing request with:">>, <<"secret">>})
    \cup Of("Aws::Config::ConfigFileProfileFSM", {<<"found access key", " ", "secret">>, <<"found", "secret">>})
    \cup Of("AWSErrorMarshaller", {<<"Encountered AWSError", " ", "'", "Type", "'", ":", "secret">>,
                <<"Encountered AWSError", " ", "'", ":", "secret", "'", ":", "secret">>, <<"Encountered AWSError", " ", "'", "secret">>,
                <<"Error response is", "secret">>, <<"Encountered", "secret">>})
    \cup Of("EC2MetadataClient", {<<"secret", "\n">>})
    \cup Of("Unknown", {<<"secret">>, <<"\n">>})
=============================================================================
