---------------------------- MODULE SdkMessages ----------------------------
(***************************************************************************)
(* What AwsLogSystem makes of the messages of the AWS SDK                  *)
(* (src/src/aws/aws-log-system.cpp): the white space at their end is       *)
(* trimmed, and by the tag of a message its text is passed, cut short and  *)
(* marked, or refused.                                                     *)
(*                                                                         *)
(* A message is a sequence of pieces.  The texts the code compares it with *)
(* are pieces of their own, and so are blanks, quotes and the colons that  *)
(* are not part of such a text, all of which are at its end; any other     *)
(* piece has none of these, and more than one character.                   *)
(***************************************************************************)
EXTENDS Integers, SequencesExt

REDACTED_TEXT    == "<REDACTED>"
FAILED_TEXT      == "Failed to process"
UNSUPPORTED_TEXT == "Unsupported method"

BLANK         == " "
Blanks        == {BLANK, "\n", "\t"}
OneCharacter  == Blanks \cup {":", "'"}

WHITE_LISTED_HEADERS ==
    {"Accept:", "accept:", "content-length:", "Content-Length:", "content-type:", "Content-Type:",
     "date:", "Date:", "Expect:", "expect:", "Host:", "host:", "HTTP/", "user-agent:", "User-Agent:",
     "x-amz-api-version:", "x-amz-date:"}

AuthV4Phrases ==
    {"Calculated sha256", "Canonical Header String:", "Canonical Request String:", "Final computed signing hash:",
     "Final String to sign:", "Signed Headers value:", "Signing request with:"}

ProfilePhrases == {"found access key", "found profile", "found region"}

AWSClientPhrases ==
    {"Found body, but content-length has not been set", "If the signature check failed.",
     "Request returned error.", "Request Successfully signed", "Server time is"}

CurlClientPhrases ==
    {"Including headers:", "Initializing Curl library with version:", "Making request to",
     "Obtained connection handle", "Releasing curl handle", "Response body length:",
     "Response content-length header:", "Returned content type", "Returned http response code"}

(* The pieces with a colon.                                                  *)
WithColon ==
    {":", "HTTP response code:", "Including headers:", "Initializing Curl library with version:",
     "Response body length:", "Response content-length header:"}
    \cup (AuthV4Phrases \ {"Calculated sha256"}) \cup (WHITE_LISTED_HEADERS \ {"HTTP/"})

StartsWith(m, texts) == m # <<>> /\ m[1] \in texts

(* The outcome of process_..._tag: its result and what it leaves of the      *)
(* message.  A message is cut after a prefix and then marked.                *)
Passed(m)   == [ok |-> TRUE, text |-> m]
Cut(m, n)   == [ok |-> TRUE, text |-> SubSeq(m, 1, n) \o <<BLANK, REDACTED_TEXT>>]
Refused(m)  == [ok |-> FALSE, text |-> m]

(* Mutant: the last one.                                                     *)
LastOf(m, kind) == SelectLastInSeq(m, LAMBDA p : p \in kind)

(* The position of the first piece of a kind; 0, npos, if there is none.     *)
FirstOf(m, kind) == SelectInSeq(m, LAMBDA p : p \in kind)

trim_white_spaces(m) == SubSeq(m, 1, SelectLastInSeq(m, LAMBDA p : p \notin Blanks))

-----------------------------------------------------------------------------
(* The tags                                                                  *)

process_auth_v4_signer_tag(m) ==
    IF StartsWith(m, AuthV4Phrases) THEN Cut(m, 1) ELSE Refused(m)

process_config_file_profile_tag(m) ==
    IF StartsWith(m, ProfilePhrases) THEN Cut(m, 1) ELSE Refused(m)

(* The first line of m; its first piece if the line does not end.            *)
CutLine(m) == LET i == FirstOf(m, {"\n"}) IN IF i # 0 THEN Cut(m, i - 1) ELSE Cut(m, 1)

process_aws_client_tag(m) ==
    IF StartsWith(m, AWSClientPhrases) THEN Passed(m)
    ELSE IF StartsWith(m, {"HTTP response code:"}) THEN CutLine(m) ELSE Refused(m)

process_curl_http_client_tag(m) ==
    LET colon == FirstOf(m, WithColon)
    IN  IF \/ StartsWith(m, CurlClientPhrases)
           \/ FirstOf(m, {"bytes written to response"}) # 0
           \/ StartsWith(m, WHITE_LISTED_HEADERS)
        THEN Passed(m)
        ELSE IF colon # 0 THEN Cut(m, colon) ELSE Refused(m)

(* The header is looked for one character after "(HeaderIn)".                *)
HeaderAt(m) == Len(m) >= 3 /\ m[2] \in OneCharacter /\ m[3] \in WHITE_LISTED_HEADERS

process_curl_tag(m) ==
    LET colon == FirstOf(m, WithColon)
    IN  CASE StartsWith(m, {"(DataIn)", "(DataOut)"}) -> Cut(m, 1)
          [] StartsWith(m, {"(SSLDataIn)", "(SSLDataOut)", "(Text)"}) -> Passed(m)
          [] StartsWith(m, {"(HeaderIn)"}) ->
               IF m = <<"(HeaderIn)">> \/ HeaderAt(m) THEN Passed(m)
               ELSE IF colon # 0 THEN Cut(m, colon) ELSE Cut(m, 1)
          [] StartsWith(m, {"(HeaderOut)"}) -> CutLine(m)
          [] OTHER -> Refused(m)

(* Encountered AWSError 'Type': text.  The search for the quote and colon    *)
(* begins with the opening quote, the cut leaves the colon out.              *)
process_error_marshaller_tag(m) ==
    LET quotes == {i \in 3 .. Len(m) - 1 : m[i] = "'" /\ m[i + 1] = ":"}
    IN  IF IsPrefix(<<"Encountered AWSError", BLANK, "'">>, m)
        THEN IF quotes # {} THEN Cut(m, Min(quotes)) ELSE Cut(m, 1)
        ELSE IF StartsWith(m, {"Error response is"}) THEN Cut(m, 1) ELSE Refused(m)

-----------------------------------------------------------------------------
(* The dispatch                                                              *)

(* SanitizerTags and their names.                                            *)
ALL_TAG                 == 0
AUTHV4_TAG              == 1
AWSCLIENT_TAG           == 2
CONFIG_FILE_PROFILE_TAG == 3
CURL_HTTP_CLIENT_TAG    == 4
CURL_TAG                == 5
ERROR_MARSHALLER_TAG    == 6

SanitizerTags == ALL_TAG .. ERROR_MARSHALLER_TAG

sanitizer_tag_to_string(t) ==
    CASE t = ALL_TAG -> "ALL" [] t = AUTHV4_TAG -> "AUTHV4" [] t = AWSCLIENT_TAG -> "AWSCLIENT"
      [] t = CONFIG_FILE_PROFILE_TAG -> "CONFIG_FILE_PROFILE" [] t = CURL_HTTP_CLIENT_TAG -> "CURL_HTTP_CLIENT"
      [] t = CURL_TAG -> "CURL" [] t = ERROR_MARSHALLER_TAG -> "ERROR_MARSHALLER"

(* Any other name is refused with an exception.                              *)
TagNames == {sanitizer_tag_to_string(t) : t \in SanitizerTags}

string_to_sanitizer_tag(s) == CHOOSE t \in SanitizerTags : sanitizer_tag_to_string(t) = s

(* The tags that are sanitised, and what switches that on.                   *)
SanitizedTags ==
    {"Aws::Config::ConfigFileProfileFSM", "AWSAuthV4Signer", "AWSClient", "AWSErrorMarshaller", "CURL",
     "CurlHttpClient"}

SwitchOf == [tag \in SanitizedTags |->
    CASE tag = "Aws::Config::ConfigFileProfileFSM" -> CONFIG_FILE_PROFILE_TAG
      [] tag = "AWSAuthV4Signer" -> AUTHV4_TAG [] tag = "AWSClient" -> AWSCLIENT_TAG
      [] tag = "AWSErrorMarshaller" -> ERROR_MARSHALLER_TAG [] tag = "CURL" -> CURL_TAG
      [] tag = "CurlHttpClient" -> CURL_HTTP_CLIENT_TAG]

(* The tags whose messages are never looked at.                              *)
PlainTags ==
    {"Aws::Config::AWSConfigFileProfileConfigLoader", "Aws::Config::AWSProfileConfigLoader",
     "Aws_Init_Cleanup", "ClientConfiguration", "CurlHandleContainer",
     "DefaultAWSCredentialsProviderChain", "EC2MetadataClient", "InstanceProfileCredentialsProvider",
     "FileSystemUtils", "ProfileConfigFileAWSCredentialsProvider",
     "STSAssumeRoleWithWebIdentityCredentialsProvider"}

allowed_sanitizer_tag(allowed, tag) == Contains(allowed, ALL_TAG) \/ Contains(allowed, tag)

Processed(tag, m) ==
    CASE tag = "Aws::Config::ConfigFileProfileFSM" -> process_config_file_profile_tag(m)
      [] tag = "AWSAuthV4Signer"                 -> process_auth_v4_signer_tag(m)
      [] tag = "AWSClient"                       -> process_aws_client_tag(m)
      [] tag = "AWSErrorMarshaller"              -> process_error_marshaller_tag(m)
      [] tag = "CURL"                            -> process_curl_tag(m)
      [] tag = "CurlHttpClient"                  -> process_curl_http_client_tag(m)

process_tag(allowed, tag, m) ==
    CASE m = <<>> -> Passed(m)
      [] m # <<>> /\ tag \in SanitizedTags ->
           IF allowed_sanitizer_tag(allowed, SwitchOf[tag]) THEN Processed(tag, m) ELSE Passed(m)
      [] m # <<>> /\ tag \in PlainTags -> Passed(m)
      [] OTHER -> Refused(m)
=============================================================================
