----------------------------- MODULE HttpQuery -----------------------------
(***************************************************************************)
(* The parameters of a request on their way from HttpClient::ParseParam    *)
(* (sample-net/http_client.h) through the target of the request line to    *)
(* HttpRequest::parameters (sample-net/impl/boost_http_parser.h).  Keys    *)
(* and values are sequences of characters; in the URL a character x is     *)
(* <<x>> or, percent-encoded, <<"%", x>>.                                  *)
(***************************************************************************)
EXTENDS Naturals, Sequences, SequencesExt

Raw(msg) == [i \in DOMAIN msg |-> <<msg[i]>>]

(* curl_easy_escape leaves letters, digits and - . _ ~ alone.              *)
URLEncode(msg) ==
  [i \in DOMAIN msg |-> IF msg[i] \in {" ", "+", "&", "=", "%"} THEN <<"%", msg[i]>>
                        ELSE <<msg[i]>>]

(* Joined in the order of the map, here a sequence of pairs.  Only the     *)
(* values are encoded.                                                     *)
ParseParam(params) ==
  FlattenSeq([i \in DOMAIN params |->
                (IF i = 1 THEN << >> ELSE << <<"&">> >>)
                  \o Raw(params[i][1]) \o << <<"=">> >> \o URLEncode(params[i][2])])

(* Mutant: encoded_query, of which nothing is decoded. *)
query_Encoded(target) == FlattenSeq(target)

(* boost's url_view::query decodes the whole query; a + stays a +.         *)
query(target) == [i \in DOMAIN target |-> Last(target[i])]

(* boost::algorithm::split                                                 *)
split(s, separator) ==
  LET parts[i \in 0..Len(s)] ==
        IF i = 0 THEN << << >> >>
        ELSE IF s[i] = separator THEN Append(parts[i-1], << >>)
        ELSE [parts[i-1] EXCEPT ![Len(parts[i-1])] = Append(@, s[i])]
  IN parts[Len(s)]

(* ParseReq: what is not key=value is skipped, a repeated key is assigned  *)
(* again, so that its last value stays.                                    *)
parameters(target) ==
  LET keyValues == split(query(target), "&")
      keyValueSplit == [i \in DOMAIN keyValues |-> split(keyValues[i], "=")]
      pair == {i \in DOMAIN keyValues : Len(keyValueSplit[i]) = 2}
      key(i) == keyValueSplit[i][1]
  IN [k \in {key(i) : i \in pair} |-> keyValueSplit[Max({i \in pair : key(i) = k})][2]]
=============================================================================
