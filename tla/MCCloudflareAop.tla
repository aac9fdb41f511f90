--------------------------- MODULE MCCloudflareAop ---------------------------
(* The upload to Cloudflare alone, with an answer that breaks off.           *)
EXTENDS CloudflareAop
=============================================================================
