---------------------------------- MODULE Words ----------------------------------
(***************************************************************************)
(* The words of HTTP heads, environments and forms that the library only   *)
(* ever compares as a whole, whatever their case.  Each is one symbol.     *)
(***************************************************************************)
EXTENDS CString

TransferEncoding == 200
Disposition == 201
ContentType == 202
Filename == 203
NameWord == 204
BoundaryWord == 205
Mixed == 206
Plain == 207
Scheme == 208
Host == 209
FormData == 210
Html == 211
Base64 == 212
Basic == 213
Bearer == 214
Digest == 215
Username == 216
Realm == 217
NonceKey == 218
Cnonce == 219
Response == 220
UriKey == 221
Algorithm == 222
Qop == 223
Nc == 224
Opaque == 225
AuthWord == 226
AuthInt == 227
MD5Word == 228
MD5Sess == 229
HTTP_ == 230
SCRIPT_NAME == 231
REQUEST_METHOD == 232
PATH_INFO == 233
QUERY_STRING == 234
CONTENT_LENGTH == 235
CONTENT_TYPE == 236
AUTH_TYPE == 237
HTTPS == 238
REMOTE_ADDR == 239
SERVER_PORT == 240
Authorization == 241
Cookie == 242
HostName == 243
ContentLength == 244
Urlencoded == 246
MultipartFormData == 247
OctetStream == 249
Localhost == 250
Loopback == 251
On == 252
Progname == 253
GET == 254
POST == 255
OPTIONS == 256

=============================================================================
