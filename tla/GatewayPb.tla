----------------------------- MODULE GatewayPb -----------------------------
(***************************************************************************)
(* The generated code of the gateway (api-gateway/auth-service,            *)
(* api-gateway/user-service/proto, api-gateway/chat-service/script): the   *)
(* messages as the gateway writes and reads them, and the stubs it calls.  *)
(* A stub sends the message it is given to its method's path and decodes   *)
(* the answer; every error of the call is returned as it is.               *)
(***************************************************************************)
EXTENDS Protobuf

-----------------------------------------------------------------------------
(* auth.pb.go                                                              *)

LoginRequest == {Field(1, "email", "string")}
OTPRequest == {Field(1, "email", "string"), Field(2, "code", "string")}
AuthUser ==
  {Field(1, "id", "int32"), Field(2, "email", "string"), Field(3, "is_verified", "bool"),
   Field(7, "created_at", "message"), Field(8, "updated_at", "message")}
AuthResponse ==
  {Field(1, "message", "string"), Nested(2, "user", "message", AuthUser),
   Field(3, "token", "string")}
TokenRequest == {Field(1, "token", "string")}
TokenResponse == {Field(1, "user_email", "string")}

-----------------------------------------------------------------------------
(* users.pb.go                                                             *)

UpdateUserRequest ==
  {Field(1, "id", "int32"), Field(3, "first_name", "string"), Field(4, "last_name", "string")}
UpdateUserResponse == {Field(1, "message", "string")}
GetAllUsersRequest == {Field(1, "name", "string")}
User ==
  {Field(1, "id", "int32"), Field(2, "email", "string"), Field(3, "first_name", "string"),
   Field(4, "last_name", "string"), Field(5, "is_online", "bool")}
UsersList == {Nested(1, "users", "messages", User)}

-----------------------------------------------------------------------------
(* chat.pb.go                                                              *)

SendMessageRequest ==
  {Field(1, "sender_id", "int32"), Field(2, "receiver_id", "repeated int32"),
   Field(4, "content", "string")}
SendMessageResponse == {Field(1, "status", "string")}
StreamMessagesRequest == {Field(1, "token", "string")}
StreamMessagesResponse ==
  {Field(1, "sender_id", "int32"), Field(3, "content", "string"),
   Field(4, "timestamp", "string")}
Message == {Field(2, "sender", "string"), Field(3, "message", "string")}
ListMessageResponse == {Nested(1, "messages", "messages", Message)}
ListMessageBySenderRequest == {Field(1, "sender_id", "int32")}
Messages == {Field(1, "message", "string")}
ListMessageBySenderResponse ==
  {Field(1, "sender_name", "string"), Nested(2, "messages", "messages", Messages)}

-----------------------------------------------------------------------------
(* The clients: auth_grpc.pb.go, users_grpc.pb.go, chat_grpc.pb.go         *)

Login == Method("auth.AuthService", "Login", LoginRequest, AuthResponse)
VerifyOTP == Method("auth.AuthService", "VerifyOTP", OTPRequest, AuthResponse)
VerifyToken == Method("auth.AuthService", "VerifyToken", TokenRequest, TokenResponse)

GetAllUsers == Method("users.UserService", "GetAllUsers", GetAllUsersRequest, UsersList)
UpdateUser == Method("users.UserService", "UpdateUser", UpdateUserRequest, UpdateUserResponse)

SendMessage == Method("chat.ChatService", "SendMessage", SendMessageRequest, SendMessageResponse)
StreamMessages ==
  Method("chat.ChatService", "StreamMessages", StreamMessagesRequest, StreamMessagesResponse)
ListMessage == Method("chat.ChatService", "ListMessage", {}, ListMessageResponse)
ListMessageBySender ==
  Method("chat.ChatService", "ListMessageBySender",
         ListMessageBySenderRequest, ListMessageBySenderResponse)

=============================================================================
