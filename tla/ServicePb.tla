----------------------------- MODULE ServicePb -----------------------------
(***************************************************************************)
(* The generated code of the services (auth_service/proto,                 *)
(* user_service/proto, chat-service/proto/script): the messages as the     *)
(* services read and write them, the handlers that decode a request and    *)
(* call the method, and the service descriptions that lead a path to its   *)
(* handler.                                                                *)
(***************************************************************************)
EXTENDS Protobuf

-----------------------------------------------------------------------------
(* auth.pb.go                                                              *)

LoginRequest == {Field(1, "email", "string")}
OTPRequest == {Field(1, "email", "string"), Field(2, "code", "string")}
AuthUser ==
  {Field(1, "id", "int32"), Field(2, "email", "string"), Field(3, "is_verified", "bool"),
   Field(7, "created_at", "message"), Field(8, "updated_at", "message")}
AuthResponse ==
  {Field(1, "message", "string"), Nested(2, "user", "message", AuthUser),
   Field(3, "token", "string")}
TokenRequest == {Field(1, "token", "string")}
TokenResponse == {Field(1, "user_email", "string")}

-----------------------------------------------------------------------------
(* user.pb.go                                                              *)

UpdateUserRequest ==
  {Field(1, "id", "int32"), Field(3, "first_name", "string"), Field(4, "last_name", "string")}
UpdateUserResponse == {Field(1, "message", "string")}
GetAllUsersRequest == {Field(1, "name", "string")}
UserRenumbered ==                     \* mutant: the gateway's copy is an older one
  {Field(1, "id", "int32"), Field(2, "email", "string"), Field(4, "first_name", "string"),
   Field(3, "last_name", "string"), Field(5, "is_online", "bool")}
User ==
  {Field(1, "id", "int32"), Field(2, "email", "string"), Field(3, "first_name", "string"),
   Field(4, "last_name", "string"), Field(5, "is_online", "bool")}
UsersList == {Nested(1, "users", "messages", User)}

-----------------------------------------------------------------------------
(* chat.pb.go                                                              *)

SendMessageRequest ==
  {Field(1, "sender_id", "int32"), Field(2, "receiver_id", "repeated int32"),
   Field(4, "content", "string")}
SendMessageResponse == {Field(1, "status", "string")}
StreamMessagesRequest == {Field(1, "token", "string")}
StreamMessagesResponse ==
  {Field(1, "sender_id", "int32"), Field(3, "content", "string"),
   Field(4, "timestamp", "string")}
Message == {Field(2, "sender", "string"), Field(3, "message", "string")}
ListMessageResponse == {Nested(1, "messages", "messages", Message)}
ListMessageBySenderRequest == {Field(1, "sender_id", "int32")}
Messages == {Field(1, "message", "string")}
ListMessageBySenderResponse ==
  {Field(1, "sender_name", "string"), Nested(2, "messages", "messages", Messages)}

-----------------------------------------------------------------------------
(* The servers: auth_grpc.pb.go, user_grpc.pb.go, chat_grpc.pb.go          *)

Handler(name, in, out) == [name |-> name, in |-> in, out |-> out]

LoginHandler == Handler("Login", LoginRequest, AuthResponse)
VerifyOTPHandler == Handler("VerifyOTP", OTPRequest, AuthResponse)
VerifyTokenHandler == Handler("VerifyToken", TokenRequest, TokenResponse)
AuthServiceDesc ==
  [name |-> "auth.AuthService", methods |-> {LoginHandler, VerifyOTPHandler, VerifyTokenHandler}]

GetAllUsersHandler == Handler("GetAllUsers", GetAllUsersRequest, UsersList)
UpdateUserHandler == Handler("UpdateUser", UpdateUserRequest, UpdateUserResponse)
UserServiceDesc ==
  [name |-> "users.UserService", methods |-> {GetAllUsersHandler, UpdateUserHandler}]

SendMessageHandler == Handler("SendMessage", SendMessageRequest, SendMessageResponse)
StreamMessagesHandler ==
  Handler("StreamMessages", StreamMessagesRequest, StreamMessagesResponse)
ListMessageHandler == Handler("ListMessage", {}, ListMessageResponse)
ListMessageBySenderHandler ==
  Handler("ListMessageBySender", ListMessageBySenderRequest, ListMessageBySenderResponse)
ChatServiceDesc ==
  [name |-> "chat.ChatService",
   methods |-> {SendMessageHandler, StreamMessagesHandler, ListMessageHandler,
                ListMessageBySenderHandler}]

\* A call reaches the handler that the description of its service has for it.
Leads(path, desc, handler) ==
  path[1] = desc.name /\ handler \in desc.methods /\ path[2] = handler.name

=============================================================================
